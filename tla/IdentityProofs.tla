--------------------------- MODULE IdentityProofs ---------------------------
(***************************************************************************)
(* Proofs about Identity, for every wiring, every set of requests, users   *)
(* and tokens, and a clock that runs as far as it likes.                   *)
(***************************************************************************)
EXTENDS Identity, TLAPS

-----------------------------------------------------------------------------
(* How the inductive invariant survives a step, by what the step does to   *)
(* the refresh-token store.                                                *)

\* The pairs requests hold are the ones they held, or fewer.
CandidatesKept ==
  \A r \in Requests : req'[r].cand = req[r].cand \/ req'[r].cand = NoToken

\* Tokens only leave the store.
LEMMA TokensLeave ==
  ASSUME IInv, TypeOK', CandidatesKept, UNCHANGED jwtVars,
         stored' \subseteq stored, spent' = spent \cup (stored \ stored'),
         \A r \in Requests : RequestOK(r)',
         \A r \in Requests : PendingOK(r)',
         SuccessIsStored'
  PROVE  IInv'
<1>1. CandidatesDiffer'
  BY SMT DEF IInv, CandidatesDiffer, CandidatesKept
<1>2. UnsignedUnused'
  BY ConstantsOK, SMT DEF IInv, UnsignedUnused, CandidatesKept, Entered, jwtVars
<1>3. FamiliesEntered'
  BY SMT DEF IInv, FamiliesEntered, Entered, jwtVars
<1>4. (stored \cap spent = {})'
  BY SMT DEF IInv
<1>5. OneLiveTokenPerSession'
  BY SMT DEF IInv, OneLiveTokenPerSession, jwtVars
<1> QED BY <1>1, <1>2, <1>3, <1>4, <1>5 DEF IInv

\* A request enters the pair it has generated, under a session of its own.
LEMMA TokenEnters ==
  ASSUME IInv, TypeOK', CandidatesKept, UNCHANGED jwtVars,
         NEW r \in Requests, req[r].pc \in {"unit", "save"},
         stored' = stored \cup {req[r].cand}, UNCHANGED spent,
         \A x \in Requests : RequestOK(x)',
         \A x \in Requests : PendingOK(x)',
         SuccessIsStored'
  PROVE  IInv'
<1> DEFINE c == req[r].cand
<1>1. c \in Tokens /\ c \notin Entered /\ family[c] = c /\ owner[c] # NoUser
  BY ConstantsOK, SMT DEF IInv, PendingOK, RequestOK
<1>2. CandidatesDiffer'
  BY SMT DEF IInv, CandidatesDiffer, CandidatesKept
<1>3. UnsignedUnused'
  BY ConstantsOK, <1>1, SMT DEF IInv, UnsignedUnused, CandidatesKept, Entered, jwtVars
<1>4. FamiliesEntered'
  BY SMT DEF IInv, FamiliesEntered, Entered, jwtVars
<1>5. (stored \cap spent = {})'
  BY <1>1, SMT DEF IInv, Entered
<1>6. OneLiveTokenPerSession'
  <2>1. \A t \in stored : family[t] # c
    BY <1>1, SMT DEF IInv, TypeOK, FamiliesEntered, Entered
  <2> QED BY <1>1, <2>1, SMT DEF IInv, OneLiveTokenPerSession, jwtVars
<1> QED BY <1>2, <1>3, <1>4, <1>5, <1>6 DEF IInv

\* A request exchanges the token it was presented for the pair it generated.
LEMMA TokensSwap ==
  ASSUME IInv, TypeOK', CandidatesKept, UNCHANGED jwtVars,
         NEW r \in Requests, req[r].pc = "rotate", Held(r), Swap(r),
         \A x \in Requests : RequestOK(x)',
         \A x \in Requests : PendingOK(x)',
         SuccessIsStored'
  PROVE  IInv'
<1> DEFINE c == req[r].cand
           p == req[r].presented
<1>1. c \in Tokens /\ c \notin Entered /\ owner[c] # NoUser
  BY ConstantsOK, SMT DEF IInv, PendingOK, RequestOK
<1>2. p \in stored /\ family[c] = family[p]
  BY SMT DEF IInv, PendingOK, Held
<1>3. CandidatesDiffer'
  BY SMT DEF IInv, CandidatesDiffer, CandidatesKept
<1>4. UnsignedUnused'
  BY ConstantsOK, <1>1, <1>2, SMT DEF IInv, UnsignedUnused, CandidatesKept, Entered, jwtVars, Swap
<1>5. FamiliesEntered'
  BY <1>2, SMT DEF IInv, FamiliesEntered, Entered, jwtVars, Swap
<1>6. (stored \cap spent = {})'
  BY <1>1, <1>2, SMT DEF IInv, Entered, Swap
<1>7. OneLiveTokenPerSession'
  BY <1>1, <1>2, SMT DEF IInv, OneLiveTokenPerSession, jwtVars, Swap
<1> QED BY <1>3, <1>4, <1>5, <1>6, <1>7 DEF IInv

-----------------------------------------------------------------------------
(* One request moves: what IInv says of the others is untouched.           *)

Others(r) == \A x \in Requests \ {r} : req'[x] = req[x]

\* Tokens enter and leave the store, but a pair another request holds stays its
\* own, and delivered pairs stay delivered.
LEMMA OneRequestMoves ==
  ASSUME IInv, TypeOK', UNCHANGED jwtVars,
         NEW r \in Requests, Others(r),
         req'[r].cand = req[r].cand \/ req'[r].cand = NoToken,
         RequestOK(r)', PendingOK(r)',
         delivered \subseteq delivered', delivered' \subseteq Entered',
         Entered \subseteq Entered', Entered' \subseteq Entered \cup {req[r].cand},
         (req[r].res = "ok" /\ req[r].op # "me" => req[r].cand \in Entered)'
  PROVE  /\ CandidatesKept
         /\ \A x \in Requests : RequestOK(x)'
         /\ \A x \in Requests : PendingOK(x)'
         /\ SuccessIsStored'
<1>1. CandidatesKept
  BY SMT DEF CandidatesKept, Others
<1>2. \A x \in Requests : RequestOK(x)'
  BY SMT DEF IInv, RequestOK, Others
<1>3. \A x \in Requests : PendingOK(x)'
  <2> SUFFICES ASSUME NEW x \in Requests \ {r}
               PROVE  PendingOK(x)'
    OBVIOUS
  <2>1. req[x].cand # NoToken => req[x].cand # req[r].cand
    BY SMT DEF IInv, CandidatesDiffer
  <2> QED BY ConstantsOK, <2>1, SMT DEF IInv, PendingOK, Others, jwtVars
<1>4. SuccessIsStored'
  BY SMT DEF IInv, SuccessIsStored, Others, Entered
<1> QED BY <1>1, <1>2, <1>3, <1>4
-----------------------------------------------------------------------------
(* The actions.  Those of a request that leave the store alone, or only    *)
(* take tokens out of it, go by QuietStep.                                 *)

LEMMA QuietStep ==
  ASSUME IInv, TypeOK', UNCHANGED jwtVars, delivered' = delivered,
         NEW r \in Requests, Others(r),
         req'[r].cand = req[r].cand \/ req'[r].cand = NoToken,
         RequestOK(r)', PendingOK(r)',
         stored' \subseteq stored, spent' = spent \cup (stored \ stored'),
         (req[r].res = "ok" /\ req[r].op # "me" => req[r].cand \in Entered)'
  PROVE  IInv'
<1>1. delivered' \subseteq Entered' /\ Entered' = Entered
  BY SMT DEF IInv, SuccessIsStored, Entered
<1>2. /\ CandidatesKept
      /\ \A x \in Requests : RequestOK(x)'
      /\ \A x \in Requests : PendingOK(x)'
      /\ SuccessIsStored'
  BY <1>1, OneRequestMoves
<1> QED BY <1>2, TokensLeave

LEMMA RegisterStep ==
  ASSUME IInv, NEW r \in Requests, NEW e \in Emails, Register(r, e)
  PROVE  IInv'
<1> USE ConstantsOK DEF Register
<1>0. req' \in [Requests -> Request]
  BY SMT DEF IInv, TypeOK, Request, Calls, Ops, Outcomes, Idle
<1>1. TypeOK'
  BY <1>0, SMT DEF IInv, TypeOK, userVars, tokenVars, jwtVars
<1>2. /\ Others(r)
      /\ req'[r].cand = req[r].cand \/ req'[r].cand = NoToken
      /\ UNCHANGED jwtVars
      /\ delivered' = delivered
      /\ stored' \subseteq stored
      /\ spent' = spent \cup (stored \ stored')
  BY SMT DEF IInv, TypeOK, Request, Idle, Others, userVars, tokenVars, jwtVars
<1>3. RequestOK(r)'
  BY SMT DEF IInv, TypeOK, Request, RequestOK, Idle, Entered, SuccessIsStored, UnsignedUnused
<1>4. PendingOK(r)'
  BY SMT DEF IInv, TypeOK, Request, RequestOK, PendingOK, Idle, Entered, userVars, tokenVars, jwtVars
<1>5. (req[r].res = "ok" /\ req[r].op # "me" => req[r].cand \in Entered)'
  BY SMT DEF IInv, TypeOK, Request, RequestOK, SuccessIsStored, Idle, Entered, userVars, tokenVars, jwtVars
<1> QED BY <1>1, <1>2, <1>3, <1>4, <1>5, QuietStep

LEMMA LoginStep ==
  ASSUME IInv, NEW r \in Requests, NEW e \in Emails, Login(r, e)
  PROVE  IInv'
<1> USE ConstantsOK DEF Login
<1>0. req' \in [Requests -> Request]
  <2> DEFINE q == [req[r] EXCEPT !.pc = "find", !.op = "login", !.email = e]
  <2>0. "find" \in Calls /\ "login" \in Ops /\ e \in Emails \cup {NoEmail} /\ req[r] \in Request
    BY DEF IInv, TypeOK, Calls, Ops
  <2>1. q \in Request
    BY <2>0, Zenon DEF Request
  <2>2. req' = [req EXCEPT ![r] = q]
    OBVIOUS
  <2> HIDE DEF q
  <2>3. req \in [Requests -> Request]
    BY DEF IInv, TypeOK
  <2> HIDE DEF Login
  <2> QED BY <2>1, <2>2, <2>3
<1>1. TypeOK'
  BY <1>0, SMT DEF IInv, TypeOK, userVars, tokenVars, jwtVars
<1>2. /\ Others(r)
      /\ req'[r].cand = req[r].cand \/ req'[r].cand = NoToken
      /\ UNCHANGED jwtVars
      /\ delivered' = delivered
      /\ stored' \subseteq stored
      /\ spent' = spent \cup (stored \ stored')
  BY SMT DEF IInv, TypeOK, Request, Idle, Others, userVars, tokenVars, jwtVars
<1>3. RequestOK(r)'
  BY SMT DEF IInv, TypeOK, Request, RequestOK, Idle, Entered, SuccessIsStored, UnsignedUnused
<1>4. PendingOK(r)'
  BY SMT DEF IInv, TypeOK, Request, RequestOK, PendingOK, Idle, Entered, userVars, tokenVars, jwtVars
<1>5. (req[r].res = "ok" /\ req[r].op # "me" => req[r].cand \in Entered)'
  BY SMT DEF IInv, TypeOK, Request, RequestOK, SuccessIsStored, Idle, Entered, userVars, tokenVars, jwtVars
<1> QED BY <1>1, <1>2, <1>3, <1>4, <1>5, QuietStep

LEMMA RefreshStep ==
  ASSUME IInv, NEW r \in Requests, NEW t \in delivered, Refresh(r, t)
  PROVE  IInv'
<1> USE ConstantsOK DEF Refresh, WithToken
<1>0. req' \in [Requests -> Request]
  BY SMT DEF IInv, TypeOK, Request, Calls, Ops, Outcomes, Idle
<1>1. TypeOK'
  BY <1>0, SMT DEF IInv, TypeOK, userVars, tokenVars, jwtVars
<1>2. /\ Others(r)
      /\ req'[r].cand = req[r].cand \/ req'[r].cand = NoToken
      /\ UNCHANGED jwtVars
      /\ delivered' = delivered
      /\ stored' \subseteq stored
      /\ spent' = spent \cup (stored \ stored')
  BY SMT DEF IInv, TypeOK, Request, Idle, Others, userVars, tokenVars, jwtVars
<1>3. RequestOK(r)'
  BY SMT DEF IInv, TypeOK, Request, RequestOK, Idle, Entered, SuccessIsStored, UnsignedUnused
<1>4. PendingOK(r)'
  BY SMT DEF IInv, TypeOK, Request, RequestOK, PendingOK, Idle, Entered, userVars, tokenVars, jwtVars
<1>5. (req[r].res = "ok" /\ req[r].op # "me" => req[r].cand \in Entered)'
  BY SMT DEF IInv, TypeOK, Request, RequestOK, SuccessIsStored, Idle, Entered, userVars, tokenVars, jwtVars
<1> QED BY <1>1, <1>2, <1>3, <1>4, <1>5, QuietStep

LEMMA MeStep ==
  ASSUME IInv, NEW r \in Requests, NEW t \in delivered, Me(r, t)
  PROVE  IInv'
<1> USE ConstantsOK DEF Me, WithToken
<1>0. req' \in [Requests -> Request]
  BY SMT DEF IInv, TypeOK, Request, Calls, Ops, Outcomes, Idle
<1>1. TypeOK'
  BY <1>0, SMT DEF IInv, TypeOK, userVars, tokenVars, jwtVars
<1>2. /\ Others(r)
      /\ req'[r].cand = req[r].cand \/ req'[r].cand = NoToken
      /\ UNCHANGED jwtVars
      /\ delivered' = delivered
      /\ stored' \subseteq stored
      /\ spent' = spent \cup (stored \ stored')
  BY SMT DEF IInv, TypeOK, Request, Idle, Others, userVars, tokenVars, jwtVars
<1>3. RequestOK(r)'
  BY SMT DEF IInv, TypeOK, Request, RequestOK, Idle, Entered, SuccessIsStored, UnsignedUnused
<1>4. PendingOK(r)'
  BY SMT DEF IInv, TypeOK, Request, RequestOK, PendingOK, Idle, Entered, userVars, tokenVars, jwtVars
<1>5. (req[r].res = "ok" /\ req[r].op # "me" => req[r].cand \in Entered)'
  BY SMT DEF IInv, TypeOK, Request, RequestOK, SuccessIsStored, Idle, Entered, userVars, tokenVars, jwtVars
<1> QED BY <1>1, <1>2, <1>3, <1>4, <1>5, QuietStep

LEMMA FindByEmailStep ==
  ASSUME IInv, NEW r \in Requests, FindByEmail(r)
  PROVE  IInv'
<1> USE ConstantsOK DEF FindByEmail, Answer
<1>0. req' \in [Requests -> Request]
  BY SMT DEF IInv, TypeOK, Request, Calls, Ops, Outcomes, Idle
<1>1. TypeOK'
  BY <1>0, SMT DEF IInv, TypeOK, userVars, tokenVars, jwtVars
<1>2. /\ Others(r)
      /\ req'[r].cand = req[r].cand \/ req'[r].cand = NoToken
      /\ UNCHANGED jwtVars
      /\ delivered' = delivered
      /\ stored' \subseteq stored
      /\ spent' = spent \cup (stored \ stored')
  BY SMT DEF IInv, TypeOK, Request, Idle, Others, userVars, tokenVars, jwtVars
<1>3. RequestOK(r)'
  BY SMT DEF IInv, TypeOK, Request, RequestOK, Idle, Entered, SuccessIsStored, UnsignedUnused
<1>4. PendingOK(r)'
  BY SMT DEF IInv, TypeOK, Request, RequestOK, PendingOK, Idle, Entered, userVars, tokenVars, jwtVars
<1>5. (req[r].res = "ok" /\ req[r].op # "me" => req[r].cand \in Entered)'
  BY SMT DEF IInv, TypeOK, Request, RequestOK, SuccessIsStored, Idle, Entered, userVars, tokenVars, jwtVars
<1> QED BY <1>1, <1>2, <1>3, <1>4, <1>5, QuietStep

LEMMA FindByIDStep ==
  ASSUME IInv, NEW r \in Requests, FindByID(r)
  PROVE  IInv'
<1> USE ConstantsOK DEF FindByID, Answer, Goto
<1>0. req' \in [Requests -> Request]
  BY SMT DEF IInv, TypeOK, Request, Calls, Ops, Outcomes, Idle
<1>1. TypeOK'
  BY <1>0, SMT DEF IInv, TypeOK, userVars, tokenVars, jwtVars
<1>2. /\ Others(r)
      /\ req'[r].cand = req[r].cand \/ req'[r].cand = NoToken
      /\ UNCHANGED jwtVars
      /\ delivered' = delivered
      /\ stored' \subseteq stored
      /\ spent' = spent \cup (stored \ stored')
  BY SMT DEF IInv, TypeOK, Request, Idle, Others, userVars, tokenVars, jwtVars
<1>3. RequestOK(r)'
  BY SMT DEF IInv, TypeOK, Request, RequestOK, Idle, Entered, SuccessIsStored, UnsignedUnused
<1>4. PendingOK(r)'
  BY SMT DEF IInv, TypeOK, Request, RequestOK, PendingOK, Idle, Entered, userVars, tokenVars, jwtVars
<1>5. (req[r].res = "ok" /\ req[r].op # "me" => req[r].cand \in Entered)'
  BY SMT DEF IInv, TypeOK, Request, RequestOK, SuccessIsStored, Idle, Entered, userVars, tokenVars, jwtVars
<1> QED BY <1>1, <1>2, <1>3, <1>4, <1>5, QuietStep

LEMMA FindProfileStep ==
  ASSUME IInv, NEW r \in Requests, FindProfile(r)
  PROVE  IInv'
<1> USE ConstantsOK DEF FindProfile, Answer
<1>0. req' \in [Requests -> Request]
  BY SMT DEF IInv, TypeOK, Request, Calls, Ops, Outcomes, Idle
<1>1. TypeOK'
  BY <1>0, SMT DEF IInv, TypeOK, userVars, tokenVars, jwtVars
<1>2. /\ Others(r)
      /\ req'[r].cand = req[r].cand \/ req'[r].cand = NoToken
      /\ UNCHANGED jwtVars
      /\ delivered' = delivered
      /\ stored' \subseteq stored
      /\ spent' = spent \cup (stored \ stored')
  BY SMT DEF IInv, TypeOK, Request, Idle, Others, userVars, tokenVars, jwtVars
<1>3. RequestOK(r)'
  BY SMT DEF IInv, TypeOK, Request, RequestOK, Idle, Entered, SuccessIsStored, UnsignedUnused
<1>4. PendingOK(r)'
  BY SMT DEF IInv, TypeOK, Request, RequestOK, PendingOK, Idle, Entered, userVars, tokenVars, jwtVars
<1>5. (req[r].res = "ok" /\ req[r].op # "me" => req[r].cand \in Entered)'
  BY SMT DEF IInv, TypeOK, Request, RequestOK, SuccessIsStored, Idle, Entered, userVars, tokenVars, jwtVars
<1> QED BY <1>1, <1>2, <1>3, <1>4, <1>5, QuietStep

\* A user enters the two maps under his id and his address.
LEMMA InsertTyped ==
  ASSUME IInv, NEW r \in Requests, req[r].pc \in {"create", "unit"},
         InsertUser(r) \/ UNCHANGED userVars
  PROVE  /\ byID' \in [Users -> Emails \cup {NoEmail}]
         /\ byEmail' \in [Emails -> Users \cup {NoUser}]
<1>1. req[r].uid \in Users /\ req[r].email \in Emails
  BY SMT DEF IInv, RequestOK
<1>2. byID \in [Users -> Emails \cup {NoEmail}] /\ byEmail \in [Emails -> Users \cup {NoUser}]
  BY DEF IInv, TypeOK
<1> QED BY <1>1, <1>2 DEF InsertUser, userVars

LEMMA MemoryCreateStep ==
  ASSUME IInv, NEW r \in Requests, MemoryCreate(r)
  PROVE  IInv'
<1> USE ConstantsOK DEF MemoryCreate, Answer, Goto, InsertUser
<1>0. req' \in [Requests -> Request]
  BY SMT DEF IInv, TypeOK, Request, Calls, Ops, Outcomes, Idle
<1>1. TypeOK'
  <2>1. byID' \in [Users -> Emails \cup {NoEmail}] /\ byEmail' \in [Emails -> Users \cup {NoUser}]
    BY InsertTyped
  <2> QED BY <1>0, <2>1, SMT DEF IInv, TypeOK, tokenVars, jwtVars
<1>2. /\ Others(r)
      /\ req'[r].cand = req[r].cand \/ req'[r].cand = NoToken
      /\ UNCHANGED jwtVars
      /\ delivered' = delivered
      /\ stored' \subseteq stored
      /\ spent' = spent \cup (stored \ stored')
  BY SMT DEF IInv, TypeOK, Request, Idle, Others, userVars, tokenVars, jwtVars
<1>3. RequestOK(r)'
  BY SMT DEF IInv, TypeOK, Request, RequestOK, Idle, Entered, SuccessIsStored, UnsignedUnused
<1>4. PendingOK(r)'
  BY SMT DEF IInv, TypeOK, Request, RequestOK, PendingOK, Idle, Entered, userVars, tokenVars, jwtVars
<1>5. (req[r].res = "ok" /\ req[r].op # "me" => req[r].cand \in Entered)'
  BY SMT DEF IInv, TypeOK, Request, RequestOK, SuccessIsStored, Idle, Entered, userVars, tokenVars, jwtVars
<1> QED BY <1>1, <1>2, <1>3, <1>4, <1>5, QuietStep

LEMMA MemoryDeleteStep ==
  ASSUME IInv, NEW r \in Requests, MemoryDelete(r)
  PROVE  IInv'
<1> USE ConstantsOK DEF MemoryDelete, Answer, DeleteUser
<1>0. req' \in [Requests -> Request]
  BY SMT DEF IInv, TypeOK, Request, Calls, Ops, Outcomes, Idle
<1>1. TypeOK'
  BY <1>0, SMT DEF IInv, TypeOK, userVars, tokenVars, jwtVars
<1>2. /\ Others(r)
      /\ req'[r].cand = req[r].cand \/ req'[r].cand = NoToken
      /\ UNCHANGED jwtVars
      /\ delivered' = delivered
      /\ stored' \subseteq stored
      /\ spent' = spent \cup (stored \ stored')
  BY SMT DEF IInv, TypeOK, Request, Idle, Others, userVars, tokenVars, jwtVars
<1>3. RequestOK(r)'
  BY SMT DEF IInv, TypeOK, Request, RequestOK, Idle, Entered, SuccessIsStored, UnsignedUnused
<1>4. PendingOK(r)'
  BY SMT DEF IInv, TypeOK, Request, RequestOK, PendingOK, Idle, Entered, userVars, tokenVars, jwtVars
<1>5. (req[r].res = "ok" /\ req[r].op # "me" => req[r].cand \in Entered)'
  BY SMT DEF IInv, TypeOK, Request, RequestOK, SuccessIsStored, Idle, Entered, userVars, tokenVars, jwtVars
<1> QED BY <1>1, <1>2, <1>3, <1>4, <1>5, QuietStep

LEMMA CancelStep ==
  ASSUME IInv, NEW r \in Requests, Cancel(r)
  PROVE  IInv'
<1> USE ConstantsOK DEF Cancel
<1>0. req' \in [Requests -> Request]
  BY SMT DEF IInv, TypeOK, Request, Calls, Ops, Outcomes, Idle
<1>1. TypeOK'
  BY <1>0, SMT DEF IInv, TypeOK, userVars, tokenVars, jwtVars
<1>2. /\ Others(r)
      /\ req'[r].cand = req[r].cand \/ req'[r].cand = NoToken
      /\ UNCHANGED jwtVars
      /\ delivered' = delivered
      /\ stored' \subseteq stored
      /\ spent' = spent \cup (stored \ stored')
  BY SMT DEF IInv, TypeOK, Request, Idle, Others, userVars, tokenVars, jwtVars
<1>3. RequestOK(r)'
  BY SMT DEF IInv, TypeOK, Request, RequestOK, Idle, Entered, SuccessIsStored, UnsignedUnused
<1>4. PendingOK(r)'
  BY SMT DEF IInv, TypeOK, Request, RequestOK, PendingOK, Idle, Entered, userVars, tokenVars, jwtVars
<1>5. (req[r].res = "ok" /\ req[r].op # "me" => req[r].cand \in Entered)'
  BY SMT DEF IInv, TypeOK, Request, RequestOK, SuccessIsStored, Idle, Entered, userVars, tokenVars, jwtVars
<1> QED BY <1>1, <1>2, <1>3, <1>4, <1>5, QuietStep
-----------------------------------------------------------------------------
(* Signing a pair names a token nobody has; it enters no store.            *)

LEMMA PairSigned ==
  ASSUME IInv, NEW r \in Requests, NEW t \in Tokens, NEW f \in Tokens,
         NEW call \in {"rotate", "save", "unit", "create"},
         req[r].pc = "issue",
         FreshToken(t),
         call = "rotate" <=> req[r].op = "refresh",
         call = "save" => req[r].op = "login",
         call \in {"unit", "create"} => req[r].op = "register",
         req[r].op = "refresh" => f = family[req[r].presented],
         req[r].op # "refresh" => f = t,
         owner' = [owner EXCEPT ![t] = req[r].uid],
         iat' = [iat EXCEPT ![t] = now],
         family' = [family EXCEPT ![t] = f],
         req' = [req EXCEPT ![r].pc = call, ![r].cand = t],
         UNCHANGED <<now, byID, byEmail, stored, spent, delivered>>
  PROVE  IInv'
<1> USE ConstantsOK
<1>1. req[r].uid \in Users
  BY SMT DEF IInv, RequestOK
<1>2. /\ owner[t] = NoUser
      /\ t \notin Entered
      /\ \A x \in Requests : req[x].cand # t
      /\ \A u \in Tokens : family[u] = t => u = t
  BY SMT DEF IInv, UnsignedUnused, FreshToken
<1>3. req[r].op = "refresh" => req[r].presented \in Entered
  BY SMT DEF IInv, RequestOK, SuccessIsStored, Entered
<1>4. req[r].op = "refresh" => f \in Entered
  BY <1>3, SMT DEF IInv, TypeOK, FamiliesEntered, Entered
<1>5. req' \in [Requests -> Request]
  <2>1. call \in Calls /\ t \in Tokens \cup {NoToken} /\ req[r] \in Request
    BY DEF IInv, TypeOK, Calls
  <2>2. [req[r] EXCEPT !.pc = call, !.cand = t] \in Request
    BY <2>1, Zenon DEF Request
  <2> QED BY <2>2, SMT DEF IInv, TypeOK
<1>6. TypeOK'
  BY <1>1, <1>5, SMT DEF IInv, TypeOK
<1>7. \A x \in Requests : RequestOK(x)'
  BY <1>1, SMT DEF IInv, TypeOK, Request, RequestOK
<1>8. \A x \in Requests : PendingOK(x)'
  <2>1. PendingOK(r)'
    BY <1>1, <1>2, <1>3, SMT DEF IInv, TypeOK, Request, PendingOK, Entered
  <2>2. ASSUME NEW x \in Requests \ {r}
        PROVE  PendingOK(x)'
    <3>1. req'[x] = req[x] /\ req[x].cand # t
      BY <1>2, SMT DEF IInv, TypeOK
    <3>2. req[x].pc = "rotate" => req[x].presented # t
      BY <1>2, SMT DEF IInv, RequestOK, SuccessIsStored, Entered
    <3> QED BY <3>1, <3>2, SMT DEF IInv, TypeOK, PendingOK, Entered
  <2> QED BY <2>1, <2>2
<1>9. CandidatesDiffer'
  BY <1>2, SMT DEF IInv, TypeOK, Request, CandidatesDiffer
<1>10. UnsignedUnused'
  BY <1>1, <1>2, <1>4, SMT DEF IInv, TypeOK, Request, UnsignedUnused, Entered
<1>11. FamiliesEntered'
  BY <1>4, SMT DEF IInv, TypeOK, FamiliesEntered, Entered
<1>12. SuccessIsStored'
  <2>1. req[r].res = "none"
    BY SMT DEF IInv, RequestOK
  <2> QED BY <2>1, SMT DEF IInv, TypeOK, Request, SuccessIsStored, RequestOK
<1>13. OneLiveTokenPerSession'
  BY <1>2, SMT DEF IInv, TypeOK, OneLiveTokenPerSession, Entered
<1> QED BY <1>6, <1>7, <1>8, <1>9, <1>10, <1>11, <1>12, <1>13 DEF IInv

LEMMA AnswerTyped ==
  ASSUME req \in [Requests -> Request], NEW r \in Requests,
         NEW outcome \in Outcomes, Answer(r, outcome)
  PROVE  req' \in [Requests -> Request]
<1>1. [req[r] EXCEPT !.pc = "respond", !.res = outcome] \in Request
  <2>1. "respond" \in Calls /\ req[r] \in Request
    BY DEF Calls
  <2> QED BY <2>1, Zenon DEF Request
<1> QED BY <1>1, SMT DEF Answer

LEMMA GenerateTokenPairStep ==
  ASSUME IInv, NEW r \in Requests, GenerateTokenPair(r)
  PROVE  IInv'
<1> USE ConstantsOK
<1>0. /\ req[r].pc = "issue"
      /\ UNCHANGED <<now, byID, byEmail, stored, spent, delivered>>
  BY DEF GenerateTokenPair, userVars, tokenVars
<1>1. CASE Answer(r, "error") /\ UNCHANGED jwtVars
  <2> USE <1>0, <1>1
  <2>0. req' \in [Requests -> Request]
    <3>1. "error" \in Outcomes /\ req \in [Requests -> Request] /\ Answer(r, "error")
      BY DEF IInv, TypeOK, Outcomes
    <3> QED BY <3>1, AnswerTyped
  <2>1. TypeOK'
    BY <2>0, SMT DEF IInv, TypeOK, jwtVars
  <2>2. /\ Others(r)
        /\ req'[r].cand = req[r].cand
        /\ delivered' = delivered /\ stored' = stored /\ spent' = spent
    BY SMT DEF IInv, TypeOK, Request, Others, Answer
  <2>3. RequestOK(r)'
    BY SMT DEF IInv, TypeOK, Request, RequestOK, Answer
  <2>4. PendingOK(r)'
    BY SMT DEF IInv, TypeOK, Request, PendingOK, Answer
  <2>5. (req[r].res = "ok" /\ req[r].op # "me" => req[r].cand \in Entered)'
    BY SMT DEF IInv, TypeOK, Request, Answer
  <2> QED BY <1>1, <2>1, <2>2, <2>3, <2>4, <2>5, QuietStep
<1>2. ASSUME NEW t \in Tokens, FreshToken(t),
             owner' = [owner EXCEPT ![t] = req[r].uid],
             iat' = [iat EXCEPT ![t] = now],
             family' = [family EXCEPT ![t] = FamilyOf(r, t)],
             req' = [req EXCEPT ![r].pc = AfterIssue(r), ![r].cand = t]
      PROVE  IInv'
  <2>1. /\ req[r].op \in {"register", "login", "refresh"}
        /\ AfterIssue(r) \in {"rotate", "save", "unit", "create"}
        /\ AfterIssue(r) = "rotate" <=> req[r].op = "refresh"
        /\ AfterIssue(r) = "save" => req[r].op = "login"
        /\ AfterIssue(r) \in {"unit", "create"} => req[r].op = "register"
    BY <1>0, SMT DEF IInv, RequestOK, AfterIssue
  <2>2. req[r].op = "refresh" => req[r].presented \in Tokens
    BY SMT DEF IInv, TypeOK, RequestOK
  <2>3. /\ FamilyOf(r, t) \in Tokens
        /\ req[r].op = "refresh" => FamilyOf(r, t) = family[req[r].presented]
        /\ req[r].op # "refresh" => FamilyOf(r, t) = t
    BY <2>2, SMT DEF IInv, TypeOK, FamilyOf
  <2> HIDE DEF FamilyOf, AfterIssue
  <2> QED BY <1>0, <1>2, <2>1, <2>3, PairSigned
<1> QED BY <1>1, <1>2 DEF GenerateTokenPair
-----------------------------------------------------------------------------
(* Save, and the registration of postgres.                                 *)

LEMMA MemorySaveStep ==
  ASSUME IInv, NEW r \in Requests, MemorySave(r)
  PROVE  IInv'
<1> USE ConstantsOK
<1>1. /\ Others(r)
      /\ req'[r].cand = req[r].cand
      /\ UNCHANGED jwtVars
      /\ delivered' = delivered /\ spent' = spent
      /\ stored' = stored \/ stored' = stored \cup {req[r].cand}
  BY SMT DEF MemorySave, IInv, TypeOK, Request, Others, SaveFailed, Answer, Goto
<1>2. req[r].cand \in Tokens /\ req[r].pc \in {"unit", "save"}
  BY SMT DEF MemorySave, IInv, PendingOK
<1>3. req' \in [Requests -> Request]
  BY SMT DEF MemorySave, IInv, TypeOK, Request, Calls, Outcomes, SaveFailed, Answer, Goto
<1>4. TypeOK'
  BY <1>1, <1>2, <1>3, SMT DEF MemorySave, IInv, TypeOK, Request, RequestOK, InsertUser, userVars, jwtVars
<1>5. RequestOK(r)'
  BY SMT DEF MemorySave, IInv, TypeOK, Request, RequestOK, SaveFailed, Answer, Goto
<1>6. PendingOK(r)'
  BY SMT DEF MemorySave, IInv, TypeOK, Request, RequestOK, PendingOK, SaveFailed, Answer, Goto
<1>7. (req[r].res = "ok" /\ req[r].op # "me" => req[r].cand \in Entered)'
  BY SMT DEF MemorySave, IInv, TypeOK, Request, RequestOK, Entered, SaveFailed, Answer, Goto
<1>8. CASE stored' = stored
  BY <1>1, <1>4, <1>5, <1>6, <1>7, <1>8, QuietStep
<1>9. CASE stored' = stored \cup {req[r].cand}
  <2>1. /\ delivered \subseteq delivered' /\ delivered' \subseteq Entered'
        /\ Entered \subseteq Entered' /\ Entered' \subseteq Entered \cup {req[r].cand}
    BY <1>1, <1>9, SMT DEF IInv, SuccessIsStored, Entered
  <2>2. /\ CandidatesKept
        /\ \A x \in Requests : RequestOK(x)'
        /\ \A x \in Requests : PendingOK(x)'
        /\ SuccessIsStored'
    BY <1>1, <1>4, <1>5, <1>6, <1>7, <2>1, OneRequestMoves
  <2> QED BY <1>1, <1>2, <1>4, <1>9, <2>2, TokenEnters
<1> QED BY <1>1, <1>8, <1>9

LEMMA RedisSaveStep ==
  ASSUME IInv, NEW r \in Requests, RedisSave(r)
  PROVE  IInv'
<1> USE ConstantsOK
<1>1. /\ Others(r)
      /\ req'[r].cand = req[r].cand
      /\ UNCHANGED jwtVars
      /\ delivered' = delivered /\ spent' = spent
      /\ stored' = stored \/ stored' = stored \cup {req[r].cand}
  BY SMT DEF RedisSave, IInv, TypeOK, Request, Others, SaveFailed, Answer, Goto
<1>2. req[r].cand \in Tokens /\ req[r].pc \in {"unit", "save"}
  BY SMT DEF RedisSave, IInv, PendingOK
<1>3. req' \in [Requests -> Request]
  BY SMT DEF RedisSave, IInv, TypeOK, Request, Calls, Outcomes, SaveFailed, Answer, Goto
<1>4. TypeOK'
  BY <1>1, <1>2, <1>3, SMT DEF RedisSave, IInv, TypeOK, Request, RequestOK, InsertUser, userVars, jwtVars
<1>5. RequestOK(r)'
  BY SMT DEF RedisSave, IInv, TypeOK, Request, RequestOK, SaveFailed, Answer, Goto
<1>6. PendingOK(r)'
  BY SMT DEF RedisSave, IInv, TypeOK, Request, RequestOK, PendingOK, SaveFailed, Answer, Goto
<1>7. (req[r].res = "ok" /\ req[r].op # "me" => req[r].cand \in Entered)'
  BY SMT DEF RedisSave, IInv, TypeOK, Request, RequestOK, Entered, SaveFailed, Answer, Goto
<1>8. CASE stored' = stored
  BY <1>1, <1>4, <1>5, <1>6, <1>7, <1>8, QuietStep
<1>9. CASE stored' = stored \cup {req[r].cand}
  <2>1. /\ delivered \subseteq delivered' /\ delivered' \subseteq Entered'
        /\ Entered \subseteq Entered' /\ Entered' \subseteq Entered \cup {req[r].cand}
    BY <1>1, <1>9, SMT DEF IInv, SuccessIsStored, Entered
  <2>2. /\ CandidatesKept
        /\ \A x \in Requests : RequestOK(x)'
        /\ \A x \in Requests : PendingOK(x)'
        /\ SuccessIsStored'
    BY <1>1, <1>4, <1>5, <1>6, <1>7, <2>1, OneRequestMoves
  <2> QED BY <1>1, <1>2, <1>4, <1>9, <2>2, TokenEnters
<1> QED BY <1>1, <1>8, <1>9

LEMMA PostgresSaveStep ==
  ASSUME IInv, NEW r \in Requests, PostgresSave(r)
  PROVE  IInv'
<1> USE ConstantsOK
<1>1. /\ Others(r)
      /\ req'[r].cand = req[r].cand
      /\ UNCHANGED jwtVars
      /\ delivered' = delivered /\ spent' = spent
      /\ stored' = stored \/ stored' = stored \cup {req[r].cand}
  BY SMT DEF PostgresSave, IInv, TypeOK, Request, Others, SaveFailed, Answer, Goto
<1>2. req[r].cand \in Tokens /\ req[r].pc \in {"unit", "save"}
  BY SMT DEF PostgresSave, IInv, PendingOK
<1>3. req' \in [Requests -> Request]
  BY SMT DEF PostgresSave, IInv, TypeOK, Request, Calls, Outcomes, SaveFailed, Answer, Goto
<1>4. TypeOK'
  BY <1>1, <1>2, <1>3, SMT DEF PostgresSave, IInv, TypeOK, Request, RequestOK, InsertUser, userVars, jwtVars
<1>5. RequestOK(r)'
  BY SMT DEF PostgresSave, IInv, TypeOK, Request, RequestOK, SaveFailed, Answer, Goto
<1>6. PendingOK(r)'
  BY SMT DEF PostgresSave, IInv, TypeOK, Request, RequestOK, PendingOK, SaveFailed, Answer, Goto
<1>7. (req[r].res = "ok" /\ req[r].op # "me" => req[r].cand \in Entered)'
  BY SMT DEF PostgresSave, IInv, TypeOK, Request, RequestOK, Entered, SaveFailed, Answer, Goto
<1>8. CASE stored' = stored
  BY <1>1, <1>4, <1>5, <1>6, <1>7, <1>8, QuietStep
<1>9. CASE stored' = stored \cup {req[r].cand}
  <2>1. /\ delivered \subseteq delivered' /\ delivered' \subseteq Entered'
        /\ Entered \subseteq Entered' /\ Entered' \subseteq Entered \cup {req[r].cand}
    BY <1>1, <1>9, SMT DEF IInv, SuccessIsStored, Entered
  <2>2. /\ CandidatesKept
        /\ \A x \in Requests : RequestOK(x)'
        /\ \A x \in Requests : PendingOK(x)'
        /\ SuccessIsStored'
    BY <1>1, <1>4, <1>5, <1>6, <1>7, <2>1, OneRequestMoves
  <2> QED BY <1>1, <1>2, <1>4, <1>9, <2>2, TokenEnters
<1> QED BY <1>1, <1>8, <1>9

LEMMA PostgresCreateUserWithRefreshTokenStep ==
  ASSUME IInv, NEW r \in Requests, PostgresCreateUserWithRefreshToken(r)
  PROVE  IInv'
<1> USE ConstantsOK
<1>1. /\ Others(r)
      /\ req'[r].cand = req[r].cand
      /\ UNCHANGED jwtVars
      /\ delivered' = delivered /\ spent' = spent
      /\ stored' = stored \/ stored' = stored \cup {req[r].cand}
  BY SMT DEF PostgresCreateUserWithRefreshToken, IInv, TypeOK, Request, Others, SaveFailed, Answer, Goto
<1>2. req[r].cand \in Tokens /\ req[r].pc \in {"unit", "save"}
  BY SMT DEF PostgresCreateUserWithRefreshToken, IInv, PendingOK
<1>3. req' \in [Requests -> Request]
  BY SMT DEF PostgresCreateUserWithRefreshToken, IInv, TypeOK, Request, Calls, Outcomes, SaveFailed, Answer, Goto
<1>4. TypeOK'
  BY <1>1, <1>2, <1>3, SMT DEF PostgresCreateUserWithRefreshToken, IInv, TypeOK, Request, RequestOK, InsertUser, userVars, jwtVars
<1>5. RequestOK(r)'
  BY SMT DEF PostgresCreateUserWithRefreshToken, IInv, TypeOK, Request, RequestOK, SaveFailed, Answer, Goto
<1>6. PendingOK(r)'
  BY SMT DEF PostgresCreateUserWithRefreshToken, IInv, TypeOK, Request, RequestOK, PendingOK, SaveFailed, Answer, Goto
<1>7. (req[r].res = "ok" /\ req[r].op # "me" => req[r].cand \in Entered)'
  BY SMT DEF PostgresCreateUserWithRefreshToken, IInv, TypeOK, Request, RequestOK, Entered, SaveFailed, Answer, Goto
<1>8. CASE stored' = stored
  BY <1>1, <1>4, <1>5, <1>6, <1>7, <1>8, QuietStep
<1>9. CASE stored' = stored \cup {req[r].cand}
  <2>1. /\ delivered \subseteq delivered' /\ delivered' \subseteq Entered'
        /\ Entered \subseteq Entered' /\ Entered' \subseteq Entered \cup {req[r].cand}
    BY <1>1, <1>9, SMT DEF IInv, SuccessIsStored, Entered
  <2>2. /\ CandidatesKept
        /\ \A x \in Requests : RequestOK(x)'
        /\ \A x \in Requests : PendingOK(x)'
        /\ SuccessIsStored'
    BY <1>1, <1>4, <1>5, <1>6, <1>7, <2>1, OneRequestMoves
  <2> QED BY <1>1, <1>2, <1>4, <1>9, <2>2, TokenEnters
<1> QED BY <1>1, <1>8, <1>9

-----------------------------------------------------------------------------
(* Rotate.  A refused or failed call is quiet; what is left is the swap.   *)

LEMMA SwapStep ==
  ASSUME IInv, NEW r \in Requests, NEW outcome \in Outcomes,
         req[r].pc = "rotate", Held(r), Swap(r), Answer(r, outcome),
         UNCHANGED <<now, userVars, jwtVars, delivered>>
  PROVE  IInv'
<1> USE ConstantsOK
<1>1. /\ Others(r)
      /\ req'[r].cand = req[r].cand
      /\ req[r].cand \in Tokens /\ req[r].presented \in stored
      /\ req[r].op = "refresh"
  BY SMT DEF IInv, TypeOK, Request, Others, Answer, Held, PendingOK, RequestOK
<1>2. TypeOK'
  <2>1. req' \in [Requests -> Request]
    BY AnswerTyped DEF IInv, TypeOK
  <2> QED BY <1>1, <2>1, SMT DEF IInv, TypeOK, Swap, userVars, jwtVars
<1>3. RequestOK(r)'
  BY SMT DEF IInv, TypeOK, Request, RequestOK, Answer
<1>4. PendingOK(r)'
  BY SMT DEF IInv, TypeOK, Request, PendingOK, Answer
<1>5. /\ delivered \subseteq delivered' /\ delivered' \subseteq Entered'
      /\ Entered \subseteq Entered' /\ Entered' \subseteq Entered \cup {req[r].cand}
      /\ req'[r].cand \in Entered'
  BY <1>1, SMT DEF IInv, SuccessIsStored, Entered, Swap
<1>6. /\ CandidatesKept
      /\ \A x \in Requests : RequestOK(x)'
      /\ \A x \in Requests : PendingOK(x)'
      /\ SuccessIsStored'
  BY <1>1, <1>2, <1>3, <1>4, <1>5, OneRequestMoves
<1> QED BY <1>2, <1>6, TokensSwap

LEMMA MemoryRotateStep ==
  ASSUME IInv, NEW r \in Requests, MemoryRotate(r)
  PROVE  IInv'
<1> USE ConstantsOK
<1>1. CASE Held(r) /\ Swap(r) /\ \E outcome \in Outcomes : Answer(r, outcome)
  BY <1>1, SwapStep DEF MemoryRotate
<1>2. CASE /\ \E outcome \in Outcomes \ {"ok"} : Answer(r, outcome)
           /\ stored' \subseteq stored
           /\ spent' = spent \cup (stored \ stored')
  <2> PICK outcome \in Outcomes \ {"ok"} : Answer(r, outcome)
    BY <1>2
  <2>0. UNCHANGED <<now, byID, byEmail, owner, iat, family, delivered>>
    BY DEF MemoryRotate, userVars, jwtVars
  <2>1. TypeOK'
    <3>1. req' \in [Requests -> Request]
      BY AnswerTyped DEF IInv, TypeOK
    <3> QED BY <1>2, <2>0, <3>1, SMT DEF IInv, TypeOK
  <2>2. Others(r) /\ req'[r].cand = req[r].cand
    BY SMT DEF IInv, TypeOK, Request, Others, Answer
  <2>3. RequestOK(r)'
    BY <2>0, SMT DEF IInv, TypeOK, Request, RequestOK, Answer
  <2>4. PendingOK(r)' /\ req'[r].res # "ok"
    BY SMT DEF IInv, TypeOK, Request, PendingOK, Answer
  <2> QED BY <1>2, <2>0, <2>1, <2>2, <2>3, <2>4, QuietStep DEF jwtVars
<1>3. "ok" \in Outcomes /\ "error" \in Outcomes /\ "invalid" \in Outcomes
  BY DEF Outcomes
<1> QED BY <1>1, <1>2, <1>3 DEF MemoryRotate, Held, tokenVars

LEMMA RedisRotateStep ==
  ASSUME IInv, NEW r \in Requests, RedisRotate(r)
  PROVE  IInv'
<1> USE ConstantsOK
<1>1. CASE Held(r) /\ Swap(r) /\ \E outcome \in Outcomes : Answer(r, outcome)
  BY <1>1, SwapStep DEF RedisRotate
<1>2. CASE /\ \E outcome \in Outcomes \ {"ok"} : Answer(r, outcome)
           /\ stored' \subseteq stored
           /\ spent' = spent \cup (stored \ stored')
  <2> PICK outcome \in Outcomes \ {"ok"} : Answer(r, outcome)
    BY <1>2
  <2>0. UNCHANGED <<now, byID, byEmail, owner, iat, family, delivered>>
    BY DEF RedisRotate, userVars, jwtVars
  <2>1. TypeOK'
    <3>1. req' \in [Requests -> Request]
      BY AnswerTyped DEF IInv, TypeOK
    <3> QED BY <1>2, <2>0, <3>1, SMT DEF IInv, TypeOK
  <2>2. Others(r) /\ req'[r].cand = req[r].cand
    BY SMT DEF IInv, TypeOK, Request, Others, Answer
  <2>3. RequestOK(r)'
    BY <2>0, SMT DEF IInv, TypeOK, Request, RequestOK, Answer
  <2>4. PendingOK(r)' /\ req'[r].res # "ok"
    BY SMT DEF IInv, TypeOK, Request, PendingOK, Answer
  <2> QED BY <1>2, <2>0, <2>1, <2>2, <2>3, <2>4, QuietStep DEF jwtVars
<1>3. "ok" \in Outcomes /\ "error" \in Outcomes /\ "invalid" \in Outcomes
  BY DEF Outcomes
<1> QED BY <1>1, <1>2, <1>3 DEF RedisRotate, Held, tokenVars

LEMMA PostgresRotateStep ==
  ASSUME IInv, NEW r \in Requests, PostgresRotate(r)
  PROVE  IInv'
<1> USE ConstantsOK
<1>1. CASE Held(r) /\ Swap(r) /\ \E outcome \in Outcomes : Answer(r, outcome)
  BY <1>1, SwapStep DEF PostgresRotate
<1>2. CASE /\ \E outcome \in Outcomes \ {"ok"} : Answer(r, outcome)
           /\ stored' \subseteq stored
           /\ spent' = spent \cup (stored \ stored')
  <2> PICK outcome \in Outcomes \ {"ok"} : Answer(r, outcome)
    BY <1>2
  <2>0. UNCHANGED <<now, byID, byEmail, owner, iat, family, delivered>>
    BY DEF PostgresRotate, userVars, jwtVars
  <2>1. TypeOK'
    <3>1. req' \in [Requests -> Request]
      BY AnswerTyped DEF IInv, TypeOK
    <3> QED BY <1>2, <2>0, <3>1, SMT DEF IInv, TypeOK
  <2>2. Others(r) /\ req'[r].cand = req[r].cand
    BY SMT DEF IInv, TypeOK, Request, Others, Answer
  <2>3. RequestOK(r)'
    BY <2>0, SMT DEF IInv, TypeOK, Request, RequestOK, Answer
  <2>4. PendingOK(r)' /\ req'[r].res # "ok"
    BY SMT DEF IInv, TypeOK, Request, PendingOK, Answer
  <2> QED BY <1>2, <2>0, <2>1, <2>2, <2>3, <2>4, QuietStep DEF jwtVars
<1>3. "ok" \in Outcomes /\ "error" \in Outcomes /\ "invalid" \in Outcomes
  BY DEF Outcomes
<1> QED BY <1>1, <1>2, <1>3 DEF PostgresRotate, Matches, Held, tokenVars
-----------------------------------------------------------------------------
(* What happens around the handlers                                        *)

LEMMA RedisExpireStep ==
  ASSUME IInv, NEW t \in Tokens, RedisExpire(t)
  PROVE  IInv'
<1> USE ConstantsOK DEF RedisExpire
<1>1. TypeOK'
  BY SMT DEF IInv, TypeOK, userVars, jwtVars
<1>2. /\ CandidatesKept
      /\ UNCHANGED <<req, delivered, owner, iat, family>>
      /\ stored' \subseteq stored
      /\ spent' = spent \cup (stored \ stored')
      /\ Entered' = Entered
  BY SMT DEF IInv, TypeOK, CandidatesKept, jwtVars, Entered
<1>3. \A r \in Requests : RequestOK(r)'
  BY <1>2, SMT DEF IInv, RequestOK
<1>4. \A r \in Requests : PendingOK(r)'
  BY <1>2, SMT DEF IInv, PendingOK
<1>5. SuccessIsStored'
  BY <1>2, SMT DEF IInv, SuccessIsStored, Entered
<1> QED BY <1>1, <1>2, <1>3, <1>4, <1>5, TokensLeave DEF jwtVars

LEMMA RespondStep ==
  ASSUME IInv, NEW r \in Requests, Respond(r)
  PROVE  IInv'
<1> USE ConstantsOK DEF Respond
<1>1. req' \in [Requests -> Request]
  BY SMT DEF IInv, TypeOK, Request, Calls, Ops, Outcomes, Idle
<1>2. /\ Others(r)
      /\ req'[r].cand = NoToken
      /\ UNCHANGED <<now, byID, byEmail, stored, spent, owner, iat, family>>
  BY SMT DEF IInv, TypeOK, Request, Idle, Others, userVars, tokenVars, jwtVars
<1>3. delivered \subseteq delivered' /\ delivered' \subseteq Entered
  BY SMT DEF IInv, SuccessIsStored, Entered
<1>4. TypeOK'
  BY <1>1, <1>2, <1>3, SMT DEF IInv, TypeOK, Entered
<1>5. RequestOK(r)' /\ PendingOK(r)' /\ req'[r].res = "none"
  BY SMT DEF IInv, TypeOK, RequestOK, PendingOK, Idle
<1>6. /\ CandidatesKept
      /\ \A x \in Requests : RequestOK(x)'
      /\ \A x \in Requests : PendingOK(x)'
      /\ SuccessIsStored'
  BY <1>2, <1>3, <1>4, <1>5, OneRequestMoves DEF Entered, jwtVars
<1> QED BY <1>2, <1>4, <1>6, TokensLeave DEF jwtVars

LEMMA CrashStep ==
  ASSUME IInv, NEW D \in SUBSET Requests, Crash(D)
  PROVE  IInv'
<1> USE ConstantsOK DEF Crash
<1>1. /\ stored' \subseteq stored
      /\ spent' = spent \cup (stored \ stored')
      /\ Entered' = Entered
      /\ UNCHANGED <<now, delivered, owner, iat, family>>
      /\ req' = [r \in Requests |-> IF r \in D THEN Idle ELSE req[r]]
  BY SMT DEF IInv, tokenVars, jwtVars, Entered
<1>2. TypeOK'
  <2>1. Idle \in Request
    BY SMT DEF Idle, Request, Calls, Ops, Outcomes
  <2>2. req' \in [Requests -> Request]
    BY <1>1, <2>1, SMT DEF IInv, TypeOK
  <2>3. byID' \in [Users -> Emails \cup {NoEmail}] /\ byEmail' \in [Emails -> Users \cup {NoUser}]
    BY SMT DEF IInv, TypeOK, userVars
  <2> QED BY <1>1, <2>2, <2>3, SMT DEF IInv, TypeOK
<1>3. \A r \in Requests : req'[r] = req[r] \/ req'[r] = Idle
  BY <1>1, SMT
<1>4. CandidatesKept
  BY <1>3, SMT DEF CandidatesKept, Idle
<1>5. \A r \in Requests : RequestOK(r)'
  BY <1>1, <1>3, SMT DEF IInv, RequestOK, Idle
<1>6. \A r \in Requests : PendingOK(r)'
  BY <1>1, <1>3, SMT DEF IInv, PendingOK, Idle
<1>7. SuccessIsStored'
  BY <1>1, <1>3, SMT DEF IInv, SuccessIsStored, Idle, Entered
<1> QED BY <1>1, <1>2, <1>4, <1>5, <1>6, <1>7, TokensLeave DEF jwtVars

LEMMA TickStep ==
  ASSUME IInv, Tick
  PROVE  IInv'
<1>1. TypeOK'
  BY ConstantsOK, SMT DEF Tick, IInv, TypeOK, userVars, tokenVars, jwtVars
<1> QED BY <1>1, SMT DEF Tick, IInv, RequestOK, PendingOK, CandidatesDiffer, UnsignedUnused,
           FamiliesEntered, SuccessIsStored, OneLiveTokenPerSession, Entered,
           userVars, tokenVars, jwtVars

LEMMA StutterStep ==
  ASSUME IInv, UNCHANGED vars
  PROVE  IInv'
BY SMT DEF vars, IInv, TypeOK, RequestOK, PendingOK, CandidatesDiffer, UnsignedUnused,
           FamiliesEntered, SuccessIsStored, OneLiveTokenPerSession, Entered,
           userVars, tokenVars, jwtVars

-----------------------------------------------------------------------------
LEMMA InitIInv == Init => IInv
<1> SUFFICES ASSUME Init PROVE IInv
  OBVIOUS
<1> USE ConstantsOK DEF Init
<1>1. TypeOK
  BY SMT DEF TypeOK, Request, Idle, Calls, Ops, Outcomes
<1>2. \A r \in Requests : RequestOK(r) /\ PendingOK(r)
  BY SMT DEF RequestOK, PendingOK, Idle
<1>3. CandidatesDiffer /\ UnsignedUnused /\ FamiliesEntered
  BY SMT DEF CandidatesDiffer, UnsignedUnused, FamiliesEntered, Entered, Idle
<1>4. SuccessIsStored /\ OneLiveTokenPerSession /\ stored \cap spent = {}
  BY SMT DEF SuccessIsStored, OneLiveTokenPerSession, Idle
<1> QED BY <1>1, <1>2, <1>3, <1>4 DEF IInv

LEMMA NextIInv == IInv /\ [Next]_vars => IInv'
<1> SUFFICES ASSUME IInv, [Next]_vars PROVE IInv'
  OBVIOUS
<1>1. CASE \E r \in Requests : Arrive(r)
  BY <1>1, RegisterStep, LoginStep, RefreshStep, MeStep DEF Arrive
<1>2. CASE \E r \in Requests : Handle(r)
  <2> PICK r \in Requests : Handle(r)
    BY <1>2
  <2>1. CASE GenerateTokenPair(r) \/ FindByEmail(r) \/ FindByID(r) \/ FindProfile(r)
    BY <2>1, GenerateTokenPairStep, FindByEmailStep, FindByIDStep, FindProfileStep
  <2>2. CASE MemoryCreate(r) \/ MemoryDelete(r) \/ PostgresCreateUserWithRefreshToken(r)
    BY <2>2, MemoryCreateStep, MemoryDeleteStep, PostgresCreateUserWithRefreshTokenStep
  <2>3. CASE MemorySave(r) \/ RedisSave(r) \/ PostgresSave(r)
    BY <2>3, MemorySaveStep, RedisSaveStep, PostgresSaveStep
  <2>4. CASE MemoryRotate(r) \/ RedisRotate(r) \/ PostgresRotate(r)
    BY <2>4, MemoryRotateStep, RedisRotateStep, PostgresRotateStep
  <2>5. CASE Respond(r)
    BY <2>5, RespondStep
  <2> QED BY <2>1, <2>2, <2>3, <2>4, <2>5 DEF Handle
<1>3. CASE \E r \in Requests : Cancel(r)
  BY <1>3, CancelStep
<1>4. CASE \E t \in Tokens : RedisExpire(t)
  BY <1>4, RedisExpireStep
<1>5. CASE \E D \in SUBSET Requests : Crash(D)
  BY <1>5, CrashStep
<1>6. CASE Tick
  BY <1>6, TickStep
<1>7. CASE UNCHANGED vars
  BY <1>7, StutterStep
<1> QED BY <1>1, <1>2, <1>3, <1>4, <1>5, <1>6, <1>7 DEF Next

(***************************************************************************)
(* IInv is an invariant of the identity service, for every wiring.         *)
(***************************************************************************)
THEOREM Inductive == Spec => []IInv
<1>1. Init => IInv BY InitIInv
<1>2. IInv /\ [Next]_vars => IInv' BY NextIInv
<1> QED BY <1>1, <1>2, PTL DEF Spec

(***************************************************************************)
(* Every variable has its type.                                            *)
(***************************************************************************)
THEOREM TypeCorrect == Spec => []TypeOK
<1>1. IInv => TypeOK BY DEF IInv
<1> QED BY <1>1, Inductive, PTL

(***************************************************************************)
(* However many requests present one refresh token, whatever store they    *)
(* go to and whichever answers are lost, a session never has two tokens    *)
(* that can continue it.                                                   *)
(***************************************************************************)
THEOREM SingleWinner == Spec => []OneLiveTokenPerSession
<1>1. IInv => OneLiveTokenPerSession BY DEF IInv
<1> QED BY <1>1, Inductive, PTL

(***************************************************************************)
(* A success carries a pair the store has accepted, and a client holds no  *)
(* refresh token that was not.                                             *)
(***************************************************************************)
THEOREM SuccessStored == Spec => []SuccessIsStored
<1>1. IInv => SuccessIsStored BY DEF IInv
<1> QED BY <1>1, Inductive, PTL

-----------------------------------------------------------------------------
(* The identity service implements Sessions, and exchanges no expired      *)
(* token: both follow from the four things a step can do to the            *)
(* refresh-token store.                                                    *)

StoreUntouched ==
  /\ UNCHANGED <<stored, spent>>
  /\ \A t \in stored : family'[t] = family[t]

PairEntered(r) ==
  /\ req[r].pc \in {"unit", "save"}
  /\ stored' = stored \cup {req[r].cand}
  /\ UNCHANGED <<spent, family>>

PairExchanged(r) ==
  /\ req[r].pc = "rotate"
  /\ Held(r)
  /\ Swap(r)
  /\ Wiring = "memory" => Unexpired(r)
  /\ UNCHANGED family

TokensLost ==
  /\ stored' \subseteq stored
  /\ spent' = spent \cup (stored \ stored')
  /\ UNCHANGED family

LEMMA ArrivalLeavesStore ==
  ASSUME NEW r \in Requests, Arrive(r)
  PROVE  StoreUntouched
<1>1. CASE \E e \in Emails : Register(r, e) \/ Login(r, e)
  BY <1>1 DEF Register, Login, StoreUntouched, tokenVars, jwtVars
<1>2. CASE \E t \in delivered : Refresh(r, t) \/ Me(r, t)
  BY <1>2 DEF Refresh, Me, WithToken, StoreUntouched, tokenVars, jwtVars
<1> QED BY <1>1, <1>2 DEF Arrive

\* Generating a pair touches no session that has a token in the store.
LEMMA IssueLeavesStore ==
  ASSUME IInv, NEW r \in Requests, GenerateTokenPair(r)
  PROVE  StoreUntouched
<1>1. \A t \in stored : owner[t] # NoUser
  BY SMT DEF IInv, TypeOK, UnsignedUnused, Entered
<1> QED BY <1>1, SMT DEF GenerateTokenPair, StoreUntouched, FreshToken, IInv, TypeOK,
        tokenVars, jwtVars

LEMMA SaveEntersPair ==
  ASSUME IInv, NEW r \in Requests, MemorySave(r) \/ RedisSave(r) \/ PostgresSave(r)
                                   \/ PostgresCreateUserWithRefreshToken(r)
  PROVE  StoreUntouched \/ PairEntered(r)
BY SMT DEF MemorySave, RedisSave, PostgresSave, PostgresCreateUserWithRefreshToken,
           StoreUntouched, PairEntered, jwtVars

LEMMA RotateExchangesPair ==
  ASSUME IInv, NEW r \in Requests, MemoryRotate(r) \/ RedisRotate(r) \/ PostgresRotate(r)
  PROVE  StoreUntouched \/ PairExchanged(r) \/ TokensLost
<1>1. CASE MemoryRotate(r)
  BY <1>1, SMT DEF MemoryRotate, Held, StoreUntouched, PairExchanged, TokensLost, tokenVars, jwtVars
<1>2. CASE RedisRotate(r)
  BY <1>2, SMT DEF RedisRotate, StoreUntouched, PairExchanged, tokenVars, jwtVars
<1>3. CASE PostgresRotate(r)
  BY <1>3, ConstantsOK, SMT DEF PostgresRotate, Matches, StoreUntouched, PairExchanged, tokenVars, jwtVars
<1> QED BY <1>1, <1>2, <1>3

\* Every step enters one pair, exchanges one, only takes tokens out of the
\* store, or leaves the store alone.
LEMMA StoreSteps ==
  ASSUME IInv, [Next]_vars
  PROVE  \/ StoreUntouched
         \/ \E r \in Requests : PairEntered(r) \/ PairExchanged(r)
         \/ TokensLost
<1>1. CASE \E r \in Requests : Arrive(r)
  BY <1>1, ArrivalLeavesStore
<1>2. CASE \E r \in Requests : Handle(r)
  <2> PICK r \in Requests : Handle(r)
    BY <1>2
  <2>1. CASE GenerateTokenPair(r)
    BY <2>1, IssueLeavesStore
  <2>2. CASE MemorySave(r) \/ RedisSave(r) \/ PostgresSave(r)
             \/ PostgresCreateUserWithRefreshToken(r)
    BY <2>2, SaveEntersPair
  <2>3. CASE MemoryRotate(r) \/ RedisRotate(r) \/ PostgresRotate(r)
    BY <2>3, RotateExchangesPair
  <2>4. CASE FindByEmail(r) \/ FindByID(r) \/ FindProfile(r)
             \/ MemoryCreate(r) \/ MemoryDelete(r) \/ Respond(r)
    BY <2>4, SMT DEF FindByEmail, FindByID, FindProfile, MemoryCreate, MemoryDelete,
       Respond, StoreUntouched, tokenVars, jwtVars
  <2> QED BY <2>1, <2>2, <2>3, <2>4 DEF Handle
<1>3. CASE \E r \in Requests : Cancel(r)
  BY <1>3, SMT DEF Cancel, StoreUntouched, tokenVars, jwtVars
<1>4. CASE \E t \in Tokens : RedisExpire(t)
  BY <1>4, SMT DEF RedisExpire, TokensLost, jwtVars
<1>5. CASE \E D \in SUBSET Requests : Crash(D)
  BY <1>5, SMT DEF Crash, TokensLost, StoreUntouched, tokenVars, jwtVars
<1>6. CASE Tick \/ UNCHANGED vars
  BY <1>6, SMT DEF Tick, vars, StoreUntouched, tokenVars, jwtVars
<1> QED BY <1>1, <1>2, <1>3, <1>4, <1>5, <1>6 DEF Next

-----------------------------------------------------------------------------
(* The refinement.                                                         *)

live == {<<family[t], t>> : t \in stored}

LEMMA EnteringOpens ==
  ASSUME IInv, NEW r \in Requests, PairEntered(r)
  PROVE  \E t \in Tokens : S!Open(t)
<1> DEFINE c == req[r].cand
<1>1. c \in Tokens /\ c \notin Entered /\ family[c] = c
  BY SMT DEF IInv, PendingOK, PairEntered
<1>2. live' = live \cup {<<c, c>>}
  BY <1>1, SMT DEF live, PairEntered
<1>3. c \notin S!LiveTokens \cup spent
  BY <1>1, SMT DEF S!LiveTokens, Entered
<1>4. UNCHANGED spent
  BY DEF PairEntered
<1> HIDE DEF c
<1> QED BY <1>1, <1>2, <1>3, <1>4 DEF S!Open, S!Unused, live

LEMMA ExchangingExchanges ==
  ASSUME IInv, NEW r \in Requests, PairExchanged(r)
  PROVE  \E p \in live, n \in Tokens : S!Exchange(p, n)
<1> DEFINE c == req[r].cand
           o == req[r].presented
           p == <<family[o], o>>
<1>1. /\ c \in Tokens /\ c \notin Entered
      /\ family[c] = family[o] /\ o \in stored
  BY SMT DEF IInv, PendingOK, PairExchanged, Held
<1>2. p \in live
  BY <1>1 DEF live
<1>3. live' = (live \ {p}) \cup {<<p[1], c>>}
  BY <1>1, SMT DEF live, PairExchanged, Swap
<1>4. spent' = spent \cup {p[2]}
  BY SMT DEF PairExchanged, Swap
<1>5. c \notin S!LiveTokens \cup spent
  BY <1>1, SMT DEF S!LiveTokens, Entered
<1> HIDE DEF p, c
<1> QED BY <1>1, <1>2, <1>3, <1>4, <1>5 DEF S!Exchange, S!Unused, live

LEMMA LosingEnds ==
  ASSUME IInv, TokensLost
  PROVE  \E D \in SUBSET live : S!End(D)
<1> DEFINE D == {<<family[t], t>> : t \in stored \ stored'}
<1>1. D \in SUBSET live
  BY DEF live
<1>2. live' = live \ D
  BY SMT DEF live, TokensLost
<1>3. {p[2] : p \in D} = stored \ stored'
  <2>1. \A p \in D : p[2] \in stored \ stored'
    OBVIOUS
  <2>2. \A t \in stored \ stored' : <<family[t], t>> \in D /\ <<family[t], t>>[2] = t
    OBVIOUS
  <2> HIDE DEF D
  <2> QED BY <2>1, <2>2
<1>4. spent' = spent \cup {p[2] : p \in D}
  BY <1>3 DEF TokensLost
<1> HIDE DEF D
<1> QED BY <1>1, <1>2, <1>4 DEF S!End, live

(***************************************************************************)
(* The service, over any of its stores, with any number of requests at any *)
(* point of their handlers, is an implementation of Sessions.              *)
(***************************************************************************)
THEOREM Refinement == Spec => ImplementsSessions
<1>1. Init => S!SessInit
  BY SMT DEF Init, S!SessInit
<1>2. IInv /\ [Next]_vars => [S!SessNext]_(S!sessVars)
  <2> SUFFICES ASSUME IInv, [Next]_vars
               PROVE  S!SessNext \/ UNCHANGED S!sessVars
    OBVIOUS
  <2>1. CASE StoreUntouched
    <3>1. live' = live
      BY <2>1, SMT DEF live, StoreUntouched
    <3> QED BY <2>1, <3>1 DEF S!sessVars, live, StoreUntouched
  <2>2. CASE \E r \in Requests : PairEntered(r)
    <3>1. \E t \in Tokens : S!Open(t)
      BY <2>2, EnteringOpens
    <3> QED BY <3>1 DEF S!SessNext
  <2>3. CASE \E r \in Requests : PairExchanged(r)
    BY <2>3, ExchangingExchanges DEF S!SessNext, live
  <2>4. CASE TokensLost
    BY <2>4, LosingEnds DEF S!SessNext, live
  <2> QED BY <2>1, <2>2, <2>3, <2>4, StoreSteps
<1> QED BY <1>1, <1>2, Inductive, PTL DEF Spec, ImplementsSessions, S!SessSpec

-----------------------------------------------------------------------------
(* What Sessions promises: first of the abstract service itself, over a    *)
(* set of sessions that nothing else is known of, then of Identity.        *)

VARIABLE sessions      \* the live sessions of an abstract service
A == INSTANCE Sessions WITH live <- sessions

LEMMA OpenKeeps ==
  ASSUME A!SessTypeOK, A!SessInv, NEW t \in Tokens, A!Open(t)
  PROVE  A!SessInv'
<1> USE DEF A!SessTypeOK, A!SessInv, A!Open, A!Unused, A!LiveTokens
<1>1. A!OneTokenPerSession'
  BY SMT DEF A!OneTokenPerSession, A!SessionsAreNamedByIssuedTokens
<1>2. A!OneSessionPerToken'
  BY SMT DEF A!OneSessionPerToken
<1>3. A!NothingLiveIsSpent'
  BY SMT DEF A!NothingLiveIsSpent
<1>4. A!SessionsAreNamedByIssuedTokens'
  BY SMT DEF A!SessionsAreNamedByIssuedTokens
<1> QED BY <1>1, <1>2, <1>3, <1>4

LEMMA ExchangeKeeps ==
  ASSUME A!SessTypeOK, A!SessInv, NEW p \in sessions, NEW n \in Tokens, A!Exchange(p, n)
  PROVE  A!SessInv'
<1> USE DEF A!SessTypeOK, A!SessInv, A!Exchange, A!Unused, A!LiveTokens
<1>1. A!OneTokenPerSession'
  BY SMT DEF A!OneTokenPerSession
<1>2. A!OneSessionPerToken'
  BY SMT DEF A!OneSessionPerToken
<1>3. A!NothingLiveIsSpent'
  BY SMT DEF A!NothingLiveIsSpent, A!OneSessionPerToken
<1>4. A!SessionsAreNamedByIssuedTokens'
  BY SMT DEF A!SessionsAreNamedByIssuedTokens
<1> QED BY <1>1, <1>2, <1>3, <1>4

LEMMA EndKeeps ==
  ASSUME A!SessTypeOK, A!SessInv, NEW D \in SUBSET sessions, A!End(D)
  PROVE  A!SessInv'
<1> USE DEF A!SessTypeOK, A!SessInv, A!End, A!LiveTokens
<1>1. A!OneTokenPerSession'
  BY SMT DEF A!OneTokenPerSession
<1>2. A!OneSessionPerToken'
  BY SMT DEF A!OneSessionPerToken
<1>3. A!NothingLiveIsSpent'
  BY SMT DEF A!NothingLiveIsSpent, A!OneSessionPerToken
<1>4. A!SessionsAreNamedByIssuedTokens'
  BY SMT DEF A!SessionsAreNamedByIssuedTokens
<1> QED BY <1>1, <1>2, <1>3, <1>4

(***************************************************************************)
(* One live token per session, one session per token, no exchanged token   *)
(* live again: for every behaviour of the abstract service.                *)
(***************************************************************************)
THEOREM SessionsSafe == A!SessSpec => [](A!SessTypeOK /\ A!SessInv)
<1> DEFINE Safe == A!SessTypeOK /\ A!SessInv
<1>1. A!SessInit => Safe
  BY SMT DEF A!SessInit, A!SessTypeOK, A!SessInv, A!OneTokenPerSession, A!OneSessionPerToken,
     A!NothingLiveIsSpent, A!SessionsAreNamedByIssuedTokens, A!LiveTokens
<1>2. Safe /\ [A!SessNext]_(A!sessVars) => Safe'
  <2> SUFFICES ASSUME Safe, [A!SessNext]_(A!sessVars) PROVE Safe'
    OBVIOUS
  <2>1. A!SessTypeOK'
    BY SMT DEF A!SessTypeOK, A!SessNext, A!sessVars, A!Open, A!Exchange, A!End
  <2>2. CASE A!SessNext
    BY <2>1, <2>2, OpenKeeps, ExchangeKeeps, EndKeeps DEF A!SessNext
  <2>3. CASE UNCHANGED A!sessVars
    BY <2>3, SMT DEF A!sessVars, A!SessTypeOK, A!SessInv, A!OneTokenPerSession, A!OneSessionPerToken,
       A!NothingLiveIsSpent, A!SessionsAreNamedByIssuedTokens, A!LiveTokens
  <2> QED BY <2>2, <2>3
<1> QED BY <1>1, <1>2, PTL DEF A!SessSpec

(***************************************************************************)
(* The service keeps the promise: a token that is live continues one       *)
(* session, a session has one live token, no token that left the store is  *)
(* live, and a session goes by a token that was issued.                    *)
(***************************************************************************)
THEOREM PromiseKept == Spec => [](S!SessTypeOK /\ S!SessInv)
<1>1. IInv => S!SessTypeOK /\ S!SessInv
  <2> SUFFICES ASSUME IInv PROVE S!SessTypeOK /\ S!SessInv
    OBVIOUS
  <2>1. /\ stored \subseteq Tokens /\ spent \subseteq Tokens /\ family \in [Tokens -> Tokens]
        /\ stored \cap spent = {}
    BY DEF IInv, TypeOK
  <2>2. S!LiveTokens = stored
    <3> DEFINE L == {<<family[t], t>> : t \in stored}
    <3>1. \A p \in L : p[2] \in stored
      OBVIOUS
    <3>2. \A t \in stored : <<family[t], t>> \in L /\ <<family[t], t>>[2] = t
      OBVIOUS
    <3>3. S!LiveTokens = {p[2] : p \in L}
      BY DEF S!LiveTokens
    <3> HIDE DEF L
    <3> QED BY <3>1, <3>2, <3>3
  <2>3. S!SessTypeOK
    BY <2>1, SMT DEF S!SessTypeOK
  <2>4. S!OneTokenPerSession
    BY SMT DEF S!OneTokenPerSession, IInv, OneLiveTokenPerSession
  <2>5. S!OneSessionPerToken
    BY SMT DEF S!OneSessionPerToken
  <2>6. S!NothingLiveIsSpent
    BY <2>1, <2>2 DEF S!NothingLiveIsSpent
  <2>7. S!SessionsAreNamedByIssuedTokens
    BY <2>1, <2>2, SMT DEF S!SessionsAreNamedByIssuedTokens, IInv, FamiliesEntered, Entered
  <2> QED BY <2>3, <2>4, <2>5, <2>6, <2>7 DEF S!SessInv
<1> QED BY <1>1, Inductive, PTL

(***************************************************************************)
(* A refresh token that was exchanged, has expired or was lost with its    *)
(* store is never accepted again: what has left the store stays out, and   *)
(* no store ever takes it back.                                            *)
(***************************************************************************)
THEOREM NeverAcceptedAgain ==
  Spec => [][spent \subseteq spent' /\ stored \subseteq Entered' /\ stored' \cap spent = {}]_vars
<1>1. IInv /\ IInv' /\ [Next]_vars =>
        [spent \subseteq spent' /\ stored \subseteq Entered' /\ stored' \cap spent = {}]_vars
  <2> SUFFICES ASSUME IInv, IInv', [Next]_vars
               PROVE  spent \subseteq spent' /\ stored \subseteq Entered' /\ stored' \cap spent = {}
    OBVIOUS
  <2>1. (stored \cap spent = {})'
    BY DEF IInv
  <2>2. spent \subseteq spent' /\ stored \subseteq Entered'
    BY StoreSteps, SMT DEF StoreUntouched, PairEntered, PairExchanged, TokensLost, Swap, Entered
  <2> QED BY <2>1, <2>2
<1> QED BY <1>1, Inductive, PTL DEF Spec

-----------------------------------------------------------------------------
(***************************************************************************)
(* With the memory store no request exchanges an expired token, however    *)
(* long ago its JWT was verified.                                          *)
(***************************************************************************)
THEOREM NoStaleExchangeHolds == Wiring = "memory" => (Spec => NoStaleExchange)
<1> SUFFICES ASSUME Wiring = "memory" PROVE Spec => NoStaleExchange
  OBVIOUS
<1>1. IInv /\ [Next]_vars =>
        \A r \in Requests : Exchanged(r) => now < RefreshExp(req[r].presented)
  <2> SUFFICES ASSUME IInv, [Next]_vars, NEW r \in Requests, Exchanged(r)
               PROVE  now < RefreshExp(req[r].presented)
    OBVIOUS
  <2>1. PICK x \in Requests : PairEntered(x) \/ PairExchanged(x)
    BY StoreSteps, SMT DEF Exchanged, StoreUntouched, TokensLost
  <2>2. PairExchanged(x) /\ req[r].cand = req[x].cand
    BY <2>1, SMT DEF Exchanged, PairEntered, PairExchanged, Swap
  <2>3. r = x
    BY <2>2, ConstantsOK, SMT DEF IInv, CandidatesDiffer, PendingOK, PairExchanged
  <2> QED BY <2>2, <2>3 DEF PairExchanged, Unexpired
<1> QED BY <1>1, Inductive, PTL DEF Spec, NoStaleExchange

-----------------------------------------------------------------------------
(* The users.  What IInv says of the refresh tokens carries over to the    *)
(* users: a registration in progress owns its user and its pair alone.     *)

\* What a request says of its user and of its pair, over the stores at hand.
UserOK(r) ==
  LET q == req[r] IN
  /\ q.op = "register" /\ q.pc \in {"issue", "create", "unit"} => byID[q.uid] = NoEmail
  /\ Wiring = "postgres" => q.pc \notin {"create", "rollback"}
                            /\ (q.pc = "save" => q.op = "login")
  /\ q.pc = "unit" => Wiring = "postgres"
  /\ q.pc \in {"issue", "find", "lookup", "profile"} => q.cand = NoToken
  /\ Wiring = "memory" /\ (q.pc = "rollback" \/ (q.pc = "respond" /\ q.res # "ok"))
       => q.cand \notin Entered
  /\ Wiring # "postgres" /\ q.op = "register" /\ q.res \in {"error", "taken"} /\ q.uid \in Users
       => byID[q.uid] = NoEmail

RegistrarsDiffer ==
  \A r, q \in Requests :
    req[r].op = "register" /\ req[q].op = "register"
      /\ req[r].uid = req[q].uid /\ req[r].uid # NoUser => r = q

\* A user that exists had a pair signed for him.
UsersSigned == \A u \in Users : byID[u] # NoEmail => \E t \in Tokens : owner[t] = u

UInv ==
  /\ IndexesAgree
  /\ \A r \in Requests : UserOK(r)
  /\ RegistrarsDiffer
  /\ UsersSigned
  /\ NoUnattendedUser
  /\ Wiring = "postgres" => RegistrationIsAtomic

\* A registrar works for the user it has drawn, which nobody else knows.
KeepsItsUser(r) ==
  req'[r].op = "register" =>
    \/ req[r].op = "register" /\ req'[r].uid = req[r].uid
    \/ req'[r].uid = NoUser
    \/ req'[r].uid \in Users /\ \A q \in Requests : req[q].uid # req'[r].uid

LEMMA RegistrarsStayDifferent ==
  ASSUME UInv, NEW r \in Requests, Others(r), KeepsItsUser(r)
  PROVE  RegistrarsDiffer'
BY ConstantsOK, SMT DEF UInv, RegistrarsDiffer, Others, KeepsItsUser

\* A step of one request that touches no user and enters at most its own pair.
LEMMA UsersKept ==
  ASSUME IInv, IInv', UInv, NEW r \in Requests, Others(r), KeepsItsUser(r),
         UNCHANGED <<byID, byEmail>>,
         Entered \subseteq Entered', Entered' \subseteq Entered \cup {req[r].cand},
         \A t \in Tokens : owner'[t] = owner[t] \/ (owner[t] = NoUser /\ t \notin Entered'),
         UserOK(r)',
         \A u \in Users : Attends(r, u) => Attends(r, u)' \/ \E t \in Entered' : owner'[t] = u,
         Wiring = "postgres" => \A t \in Entered' : owner'[t] \in Users /\ byID[owner'[t]] # NoEmail
  PROVE  UInv'
<1>1. IndexesAgree'
  BY DEF UInv, IndexesAgree
<1>2. \A x \in Requests : UserOK(x)'
  <2> SUFFICES ASSUME NEW x \in Requests, x # r PROVE UserOK(x)'
    OBVIOUS
  <2>1. req'[x] = req[x]
    BY DEF Others
  <2>2. req[x].cand = req[r].cand /\ req[x].cand # NoToken => x = r
    BY DEF IInv, CandidatesDiffer
  <2>3. NoToken \notin Entered'
    BY ConstantsOK DEF IInv, TypeOK, Entered
  <2>4. req[x].cand \notin Entered => req[x].cand \notin Entered'
    BY <2>2, <2>3
  <2> QED BY <2>1, <2>4, SMT DEF UInv, UserOK
<1>3. RegistrarsDiffer'
  BY RegistrarsStayDifferent
<1>4. UsersSigned'
  BY ConstantsOK, SMT DEF UInv, UsersSigned, IInv, TypeOK
<1>5. NoUnattendedUser'
  <2> SUFFICES ASSUME ~Stalls, NEW u \in Users, Unfinished(u)'
               PROVE  \E x \in Requests : Attends(x, u)'
    BY DEF NoUnattendedUser
  <2>1. \A t \in Entered : owner'[t] = owner[t]
    BY SMT DEF IInv, TypeOK, Entered
  <2>2. \A t \in Entered' : owner'[t] # u
    BY DEF Unfinished, Entered
  <2>3. Unfinished(u)
    BY <2>1, <2>2 DEF Unfinished, Entered
  <2>4. PICK x \in Requests : Attends(x, u)
    BY <2>3 DEF UInv, NoUnattendedUser
  <2>5. CASE x = r
    BY <2>2, <2>4, <2>5
  <2>6. CASE x # r
    BY <2>4, <2>6 DEF Attends, Others
  <2> QED BY <2>5, <2>6
<1>6. Wiring = "postgres" => RegistrationIsAtomic'
  <2> SUFFICES ASSUME Wiring = "postgres"
               PROVE  {u \in Users : byID[u] # NoEmail} = {owner'[t] : t \in Entered'}
    BY DEF RegistrationIsAtomic, Entered
  <2>1. {u \in Users : byID[u] # NoEmail} = {owner[t] : t \in Entered}
    BY DEF UInv, RegistrationIsAtomic, Entered
  <2>2. \A t \in Entered : owner'[t] = owner[t]
    BY SMT DEF IInv, TypeOK, Entered
  <2>3. \A u \in Users : byID[u] # NoEmail => \E t \in Entered' : owner'[t] = u
    BY <2>1, <2>2
  <2> QED BY <2>3
<1> QED BY <1>1, <1>2, <1>3, <1>4, <1>5, <1>6 DEF UInv

LEMMA UsersQuiet ==
  ASSUME IInv, IInv', UInv, NEW r \in Requests, Others(r), KeepsItsUser(r),
         UNCHANGED <<byID, byEmail, owner>>, Entered' = Entered,
         UserOK(r)', \A u \in Users : Attends(r, u) => Attends(r, u)'
  PROVE  UInv'
<1>1. Wiring = "postgres" => \A t \in Entered : owner[t] \in Users /\ byID[owner[t]] # NoEmail
  BY DEF UInv, RegistrationIsAtomic, Entered
<1> QED BY <1>1, UsersKept

\* An idle request is blank.
LEMMA Blank ==
  ASSUME IInv, NEW r \in Requests, req[r].pc = "idle"
  PROVE  req[r] = Idle /\ NoToken \notin Entered
BY ConstantsOK DEF IInv, RequestOK, TypeOK, Entered

LEMMA ArriveUsers ==
  ASSUME IInv, IInv', UInv, NEW r \in Requests, Arrive(r)
  PROVE  UInv'
<1> USE ConstantsOK
<1>1. /\ req[r].pc = "idle" /\ UNCHANGED <<byID, byEmail, owner>> /\ Entered' = Entered
  BY DEF Arrive, Register, Login, Refresh, Me, WithToken, userVars, tokenVars, jwtVars, Entered
<1>2. req[r] = Idle /\ NoToken \notin Entered /\ req \in [Requests -> Request]
  BY <1>1, Blank DEF IInv, TypeOK
<1>3. \A u \in Users : ~Attends(r, u)
  BY <1>2 DEF Attends, Idle
<1>4. ASSUME NEW e \in Emails, Register(r, e) PROVE UInv'
  <2>1. CASE \E u \in Users : FreshUser(u) /\ req' = [req EXCEPT ![r].pc = "issue",
                 ![r].op = "register", ![r].email = e, ![r].uid = u]
    <3> PICK u \in Users : FreshUser(u) /\ req' = [req EXCEPT ![r].pc = "issue",
                 ![r].op = "register", ![r].email = e, ![r].uid = u]
      BY <2>1
    <3>1. byID[u] = NoEmail
      BY DEF UInv, UsersSigned, FreshUser
    <3>2. Others(r) /\ KeepsItsUser(r)
      BY <1>2 DEF Others, KeepsItsUser, FreshUser
    <3>3. UserOK(r)'
      BY <1>1, <1>2, <3>1 DEF UserOK, Idle
    <3> QED BY <1>1, <1>3, <3>2, <3>3, UsersQuiet
  <2>2. CASE req' = [req EXCEPT ![r].pc = "respond", ![r].op = "register",
                                ![r].email = e, ![r].res = "error"]
    <3>1. Others(r) /\ KeepsItsUser(r)
      BY <1>2, <2>2 DEF Others, KeepsItsUser, Idle
    <3>2. UserOK(r)'
      BY <1>1, <1>2, <2>2 DEF UserOK, Idle
    <3> QED BY <1>1, <1>3, <3>1, <3>2, UsersQuiet
  <2> QED BY <1>4, <2>1, <2>2 DEF Register
<1>5. ASSUME NEW e \in Emails, Login(r, e) PROVE UInv'
  <2>1. Others(r) /\ KeepsItsUser(r)
    BY <1>2, <1>5 DEF Login, Others, KeepsItsUser
  <2>2. UserOK(r)'
    BY <1>1, <1>2, <1>5 DEF Login, UserOK, Idle
  <2> QED BY <1>1, <1>3, <2>1, <2>2, UsersQuiet
<1>6. ASSUME NEW t \in delivered, Refresh(r, t) \/ Me(r, t) PROVE UInv'
  <2>1. Others(r) /\ KeepsItsUser(r)
    BY <1>2, <1>6 DEF Refresh, Me, WithToken, Others, KeepsItsUser, Idle
  <2>2. UserOK(r)'
    BY <1>1, <1>2, <1>6 DEF Refresh, Me, WithToken, UserOK, Idle
  <2> QED BY <1>1, <1>3, <2>1, <2>2, UsersQuiet
<1> QED BY <1>4, <1>5, <1>6 DEF Arrive

LEMMA CancelUsers ==
  ASSUME IInv, IInv', UInv, NEW r \in Requests, Cancel(r)
  PROVE  UInv'
<1>1. /\ Others(r) /\ req \in [Requests -> Request]
      /\ UNCHANGED <<byID, byEmail, owner>> /\ Entered' = Entered
  BY DEF Cancel, Others, IInv, TypeOK, userVars, tokenVars, jwtVars, Entered
<1>2. /\ req'[r].pc = req[r].pc /\ req'[r].op = req[r].op /\ req'[r].uid = req[r].uid
      /\ req'[r].cand = req[r].cand /\ req'[r].res = req[r].res
  BY <1>1 DEF Cancel
<1>3. KeepsItsUser(r) /\ \A u \in Users : Attends(r, u) => Attends(r, u)'
  BY <1>2 DEF KeepsItsUser, Attends
<1>4. UserOK(r)
  BY DEF UInv
<1>5. UserOK(r)'
  BY <1>1, <1>2, <1>4 DEF UserOK
<1> QED BY <1>1, <1>3, <1>5, UsersQuiet

LEMMA RespondUsers ==
  ASSUME IInv, IInv', UInv, NEW r \in Requests, Respond(r)
  PROVE  UInv'
<1>1. /\ Others(r) /\ req'[r] = Idle
      /\ UNCHANGED <<byID, byEmail, owner>> /\ Entered' = Entered
  BY DEF Respond, Others, IInv, TypeOK, userVars, tokenVars, jwtVars, Entered
<1>2. KeepsItsUser(r) /\ \A u \in Users : ~Attends(r, u)
  BY <1>1 DEF Respond, KeepsItsUser, Attends, Idle
<1>3. UserOK(r)'
  BY <1>1 DEF UserOK, Idle
<1> QED BY <1>1, <1>2, <1>3, UsersQuiet

\* A request that has not generated its pair fails, or goes on to generate it.
LEMMA FindUsers ==
  ASSUME IInv, IInv', UInv, NEW r \in Requests,
         FindByEmail(r) \/ FindByID(r) \/ FindProfile(r)
  PROVE  UInv'
<1> USE ConstantsOK
<1>1. /\ Others(r) /\ req \in [Requests -> Request]
      /\ UNCHANGED <<byID, byEmail, owner>> /\ Entered' = Entered
      /\ req[r].pc \in {"find", "lookup", "profile"}
      /\ NoToken \notin Entered
  BY DEF FindByEmail, FindByID, FindProfile, Answer, Goto, Others, IInv, TypeOK,
         userVars, tokenVars, jwtVars, Entered
<1>2. req[r].op \in {"login", "refresh", "me"} /\ req[r].cand = NoToken
  BY <1>1 DEF IInv, RequestOK, UInv, UserOK
<1>3. req'[r].op = req[r].op /\ req'[r].cand = NoToken /\ req'[r].pc \in {"issue", "respond"}
  <2>1. req[r] \in Request
    BY <1>1
  <2> QED BY <1>1, <1>2, <2>1 DEF FindByEmail, FindByID, FindProfile, Answer, Goto, Request
<1>4. KeepsItsUser(r) /\ \A u \in Users : ~Attends(r, u)
  BY <1>2, <1>3 DEF KeepsItsUser, Attends
<1>5. UserOK(r)'
  BY <1>1, <1>2, <1>3 DEF UserOK
<1> QED BY <1>1, <1>4, <1>5, UsersQuiet

LEMMA GenerateUsers ==
  ASSUME IInv, IInv', UInv, NEW r \in Requests, GenerateTokenPair(r)
  PROVE  UInv'
<1> USE ConstantsOK
<1>1. /\ Others(r) /\ req \in [Requests -> Request] /\ req[r].pc = "issue"
      /\ UNCHANGED <<byID, byEmail>> /\ Entered' = Entered
      /\ NoToken \notin Entered
  BY DEF GenerateTokenPair, Answer, Others, IInv, TypeOK, userVars, tokenVars, Entered
<1>2. /\ req'[r].op = req[r].op /\ req'[r].uid = req[r].uid
      /\ \/ req'[r].pc = "respond" /\ req'[r].cand = req[r].cand /\ UNCHANGED owner
         \/ /\ req'[r].pc = AfterIssue(r) /\ req'[r].res = req[r].res
            /\ \E t \in Tokens : FreshToken(t) /\ owner' = [owner EXCEPT ![t] = req[r].uid]
  <2>1. req[r] \in Request
    BY <1>1
  <2>2. CASE Answer(r, "error") /\ UNCHANGED jwtVars
    BY <1>1, <2>1, <2>2 DEF Answer, jwtVars, Request
  <2>3. CASE \E t \in Tokens : /\ FreshToken(t) /\ owner' = [owner EXCEPT ![t] = req[r].uid]
                               /\ req' = [req EXCEPT ![r].pc = AfterIssue(r), ![r].cand = t]
    <3>1. PICK t \in Tokens : /\ FreshToken(t) /\ owner' = [owner EXCEPT ![t] = req[r].uid]
                              /\ req' = [req EXCEPT ![r].pc = AfterIssue(r), ![r].cand = t]
      BY <2>3
    <3>2. /\ req'[r].op = req[r].op /\ req'[r].uid = req[r].uid /\ req'[r].res = req[r].res
          /\ req'[r].pc = AfterIssue(r)
      BY <1>1, <2>1, <3>1, SMT DEF Request
    <3> QED BY <3>1, <3>2
  <2> QED BY <2>2, <2>3 DEF GenerateTokenPair
<1>3. /\ req[r].cand = NoToken /\ req[r].op \in {"register", "login", "refresh"}
      /\ req[r].res = "none"
      /\ req[r].op = "register" => byID[req[r].uid] = NoEmail
  BY <1>1 DEF UInv, UserOK, IInv, RequestOK
<1>4. KeepsItsUser(r) /\ \A u \in Users : ~Attends(r, u)
  BY <1>1, <1>2 DEF KeepsItsUser, Attends
<1>5. UserOK(r)'
  <2>1. CASE req'[r].pc = "respond" /\ req'[r].cand = req[r].cand
    BY <1>1, <1>2, <1>3, <2>1 DEF UserOK
  <2>2. CASE req'[r].pc = AfterIssue(r) /\ req'[r].res = req[r].res
    BY <1>1, <1>2, <1>3, <2>2 DEF UserOK, AfterIssue
  <2> QED BY <1>2, <2>1, <2>2
<1>6. \A t \in Tokens : owner'[t] = owner[t] \/ (owner[t] = NoUser /\ t \notin Entered')
  <2>1. CASE UNCHANGED owner
    BY <2>1
  <2>2. CASE \E t \in Tokens : FreshToken(t) /\ owner' = [owner EXCEPT ![t] = req[r].uid]
    BY <1>1, <2>2 DEF FreshToken, IInv, UnsignedUnused, TypeOK
  <2> QED BY <1>2, <2>1, <2>2
<1>7. Wiring = "postgres" =>
        \A t \in Entered' : owner'[t] \in Users /\ byID[owner'[t]] # NoEmail
  <2>1. \A t \in Entered : t \in Tokens /\ owner'[t] = owner[t]
    BY <1>1, <1>6 DEF IInv, TypeOK, Entered
  <2> QED BY <1>1, <2>1 DEF UInv, RegistrationIsAtomic, Entered
<1> QED BY <1>1, <1>4, <1>5, <1>6, <1>7, UsersKept

LEMMA SaveUsers ==
  ASSUME IInv, IInv', UInv, NEW r \in Requests,
         MemorySave(r) \/ RedisSave(r) \/ PostgresSave(r)
  PROVE  UInv'
<1> USE ConstantsOK
<1> DEFINE c == req[r].cand
<1>1. /\ Others(r) /\ req \in [Requests -> Request] /\ req[r] \in Request
      /\ req[r].pc = "save"
      /\ UNCHANGED <<byID, byEmail, owner>>
      /\ Entered' = Entered \/ Entered' = Entered \cup {c}
  BY DEF MemorySave, RedisSave, PostgresSave, SaveFailed, Answer, Goto, Others, IInv, TypeOK,
         userVars, jwtVars, Entered
<1>2. /\ c \in Tokens /\ c \notin Entered /\ owner[c] = req[r].uid /\ req[r].uid \in Users
      /\ req[r].op \in {"register", "login"} /\ req[r].res = "none"
      /\ Wiring = "postgres" => req[r].op = "login"
  BY <1>1 DEF UInv, UserOK, IInv, PendingOK, RequestOK
<1>3. /\ req'[r].op = req[r].op /\ req'[r].uid = req[r].uid /\ req'[r].cand = c
      /\ \/ req'[r].pc = "respond" /\ req'[r].res = "ok" /\ Entered' = Entered \cup {c}
         \/ /\ req[r].op = "register" /\ req'[r].pc = "rollback" /\ req'[r].res = "none"
            /\ Wiring = "memory" => Entered' = Entered
         \/ /\ req[r].op = "login" /\ req'[r].pc = "respond"
            /\ Wiring = "memory" => Entered' = Entered
      /\ Wiring = "postgres" /\ Entered' # Entered => byID[req[r].uid] # NoEmail
  <2>1. CASE MemorySave(r)
    BY <1>1, <1>2, <2>1 DEF MemorySave, SaveFailed, Answer, Goto, Request, Entered
  <2>2. CASE RedisSave(r)
    BY <1>1, <1>2, <2>2 DEF RedisSave, SaveFailed, Answer, Goto, Request, Entered
  <2>3. CASE PostgresSave(r)
    BY <1>1, <1>2, <2>3 DEF PostgresSave, SaveFailed, Answer, Goto, Request, Entered
  <2> QED BY <2>1, <2>2, <2>3
<1>4. KeepsItsUser(r)
  BY <1>3 DEF KeepsItsUser
<1>5. UserOK(r)'
  BY <1>1, <1>2, <1>3 DEF UserOK
<1>6. \A u \in Users : Attends(r, u) => Attends(r, u)' \/ \E t \in Entered' : owner'[t] = u
  BY <1>1, <1>2, <1>3 DEF Attends
<1>7. Wiring = "postgres" =>
        \A t \in Entered' : owner'[t] \in Users /\ byID[owner'[t]] # NoEmail
  BY <1>1, <1>2, <1>3 DEF UInv, RegistrationIsAtomic, Entered
<1>8. Entered \subseteq Entered' /\ Entered' \subseteq Entered \cup {req[r].cand}
  BY <1>1
<1> QED BY <1>1, <1>4, <1>5, <1>6, <1>7, <1>8, UsersKept

LEMMA RotateUsers ==
  ASSUME IInv, IInv', UInv, NEW r \in Requests,
         MemoryRotate(r) \/ RedisRotate(r) \/ PostgresRotate(r)
  PROVE  UInv'
<1> USE ConstantsOK
<1> DEFINE c == req[r].cand
<1>1. /\ req \in [Requests -> Request] /\ req[r] \in Request
      /\ req[r].pc = "rotate" /\ UNCHANGED <<byID, byEmail, owner>>
      /\ \E outcome \in Outcomes : Answer(r, outcome)
  BY DEF MemoryRotate, RedisRotate, PostgresRotate, Outcomes, IInv, TypeOK, userVars, jwtVars
<1>2. /\ c \in Tokens /\ c \notin Entered /\ owner[c] = req[r].uid
      /\ req[r].op = "refresh"
  BY <1>1 DEF IInv, PendingOK, RequestOK
<1>3. /\ Others(r) /\ req'[r].op = "refresh" /\ req'[r].cand = c /\ req'[r].pc = "respond"
  BY <1>1, <1>2 DEF Answer, Others, Request
<1>4. \/ Entered' = Entered
      \/ Entered' = Entered \cup {c} /\ Held(r)
  BY DEF MemoryRotate, RedisRotate, PostgresRotate, Matches, Held, Swap, Entered, tokenVars
<1>5. Wiring = "memory" => Entered' = Entered \/ req'[r].res = "ok"
  <2>1. Wiring = "memory" => MemoryRotate(r)
    BY DEF RedisRotate, PostgresRotate
  <2>2. MemoryRotate(r) => Entered' = Entered \/ Answer(r, "ok")
    BY DEF MemoryRotate, Held, Entered, tokenVars
  <2>3. Answer(r, "ok") => req'[r].res = "ok"
    BY <1>1 DEF Answer, Request
  <2> QED BY <2>1, <2>2, <2>3
<1>6. KeepsItsUser(r) /\ \A u \in Users : ~Attends(r, u)
  BY <1>1, <1>3 DEF KeepsItsUser, Attends
<1>7. UserOK(r)'
  BY <1>2, <1>3, <1>5 DEF UserOK
<1>8. Wiring = "postgres" =>
        \A t \in Entered' : owner'[t] \in Users /\ byID[owner'[t]] # NoEmail
  BY <1>1, <1>2, <1>4 DEF UInv, RegistrationIsAtomic, Entered, Held
<1>9. Entered \subseteq Entered' /\ Entered' \subseteq Entered \cup {req[r].cand}
  BY <1>4
<1> QED BY <1>1, <1>3, <1>6, <1>7, <1>8, <1>9, UsersKept

\* A registration enters its user under an address that is free.
LEMMA Inserting ==
  ASSUME IInv, UInv, NEW r \in Requests, req[r].pc \in {"create", "unit"}, ~Taken(r),
         InsertUser(r), Others(r), req'[r].op = req[r].op, req'[r].uid = req[r].uid,
         UNCHANGED owner
  PROVE  /\ req[r].op = "register" /\ req[r].uid \in Users /\ req[r].email \in Emails
         /\ \A u \in Users : byID'[u] = IF u = req[r].uid THEN req[r].email ELSE byID[u]
         /\ \A x \in Requests : req[x].op = "register" /\ req[x].uid = req[r].uid => x = r
         /\ IndexesAgree' /\ RegistrarsDiffer' /\ UsersSigned'
<1> USE ConstantsOK
<1>1. /\ req[r].op = "register" /\ req[r].uid \in Users /\ req[r].email \in Emails
      /\ req[r].cand \in Tokens /\ owner[req[r].cand] = req[r].uid
  BY DEF IInv, RequestOK, PendingOK
<1>2. byID[req[r].uid] = NoEmail /\ byEmail[req[r].email] = NoUser
  BY <1>1 DEF UInv, UserOK, Taken
<1>3. /\ \A u \in Users : byID'[u] = IF u = req[r].uid THEN req[r].email ELSE byID[u]
      /\ \A e \in Emails : byEmail'[e] = IF e = req[r].email THEN req[r].uid ELSE byEmail[e]
  BY <1>1 DEF InsertUser, IInv, TypeOK
<1>4. \A x \in Requests : req[x].op = "register" /\ req[x].uid = req[r].uid => x = r
  BY <1>1 DEF UInv, RegistrarsDiffer
<1>5. IndexesAgree'
  <2> SUFFICES ASSUME NEW u \in Users, NEW e \in Emails
               PROVE  byID'[u] = e <=> byEmail'[e] = u
    BY DEF IndexesAgree
  <2>1. byID[u] = e <=> byEmail[e] = u
    BY DEF UInv, IndexesAgree
  <2> QED BY <1>1, <1>2, <1>3, <2>1
<1>6. RegistrarsDiffer'
  <2>1. KeepsItsUser(r)
    BY DEF KeepsItsUser
  <2> QED BY <2>1, RegistrarsStayDifferent
<1>7. UsersSigned'
  BY <1>1, <1>3 DEF UInv, UsersSigned
<1> QED BY <1>1, <1>3, <1>4, <1>5, <1>6, <1>7

LEMMA CreateUsers ==
  ASSUME IInv, IInv', UInv, NEW r \in Requests, MemoryCreate(r)
  PROVE  UInv'
<1> USE ConstantsOK
<1>1. /\ req \in [Requests -> Request] /\ req[r] \in Request /\ req[r].pc = "create"
      /\ UNCHANGED owner /\ Entered' = Entered
  BY DEF MemoryCreate, IInv, TypeOK, tokenVars, jwtVars, Entered
<1>2. /\ req[r].cand \notin Entered /\ req[r].op = "register" /\ req[r].uid \in Users
      /\ byID[req[r].uid] = NoEmail /\ Wiring # "postgres" /\ req[r].res = "none"
  BY <1>1 DEF UInv, UserOK, IInv, PendingOK, RequestOK
<1>3. CASE UNCHANGED userVars /\ \E outcome \in {"error", "taken"} : Answer(r, outcome)
  <2>1. /\ Others(r) /\ req'[r].op = req[r].op /\ req'[r].uid = req[r].uid
        /\ req'[r].cand = req[r].cand /\ req'[r].pc = "respond"
    BY <1>1, <1>3 DEF Answer, Others, Request
  <2>2. KeepsItsUser(r) /\ \A u \in Users : ~Attends(r, u)
    BY <1>1, <2>1 DEF KeepsItsUser, Attends
  <2>3. UserOK(r)'
    BY <1>1, <1>2, <1>3, <2>1 DEF UserOK, userVars
  <2> QED BY <1>1, <1>3, <2>1, <2>2, <2>3, UsersQuiet DEF userVars
<1>4. CASE ~Taken(r) /\ InsertUser(r) /\ Goto(r, "save")
  <2>1. /\ Others(r) /\ req'[r].op = req[r].op /\ req'[r].uid = req[r].uid
        /\ req'[r].cand = req[r].cand /\ req'[r].pc = "save" /\ req'[r].res = "none"
    BY <1>1, <1>2, <1>4 DEF Goto, Others, Request
  <2>2. /\ \A u \in Users : byID'[u] = IF u = req[r].uid THEN req[r].email ELSE byID[u]
        /\ \A x \in Requests : req[x].op = "register" /\ req[x].uid = req[r].uid => x = r
        /\ IndexesAgree' /\ RegistrarsDiffer' /\ UsersSigned'
    BY <1>1, <1>4, <2>1, Inserting
  <2>3. ASSUME NEW x \in Requests PROVE UserOK(x)'
    <3>1. CASE x = r
      BY <1>2, <2>1, <3>1 DEF UserOK
    <3>2. CASE x # r
      <4>1. req'[x] = req[x] /\ UserOK(x)
        BY <2>1, <3>2 DEF Others, UInv
      <4>2. req[x].pc \in {"issue", "create", "unit"} => req[x].uid \in Users
        BY DEF IInv, RequestOK
      <4>3. req[x].op = "register" /\ req[x].uid \in Users => byID'[req[x].uid] = byID[req[x].uid]
        BY <2>2, <3>2
      <4> QED BY <1>1, <4>1, <4>2, <4>3 DEF UserOK
    <3> QED BY <3>1, <3>2
  <2>4. NoUnattendedUser'
    <3> SUFFICES ASSUME ~Stalls, NEW u \in Users, Unfinished(u)'
                 PROVE  \E x \in Requests : Attends(x, u)'
      BY DEF NoUnattendedUser
    <3>1. CASE u = req[r].uid
      BY <1>2, <2>1, <3>1 DEF Attends
    <3>2. CASE u # req[r].uid
      <4>1. Unfinished(u)
        BY <1>1, <2>2, <3>2 DEF Unfinished, Entered
      <4>2. PICK x \in Requests : Attends(x, u)
        BY <4>1 DEF UInv, NoUnattendedUser
      <4> QED BY <2>1, <3>2, <4>2 DEF Attends, Others
    <3> QED BY <3>1, <3>2
  <2> QED BY <1>2, <2>2, <2>3, <2>4 DEF UInv
<1> QED BY <1>3, <1>4 DEF MemoryCreate

LEMMA DeleteUsers ==
  ASSUME IInv, IInv', UInv, NEW r \in Requests, MemoryDelete(r)
  PROVE  UInv'
<1> USE ConstantsOK
<1>1. /\ req \in [Requests -> Request] /\ req[r] \in Request /\ req[r].pc = "rollback"
      /\ UNCHANGED owner /\ Entered' = Entered
  BY DEF MemoryDelete, IInv, TypeOK, tokenVars, jwtVars, Entered
<1>2. /\ req[r].op = "register" /\ req[r].uid \in Users /\ Wiring # "postgres"
      /\ Wiring = "memory" => req[r].cand \notin Entered
  BY <1>1 DEF UInv, UserOK, IInv, RequestOK
<1>3. /\ Others(r) /\ req'[r].op = "register" /\ req'[r].uid = req[r].uid
      /\ req'[r].cand = req[r].cand /\ req'[r].pc = "respond"
      /\ \/ DeleteUser(req[r].uid) /\ req'[r].res = "error"
         \/ UNCHANGED userVars /\ req'[r].res = "joined" /\ Stalls
  BY <1>1, <1>2 DEF MemoryDelete, RollbackMayFail, Answer, Others, Request
<1>4. \A u \in Users : byID'[u] = byID[u] \/ (u = req[r].uid /\ byID'[u] = NoEmail)
  BY <1>2, <1>3 DEF DeleteUser, userVars, IInv, TypeOK
<1>5. IndexesAgree'
  <2>1. CASE UNCHANGED userVars
    BY <2>1 DEF UInv, IndexesAgree, userVars
  <2>2. CASE DeleteUser(req[r].uid)
    <3> SUFFICES ASSUME NEW u \in Users, NEW e \in Emails
                 PROVE  byID'[u] = e <=> byEmail'[e] = u
      BY DEF IndexesAgree
    <3>1. /\ byID[u] = e <=> byEmail[e] = u
          /\ byID[req[r].uid] = e <=> byEmail[e] = req[r].uid
      BY <1>2 DEF UInv, IndexesAgree
    <3>2. /\ byID'[u] = IF u = req[r].uid THEN NoEmail ELSE byID[u]
          /\ byEmail'[e] = IF e = byID[req[r].uid] THEN NoUser ELSE byEmail[e]
      BY <1>2, <2>2 DEF DeleteUser, IInv, TypeOK
    <3> QED BY <3>1, <3>2
  <2> QED BY <1>3, <2>1, <2>2
<1>6. ASSUME NEW x \in Requests PROVE UserOK(x)'
  <2>1. CASE x = r
    <3>1. req'[r].res = "error" => byID'[req[r].uid] = NoEmail
      BY <1>2, <1>3 DEF DeleteUser, IInv, TypeOK
    <3> QED BY <1>1, <1>2, <1>3, <2>1, <3>1 DEF UserOK
  <2>2. CASE x # r
    <3>1. req'[x] = req[x] /\ UserOK(x)
      BY <1>3, <2>2 DEF Others, UInv
    <3>2. req[x].pc \in {"issue", "create", "unit"} => req[x].uid \in Users
      BY DEF IInv, RequestOK
    <3> QED BY <1>1, <1>4, <3>1, <3>2 DEF UserOK
  <2> QED BY <2>1, <2>2
<1>7. RegistrarsDiffer'
  <2>1. KeepsItsUser(r)
    BY <1>2, <1>3 DEF KeepsItsUser
  <2> QED BY <1>3, <2>1, RegistrarsStayDifferent
<1>8. UsersSigned'
  BY <1>1, <1>4 DEF UInv, UsersSigned
<1>9. NoUnattendedUser'
  <2> SUFFICES ASSUME ~Stalls, NEW u \in Users, Unfinished(u)'
               PROVE  \E x \in Requests : Attends(x, u)'
    BY DEF NoUnattendedUser
  <2>1. byID'[req[r].uid] = NoEmail
    BY <1>2, <1>3 DEF DeleteUser, IInv, TypeOK
  <2>2. u # req[r].uid /\ Unfinished(u)
    BY <1>1, <1>4, <2>1 DEF Unfinished, Entered
  <2>3. PICK x \in Requests : Attends(x, u)
    BY <2>2 DEF UInv, NoUnattendedUser
  <2> QED BY <1>3, <2>2, <2>3 DEF Attends, Others
<1> QED BY <1>2, <1>5, <1>6, <1>7, <1>8, <1>9 DEF UInv

LEMMA UnitUsers ==
  ASSUME IInv, IInv', UInv, NEW r \in Requests, PostgresCreateUserWithRefreshToken(r)
  PROVE  UInv'
<1> USE ConstantsOK
<1> DEFINE c == req[r].cand
<1>1. /\ req \in [Requests -> Request] /\ req[r] \in Request /\ req[r].pc = "unit"
      /\ UNCHANGED <<owner, spent>>
  BY DEF PostgresCreateUserWithRefreshToken, IInv, TypeOK, jwtVars
<1>2. /\ c \in Tokens /\ c \notin Entered /\ owner[c] = req[r].uid
      /\ req[r].op = "register" /\ Wiring = "postgres" /\ req[r].res = "none"
  BY <1>1 DEF UInv, UserOK, IInv, PendingOK, RequestOK
<1>3. /\ Others(r) /\ req'[r].op = req[r].op /\ req'[r].uid = req[r].uid
      /\ req'[r].cand = c /\ req'[r].pc = "respond"
  BY <1>1 DEF PostgresCreateUserWithRefreshToken, Answer, Others, Request
<1>4. KeepsItsUser(r) /\ \A u \in Users : ~Attends(r, u)
  BY <1>1, <1>3 DEF KeepsItsUser, Attends
<1>5. UserOK(r)'
  BY <1>2, <1>3 DEF UserOK
<1>6. CASE UNCHANGED <<userVars, stored>>
  BY <1>1, <1>3, <1>4, <1>5, <1>6, UsersQuiet DEF userVars, Entered
<1>7. CASE ~Taken(r) /\ InsertUser(r) /\ stored' = stored \cup {c}
  <2>1. /\ req[r].uid \in Users /\ req[r].email \in Emails
        /\ \A u \in Users : byID'[u] = IF u = req[r].uid THEN req[r].email ELSE byID[u]
        /\ \A x \in Requests : req[x].op = "register" /\ req[x].uid = req[r].uid => x = r
        /\ IndexesAgree' /\ RegistrarsDiffer' /\ UsersSigned'
    BY <1>1, <1>3, <1>7, Inserting
  <2>2. Entered' = Entered \cup {c}
    BY <1>1, <1>7 DEF Entered
  <2>3. ASSUME NEW x \in Requests, x # r PROVE UserOK(x)'
    <3>1. req'[x] = req[x] /\ UserOK(x)
      BY <1>3, <2>3 DEF Others, UInv
    <3>2. req[x].pc \in {"issue", "create", "unit"} => req[x].uid \in Users
      BY DEF IInv, RequestOK
    <3> QED BY <1>2, <2>1, <2>3, <3>1, <3>2 DEF UserOK
  <2>4. {u \in Users : byID'[u] # NoEmail} = {owner'[t] : t \in Entered'}
    <3>1. {u \in Users : byID[u] # NoEmail} = {owner[t] : t \in Entered}
      BY <1>2 DEF UInv, RegistrationIsAtomic, Entered
    <3>2. {u \in Users : byID'[u] # NoEmail} = {u \in Users : byID[u] # NoEmail} \cup {req[r].uid}
      BY <2>1
    <3>3. {owner'[t] : t \in Entered'} = {owner[t] : t \in Entered} \cup {req[r].uid}
      BY <1>1, <1>2, <2>2
    <3> QED BY <3>1, <3>2, <3>3
  <2>5. RegistrationIsAtomic' /\ NoUnattendedUser'
    BY <2>4 DEF RegistrationIsAtomic, NoUnattendedUser, Unfinished, Entered
  <2> QED BY <1>5, <2>1, <2>3, <2>5 DEF UInv
<1> QED BY <1>6, <1>7 DEF PostgresCreateUserWithRefreshToken

LEMMA CrashUsers ==
  ASSUME IInv, IInv', UInv, NEW D \in SUBSET Requests, Crash(D)
  PROVE  UInv'
<1> USE ConstantsOK
<1>1. /\ UNCHANGED owner /\ Entered' = Entered
      /\ \A r \in Requests : req'[r] = IF r \in D THEN Idle ELSE req[r]
  BY DEF Crash, tokenVars, jwtVars, Entered
<1>2. RegistrarsDiffer'
  BY <1>1 DEF UInv, RegistrarsDiffer, Idle
<1>3. CASE Remote /\ UNCHANGED userVars
  <2>1. \A r \in Requests : UserOK(r)'
    BY <1>1, <1>3 DEF UInv, UserOK, Idle, userVars
  <2>2. IndexesAgree' /\ UsersSigned' /\ RegistrationIsAtomic'
    BY <1>1, <1>3 DEF UInv, IndexesAgree, UsersSigned, RegistrationIsAtomic, Remote, Entered,
       userVars
  <2>3. NoUnattendedUser'
    BY <2>2 DEF RegistrationIsAtomic, NoUnattendedUser, Unfinished
  <2> QED BY <1>2, <2>1, <2>2, <2>3 DEF UInv
<1>4. CASE /\ ~Remote /\ D = Requests
           /\ byID' = [u \in Users |-> NoEmail] /\ byEmail' = [e \in Emails |-> NoUser]
  <2>1. \A r \in Requests : UserOK(r)'
    BY <1>1, <1>4 DEF UserOK, Idle
  <2>2. IndexesAgree' /\ UsersSigned' /\ NoUnattendedUser' /\ Wiring # "postgres"
    BY <1>4 DEF IndexesAgree, UsersSigned, NoUnattendedUser, Unfinished, Remote
  <2> QED BY <1>2, <2>1, <2>2 DEF UInv
<1> QED BY <1>3, <1>4 DEF Crash

LEMMA SilentUsers ==
  ASSUME IInv, UInv, (\E t \in Tokens : RedisExpire(t)) \/ Tick \/ UNCHANGED vars
  PROVE  UInv'
<1>1. UNCHANGED <<req, byID, byEmail, owner>> /\ Entered' = Entered
  BY DEF RedisExpire, Tick, vars, userVars, tokenVars, jwtVars, Entered
<1>2. IndexesAgree' /\ RegistrarsDiffer' /\ UsersSigned'
  BY <1>1 DEF UInv, IndexesAgree, RegistrarsDiffer, UsersSigned
<1>3. \A r \in Requests : UserOK(r)'
  BY <1>1 DEF UInv, UserOK
<1>4. NoUnattendedUser' /\ (Wiring = "postgres" => RegistrationIsAtomic')
  BY <1>1 DEF UInv, NoUnattendedUser, Unfinished, Attends, RegistrationIsAtomic, Entered
<1> QED BY <1>2, <1>3, <1>4 DEF UInv

(***************************************************************************)
(* UInv is an invariant of the identity service, for every wiring.         *)
(***************************************************************************)
THEOREM UsersInductive == Spec => []UInv
<1>1. Init => UInv
  <2> SUFFICES ASSUME Init PROVE UInv
    OBVIOUS
  <2>1. \A r \in Requests : UserOK(r)
    BY ConstantsOK DEF Init, UserOK, Idle, Entered
  <2>2. IndexesAgree /\ RegistrarsDiffer /\ UsersSigned /\ NoUnattendedUser
    BY ConstantsOK DEF Init, IndexesAgree, RegistrarsDiffer, UsersSigned, NoUnattendedUser,
       Unfinished, Idle
  <2>3. RegistrationIsAtomic
    BY DEF Init, RegistrationIsAtomic
  <2> QED BY <2>1, <2>2, <2>3 DEF UInv
<1>2. ASSUME IInv, IInv', UInv, [Next]_vars PROVE UInv'
  <2>1. CASE \E r \in Requests : Arrive(r) \/ Cancel(r)
    BY <1>2, <2>1, ArriveUsers, CancelUsers
  <2>2. CASE \E r \in Requests : Handle(r)
    BY <1>2, <2>2, GenerateUsers, FindUsers, CreateUsers, DeleteUsers, UnitUsers, SaveUsers,
       RotateUsers, RespondUsers DEF Handle
  <2>3. CASE \E D \in SUBSET Requests : Crash(D)
    BY <1>2, <2>3, CrashUsers
  <2>4. CASE (\E t \in Tokens : RedisExpire(t)) \/ Tick \/ UNCHANGED vars
    BY <1>2, <2>4, SilentUsers
  <2> QED BY <1>2, <2>1, <2>2, <2>3, <2>4 DEF Next
<1> QED BY <1>1, <1>2, Inductive, PTL DEF Spec

(***************************************************************************)
(* The table of the users and its unique index agree, whatever creations,  *)
(* rollbacks and crashes interleave.                                       *)
(***************************************************************************)
THEOREM IndexesStayTogether == Spec => []IndexesAgree
<1>1. UInv => IndexesAgree BY DEF UInv
<1> QED BY <1>1, UsersInductive, PTL

(***************************************************************************)
(* While rollbacks meet their deadline, nobody is left without a refresh   *)
(* token and without a registration that looks after him.                  *)
(***************************************************************************)
THEOREM NobodyUnattended == Spec => []NoUnattendedUser
<1>1. UInv => NoUnattendedUser BY DEF UInv
<1> QED BY <1>1, UsersInductive, PTL

(***************************************************************************)
(* With postgres the users are the ones who were given a refresh token.    *)
(***************************************************************************)
THEOREM AtomicRegistration == Wiring = "postgres" => (Spec => []RegistrationIsAtomic)
<1> SUFFICES ASSUME Wiring = "postgres" PROVE Spec => []RegistrationIsAtomic
  OBVIOUS
<1>1. UInv => RegistrationIsAtomic BY DEF UInv
<1> QED BY <1>1, UsersInductive, PTL

(***************************************************************************)
(* With users in memory, a registration that reports a failure, and no     *)
(* failed rollback, has left no user.                                      *)
(***************************************************************************)
THEOREM FailureLeavesNoUser == Wiring # "postgres" => (Spec => []FailedRegistrationLeavesNoUser)
<1> SUFFICES ASSUME Wiring # "postgres" PROVE Spec => []FailedRegistrationLeavesNoUser
  OBVIOUS
<1>1. UInv => FailedRegistrationLeavesNoUser
  BY DEF UInv, UserOK, FailedRegistrationLeavesNoUser
<1> QED BY <1>1, UsersInductive, PTL

\* A token leaves the maps before it expires by a rotation that answers ok, or
\* with the process.
LEMMA GoodTokensLeave ==
  ASSUME IInv, Wiring = "memory", [Next]_vars,
         NEW t \in stored \ stored', now < RefreshExp(t)
  PROVE  Stops \/ \E r \in Requests : req[r].presented = t /\ ComesTo(r, {"ok"})
<1>1. CASE \E r \in Requests : MemoryRotate(r)
  <2> PICK r \in Requests : MemoryRotate(r)
    BY <1>1
  <2>1. Unexpired(r) /\ Swap(r) /\ Answer(r, "ok")
    BY DEF MemoryRotate, Held, Unexpired, Swap, tokenVars
  <2>2. req[r].presented = t
    BY <2>1 DEF Swap
  <2>3. req[r].pc = "rotate" /\ req'[r].pc = "respond" /\ req'[r].res = "ok"
    BY <2>1 DEF MemoryRotate, Answer, IInv, TypeOK, Request
  <2> QED BY <2>2, <2>3 DEF ComesTo
<1>2. CASE \E D \in SUBSET Requests : Crash(D)
  BY <1>2 DEF Crash, Remote, Stops
<1>3. CASE (\E u \in Tokens : RedisExpire(u)) \/ Tick \/ UNCHANGED vars
           \/ \E r \in Requests : Arrive(r) \/ Cancel(r)
  <2>1. ASSUME NEW r \in Requests, Arrive(r) PROVE stored' = stored
    BY <2>1, ArrivalLeavesStore DEF StoreUntouched
  <2>2. ASSUME NEW r \in Requests, Cancel(r) PROVE stored' = stored
    BY <2>2 DEF Cancel, tokenVars
  <2>3. ASSUME (\E u \in Tokens : RedisExpire(u)) \/ Tick \/ UNCHANGED vars
        PROVE  stored' = stored
    BY <2>3 DEF RedisExpire, Tick, vars, tokenVars
  <2> QED BY <1>3, <2>1, <2>2, <2>3
<1>4. CASE \E r \in Requests : Handle(r) /\ ~MemoryRotate(r)
  BY <1>4 DEF Handle, GenerateTokenPair, FindByEmail, FindByID, FindProfile, MemoryCreate,
     MemoryDelete, PostgresCreateUserWithRefreshToken, MemorySave, RedisSave, PostgresSave,
     RedisRotate, PostgresRotate, Respond, tokenVars
<1> QED BY <1>1, <1>2, <1>3, <1>4 DEF Next

(***************************************************************************)
(* With everything in memory a request that comes to a failure has entered *)
(* no pair, and no token that is still good leaves the store for it.       *)
(***************************************************************************)
THEOREM FailuresCostNothing == Wiring = "memory" => (Spec => FailureCostsNothing)
<1> SUFFICES ASSUME Wiring = "memory" PROVE Spec => FailureCostsNothing
  OBVIOUS
<1> DEFINE Step ==
      /\ \A r \in Requests :
           ComesTo(r, Outcomes \ {"ok"}) => req'[r].cand \notin stored' \cup spent'
      /\ \A t \in stored \ stored' :
           now < RefreshExp(t) =>
             Stops \/ \E r \in Requests : req[r].presented = t /\ ComesTo(r, {"ok"})
<1>1. ASSUME IInv, UInv', [Next]_vars PROVE Step
  <2>1. ASSUME NEW r \in Requests, ComesTo(r, Outcomes \ {"ok"})
        PROVE  req'[r].cand \notin stored' \cup spent'
    BY <1>1, <2>1 DEF ComesTo, UInv, UserOK, Entered
  <2>2. ASSUME NEW t \in stored \ stored', now < RefreshExp(t)
        PROVE  Stops \/ \E r \in Requests : req[r].presented = t /\ ComesTo(r, {"ok"})
    BY <1>1, <2>2, GoodTokensLeave
  <2> QED BY <2>1, <2>2
<1> QED BY <1>1, Inductive, UsersInductive, PTL DEF Spec, FailureCostsNothing
-----------------------------------------------------------------------------
(* The users of sessions.  A refresh looks its user up by the claims of    *)
(* the token it was presented, signs for that user, and keeps the session. *)

SameSession(t, u) == owner[t] = owner[u] /\ family[t] = family[u]

OwnersOK ==
  /\ \A t \in Tokens : owner[t] # NoUser => owner[family[t]] = owner[t]
  /\ \A r \in Requests : req[r].op = "refresh" =>
       /\ req[r].pc \in {"lookup", "issue"} => req[r].uid = owner[req[r].presented]
       /\ req[r].cand # NoToken => SameSession(req[r].cand, req[r].presented)

\* A request keeps the token it was presented, the pair it has and the user it
\* works for, or it has come with a token, for the user of that token.
KeepsItsToken(r) ==
  req'[r].op = "refresh" =>
    \/ /\ req[r].op = "refresh" /\ req'[r].presented = req[r].presented
       /\ req'[r].cand = req[r].cand
       /\ req'[r].pc \in {"lookup", "issue"} =>
            req[r].pc \in {"lookup", "issue"} /\ req'[r].uid = req[r].uid
    \/ req'[r].cand = NoToken /\ req'[r].uid = owner[req'[r].presented]

LEMMA OwnersQuiet ==
  ASSUME OwnersOK, UNCHANGED jwtVars, \A r \in Requests : KeepsItsToken(r)
  PROVE  OwnersOK'
BY SMT DEF OwnersOK, KeepsItsToken, SameSession, jwtVars

\* Only a pair that nobody holds is signed anew.
LEMMA GenerateOwners ==
  ASSUME IInv, OwnersOK, NEW r \in Requests, GenerateTokenPair(r)
  PROVE  OwnersOK'
<1>1. /\ req \in [Requests -> Request] /\ req[r].pc = "issue" /\ req[r].uid \in Users
      /\ owner \in [Tokens -> Users \cup {NoUser}] /\ family \in [Tokens -> Tokens]
  BY DEF GenerateTokenPair, IInv, TypeOK, RequestOK
<1>2. CASE Answer(r, "error") /\ UNCHANGED jwtVars
  <2>1. \A x \in Requests : KeepsItsToken(x)
    BY <1>1, <1>2, SMT DEF Answer, KeepsItsToken
  <2> QED BY <1>2, <2>1, OwnersQuiet
<1>3. ASSUME NEW t \in Tokens, FreshToken(t),
             owner' = [owner EXCEPT ![t] = req[r].uid],
             family' = [family EXCEPT ![t] = FamilyOf(r, t)],
             req' = [req EXCEPT ![r].pc = AfterIssue(r), ![r].cand = t]
      PROVE  OwnersOK'
  <2>1. /\ \A x \in Requests : req[x].cand # t
        /\ \A x \in Requests : req[x].op = "refresh" =>
             req[x].presented \in Tokens /\ req[x].presented # t
    BY <1>3, SMT DEF FreshToken, IInv, TypeOK, UnsignedUnused, RequestOK, SuccessIsStored, Entered
  <2>2. /\ req[r].op = "refresh" => /\ owner[req[r].presented] = req[r].uid
                                    /\ owner[family[req[r].presented]] = req[r].uid
                                    /\ family[req[r].presented] # t
    BY <1>1, <1>3, <2>1, ConstantsOK, SMT DEF OwnersOK, FreshToken
  <2>3. \A u \in Tokens : owner'[u] # NoUser => owner'[family'[u]] = owner'[u]
    <3> SUFFICES ASSUME NEW u \in Tokens, owner'[u] # NoUser
                 PROVE  owner'[family'[u]] = owner'[u]
      OBVIOUS
    <3>1. CASE u = t
      BY <1>1, <1>3, <2>1, <2>2, <3>1, SMT DEF FamilyOf
    <3>2. CASE u # t
      BY <1>1, <1>3, <3>2, ConstantsOK, SMT DEF OwnersOK, FreshToken
    <3> QED BY <3>1, <3>2
  <2>4. \A x \in Requests \ {r} : req'[x] = req[x]
    BY <1>1, <1>3
  <2>5. /\ req'[r].op = req[r].op /\ req'[r].presented = req[r].presented /\ req'[r].cand = t
        /\ req'[r].pc = AfterIssue(r)
    BY <1>1, <1>3, SMT DEF Request
  <2>6. req[r].op = "refresh" =>
          LET p == req[r].presented IN
          /\ AfterIssue(r) = "rotate"
          /\ owner'[t] = owner'[p] /\ family'[t] = family'[p]
    BY <1>1, <1>3, <2>1, <2>2 DEF AfterIssue, FamilyOf
  <2>7. ASSUME NEW x \in Requests, x # r, req[x].op = "refresh"
        PROVE  LET p == req[x].presented
                   c == req[x].cand IN
               /\ owner'[p] = owner[p] /\ family'[p] = family[p]
               /\ c # NoToken => owner'[c] = owner[c] /\ family'[c] = family[c]
    <3>1. req[x].cand \in Tokens \cup {NoToken}
      BY <1>1 DEF Request
    <3> QED BY <1>1, <1>3, <2>1, <2>7, <3>1
  <2>8. ASSUME NEW x \in Requests, req'[x].op = "refresh"
        PROVE  LET p == req'[x].presented
                   c == req'[x].cand IN
               /\ req'[x].pc \in {"lookup", "issue"} => req'[x].uid = owner'[p]
               /\ c # NoToken => owner'[c] = owner'[p] /\ family'[c] = family'[p]
    <3>1. CASE x = r
      BY <2>5, <2>6, <2>8, <3>1
    <3>2. CASE x # r
      BY <2>4, <2>7, <2>8, <3>2 DEF OwnersOK, SameSession
    <3> QED BY <3>1, <3>2
  <2> QED BY <2>3, <2>8 DEF OwnersOK, SameSession
<1> QED BY <1>2, <1>3 DEF GenerateTokenPair

LEMMA ArriveOwners ==
  ASSUME IInv, OwnersOK, NEW r \in Requests, Arrive(r)
  PROVE  OwnersOK'
<1>1. req \in [Requests -> Request] /\ req[r] = Idle /\ UNCHANGED jwtVars
  BY Blank DEF Arrive, Register, Login, Refresh, Me, WithToken, IInv, TypeOK
<1>2. ASSUME NEW e \in Emails, Register(r, e) \/ Login(r, e)
      PROVE  Others(r) /\ KeepsItsToken(r)
  BY <1>1, <1>2 DEF Register, Login, Others, KeepsItsToken, Idle
<1>3. ASSUME NEW t \in delivered, Refresh(r, t) \/ Me(r, t)
      PROVE  Others(r) /\ KeepsItsToken(r)
  BY <1>1, <1>3 DEF Refresh, Me, WithToken, Others, KeepsItsToken, Idle
<1>4. \A x \in Requests : KeepsItsToken(x)
  BY <1>2, <1>3 DEF Arrive, Others, KeepsItsToken
<1> QED BY <1>1, <1>4, OwnersQuiet

\* A call of a store, and the answer, leave a request with the user it has.
LEMMA CallOwners ==
  ASSUME IInv, OwnersOK, NEW r \in Requests, Handle(r), ~GenerateTokenPair(r)
  PROVE  OwnersOK'
<1> DEFINE Moves == UNCHANGED jwtVars /\ Others(r) /\ KeepsItsToken(r)
<1>1. req \in [Requests -> Request] /\ RequestOK(r)
  BY DEF IInv, TypeOK
<1>2. ASSUME NEW call \in Calls \ {"lookup", "issue"}, Goto(r, call)
      PROVE  Others(r) /\ KeepsItsToken(r)
  BY <1>1, <1>2 DEF Goto, Others, KeepsItsToken
<1>3. ASSUME NEW outcome \in Outcomes, Answer(r, outcome)
      PROVE  Others(r) /\ KeepsItsToken(r)
  BY <1>1, <1>3 DEF Answer, Others, KeepsItsToken
<1>4. ASSUME FindByEmail(r) PROVE Moves
  <2>1. CASE \E o \in {"error", "invalid"} : Answer(r, o)
    BY <1>3, <1>4, <2>1 DEF FindByEmail, Outcomes
  <2>2. CASE req' = [req EXCEPT ![r].pc = "issue", ![r].uid = byEmail[req[r].email]]
    <3>1. req[r].op = "login"
      BY <1>1, <1>4 DEF FindByEmail, RequestOK
    <3>2. req'[r].op = "login"
      BY <1>1, <2>2, <3>1 DEF Request
    <3>3. Others(r)
      BY <1>1, <2>2 DEF Others
    <3> QED BY <1>4, <3>2, <3>3 DEF FindByEmail, KeepsItsToken
  <2> QED BY <1>4, <2>1, <2>2 DEF FindByEmail
<1>5. ASSUME FindByID(r) PROVE Moves
  <2>1. CASE \E o \in {"error", "invalid"} : Answer(r, o)
    BY <1>3, <1>5, <2>1 DEF FindByID, Outcomes
  <2>2. CASE Goto(r, "issue")
    BY <1>1, <1>5, <2>2 DEF FindByID, Goto, Others, KeepsItsToken
  <2> QED BY <1>5, <2>1, <2>2 DEF FindByID
<1>6. ASSUME FindProfile(r) PROVE Moves
  BY <1>3, <1>6 DEF FindProfile, Outcomes
<1>7. ASSUME MemoryCreate(r) \/ MemoryDelete(r) \/ PostgresCreateUserWithRefreshToken(r)
      PROVE  Moves
  BY <1>2, <1>3, <1>7 DEF MemoryCreate, MemoryDelete, PostgresCreateUserWithRefreshToken,
     Outcomes, Calls
<1>8. ASSUME MemorySave(r) \/ RedisSave(r) \/ PostgresSave(r) PROVE Moves
  BY <1>2, <1>3, <1>8 DEF MemorySave, RedisSave, PostgresSave, SaveFailed, Outcomes, Calls
<1>9. ASSUME MemoryRotate(r) \/ RedisRotate(r) \/ PostgresRotate(r) PROVE Moves
  BY <1>3, <1>9 DEF MemoryRotate, RedisRotate, PostgresRotate, Outcomes
<1>10. ASSUME Respond(r) PROVE Moves
  BY <1>1, <1>10 DEF Respond, Others, KeepsItsToken, Idle
<1>11. Moves
  BY <1>4, <1>5, <1>6, <1>7, <1>8, <1>9, <1>10 DEF Handle
<1>12. \A x \in Requests : KeepsItsToken(x)
  BY <1>11 DEF Others, KeepsItsToken
<1> QED BY <1>11, <1>12, OwnersQuiet

LEMMA SurroundingsOwners ==
  ASSUME IInv, OwnersOK,
         \/ \E r \in Requests : Cancel(r)
         \/ \E t \in Tokens : RedisExpire(t)
         \/ \E D \in SUBSET Requests : Crash(D)
         \/ Tick \/ UNCHANGED vars
  PROVE  OwnersOK'
<1>1. req \in [Requests -> Request] /\ UNCHANGED jwtVars
  BY DEF Cancel, RedisExpire, Crash, Tick, vars, IInv, TypeOK
<1>2. CASE \E r \in Requests : Cancel(r)
  <2>1. \A x \in Requests : KeepsItsToken(x)
    BY <1>1, <1>2 DEF Cancel, KeepsItsToken
  <2> QED BY <1>1, <2>1, OwnersQuiet
<1>3. CASE \E D \in SUBSET Requests : Crash(D)
  <2>1. \A x \in Requests : KeepsItsToken(x)
    BY <1>3 DEF Crash, KeepsItsToken, Idle
  <2> QED BY <1>1, <2>1, OwnersQuiet
<1>4. CASE (\E t \in Tokens : RedisExpire(t)) \/ Tick \/ UNCHANGED vars
  <2>1. req' = req
    BY <1>4 DEF RedisExpire, Tick, vars
  <2> QED BY <1>1, <2>1, OwnersQuiet DEF KeepsItsToken
<1> QED BY <1>2, <1>3, <1>4

(***************************************************************************)
(* A session belongs to one user for good: all the tokens it ever had were *)
(* signed for him, whoever refreshes meanwhile.  And what Refresh answers  *)
(* is a pair of the session, and of the user, of the token it was given.   *)
(***************************************************************************)
THEOREM SessionKeepsItsUser ==
  Spec => [](/\ \A t, u \in Entered : family[t] = family[u] => owner[t] = owner[u]
             /\ \A r \in Requests : req[r].op = "refresh" /\ req[r].res = "ok"
                                    => SameSession(req[r].cand, req[r].presented))
<1>1. Init => OwnersOK
  BY DEF Init, OwnersOK, Idle
<1>2. IInv /\ OwnersOK /\ [Next]_vars => OwnersOK'
  BY ArriveOwners, GenerateOwners, CallOwners, SurroundingsOwners DEF Next
<1>3. IInv /\ OwnersOK =>
        /\ \A t, u \in Entered : family[t] = family[u] => owner[t] = owner[u]
        /\ \A r \in Requests : req[r].op = "refresh" /\ req[r].res = "ok"
                               => SameSession(req[r].cand, req[r].presented)
  <2> SUFFICES ASSUME IInv, OwnersOK
               PROVE  /\ \A t, u \in Entered : family[t] = family[u] => owner[t] = owner[u]
                      /\ \A r \in Requests : req[r].op = "refresh" /\ req[r].res = "ok"
                                             => SameSession(req[r].cand, req[r].presented)
    OBVIOUS
  <2>1. \A t \in Entered : t \in Tokens /\ owner[t] # NoUser
    BY DEF IInv, TypeOK, UnsignedUnused, Entered
  <2>2. \A r \in Requests : req[r].op = "refresh" /\ req[r].res = "ok" => req[r].cand # NoToken
    BY <2>1, ConstantsOK DEF IInv, SuccessIsStored, RequestOK, Entered
  <2> QED BY <2>1, <2>2 DEF OwnersOK
<1> QED BY <1>1, <1>2, <1>3, Inductive, PTL DEF Spec
=============================================================================
