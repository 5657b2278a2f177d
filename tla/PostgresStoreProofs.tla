------------------------ MODULE PostgresStoreProofs ------------------------
(***************************************************************************)
(* Safety of PostgresStore for every number of calls and of connections,   *)
(* every TTL and a clock that runs as far as it likes.  The heart of it is *)
(* the row lock: from its DELETE to its end a transaction is alone with    *)
(* the token it consumes, and the token stays what it was.                 *)
(***************************************************************************)
EXTENDS PostgresStore, FiniteSetTheorems, TLAPS

-----------------------------------------------------------------------------
(* The inductive invariant                                                 *)

\* A job is drawn once, and names a token that was given to a client.
JobOK(t) ==
  LET j == job[t] IN
  /\ t > drawn => j = NoJob /\ tx[t] = NoTx /\ outcome[t] = "none"
  /\ t <= drawn => j.op # "none"
  /\ j.op = "rotate" => /\ j.old \in Tokens /\ outcome[j.old] = "ok"
                        /\ j.family = job[j.old].family /\ j.user = job[j.old].user
                        /\ j.email = NoEmail
  /\ j.op \in {"register", "save"} => j.old = NoToken /\ j.family = t
  /\ j.op = "register" => j.email \in Emails /\ j.user \in Tokens
  /\ j.op = "save" => j.email = NoEmail

\* The presented token is not there for t, and never will be.
Missed(t) == job[t].old \notin rows \/ tx[t].began >= job[job[t].old].exp
Conflicts(t) == job[t].op = "register" /\ users[job[t].email] # NoToken

\* t has deleted the row of its token.
Locked(t) == tx[t].st = "open" /\ job[t].op = "rotate" /\ tx[t].done > 0

TxOK(t) ==
  /\ tx[t].st = "none" => tx[t] = NoTx
  /\ tx[t].wire = "asked" => tx[t].st = "open"
  /\ tx[t].st = "open" => /\ job[t].op = "save" => tx[t].done = 0
                          /\ job[t].op = "rotate" => tx[t].done <= 2
  /\ tx[t].wire = "done" => tx[t].st = "committed"
  /\ tx[t].wire = "zero" => tx[t].st = "open" /\ Missed(t)
  /\ tx[t].wire = "duplicate" => tx[t].st = "aborted" /\ Conflicts(t)
  /\ Locked(t) => job[t].old \in rows /\ tx[t].began < job[job[t].old].exp

CallOK(c) ==
  LET t == call[c].tok IN
  /\ call[c].pc = "idle" => call[c] = Idle
  /\ call[c].pc # "idle" => t \in Tokens /\ t <= drawn /\ outcome[t] = "none"
  /\ call[c].pc = "acquire" => tx[t] = NoTx
  /\ call[c].pc = "rollback" =>
       /\ call[c].res \in {"refused", "taken", "error"}
       /\ call[c].res \in {"refused", "taken"} =>
            tx[t].st \in {"open", "aborted"} /\ tx[t].wire # "asked"
       /\ call[c].res = "refused" => Missed(t)
       /\ call[c].res = "taken" => Conflicts(t)

CallsDiffer == \A c, d \in Calls : call[c].tok = call[d].tok /\ call[c].tok # NoToken => c = d

LocksExclude == \A s, t \in Tokens : Locked(s) /\ Locked(t) /\ job[s].old = job[t].old => s = t

PInv ==
  /\ TypeOK
  /\ \A t \in Tokens : JobOK(t) /\ TxOK(t)
  /\ \A t \in Tokens : outcome[t] = "taken" => job[t].op = "register"
  /\ \A c \in Calls : CallOK(c)
  /\ CallsDiffer
  /\ LocksExclude
  /\ rows \subseteq Committed
  /\ AnswersAreTrue
  /\ NoStaleExchange

-----------------------------------------------------------------------------
(* The statements                                                          *)

LEMMA Program ==
  ASSUME PInv, NEW t \in Tokens, tx[t].st = "open"
  PROVE  /\ NextStatement(t) = "delete_token" => job[t].op = "rotate" /\ tx[t].done = 0
         /\ NextStatement(t) = "insert_user" => job[t].op = "register" /\ tx[t].done = 0
         /\ NextStatement(t) \in {"assign_role", "insert_token"} =>
              \/ job[t].op = "register" /\ tx[t].done \in {1, 2}
              \/ job[t].op = "rotate" /\ tx[t].done = 1
         /\ NextStatement(t) \in {"commit", "insert_and_commit"} =>
              \/ job[t].op = "register" /\ tx[t].done = 3
              \/ job[t].op = "rotate" /\ tx[t].done = 2
              \/ job[t].op = "save" /\ tx[t].done = 0
<1>1. /\ tx[t] \in Tx /\ job[t] \in Job /\ tx[t] # NoTx
      /\ job[t].op = "save" => tx[t].done = 0
      /\ job[t].op = "rotate" => tx[t].done <= 2
  BY DEF PInv, TypeOK, TxOK, NoTx
<1>2. tx[t].done \in {0, 1, 2, 3} /\ job[t].op \in {"register", "save", "rotate"}
  <2>1. tx[t].done \in 0 .. 3 /\ job[t].op \in Ops
    BY <1>1 DEF Tx, Job
  <2>2. t <= drawn
    BY <1>1 DEF PInv, JobOK, TypeOK, Tokens
  <2>3. job[t].op # "none"
    BY <2>2 DEF PInv, JobOK
  <2> QED BY <2>1, <2>3 DEF Ops
<1>3. CASE job[t].op = "register"
  <2>1. NextStatement(t) = <<"insert_user", "assign_role", "insert_token", "commit">>[tx[t].done + 1]
    BY <1>3 DEF NextStatement, Statements
  <2>2. /\ tx[t].done = 0 => NextStatement(t) = "insert_user"
        /\ tx[t].done = 1 => NextStatement(t) = "assign_role"
        /\ tx[t].done = 2 => NextStatement(t) = "insert_token"
        /\ tx[t].done = 3 => NextStatement(t) = "commit"
    BY <2>1
  <2> QED BY <1>2, <1>3, <2>2
<1>4. CASE job[t].op = "rotate"
  <2>1. NextStatement(t) = <<"delete_token", "insert_token", "commit">>[tx[t].done + 1]
    BY <1>4 DEF NextStatement, Statements
  <2>2. /\ tx[t].done = 0 => NextStatement(t) = "delete_token"
        /\ tx[t].done = 1 => NextStatement(t) = "insert_token"
        /\ tx[t].done = 2 => NextStatement(t) = "commit"
    BY <2>1
  <2> QED BY <1>1, <1>2, <1>4, <2>2
<1>5. CASE job[t].op = "save"
  <2>1. NextStatement(t) = <<"insert_and_commit">>[tx[t].done + 1]
    BY <1>5 DEF NextStatement, Statements
  <2>2. tx[t].done = 0
    BY <1>1, <1>5
  <2>3. NextStatement(t) = "insert_and_commit"
    BY <2>1, <2>2
  <2> QED BY <1>5, <2>2, <2>3
<1> QED BY <1>2, <1>3, <1>4, <1>5

\* A token that is presented was entered by a transaction that has committed.
LEMMA PresentedCommitted ==
  ASSUME PInv, NEW t \in Tokens
  PROVE  job[t].old \in rows => job[t].op = "rotate" /\ tx[job[t].old].st = "committed"
<1>1. job[t] \in Job
  BY DEF PInv, TypeOK
<1>2. CASE job[t].op \in {"register", "save"}
  BY <1>2 DEF PInv, JobOK, TypeOK, Tokens, NoToken
<1>3. CASE job[t].op = "none"
  <2>1. job[t] = NoJob
    BY <1>3 DEF PInv, JobOK, TypeOK, Tokens
  <2> QED BY <2>1 DEF NoJob, PInv, TypeOK, Tokens, NoToken
<1>4. CASE job[t].op = "rotate"
  BY <1>4 DEF PInv, JobOK, AnswersAreTrue
<1> QED BY <1>1, <1>2, <1>3, <1>4 DEF Job, Ops

-----------------------------------------------------------------------------
(* A step of the server concerns one open transaction.                     *)

LEMMA ServerStep ==
  ASSUME PInv, NEW t \in Tokens, tx[t].st = "open",
         UNCHANGED <<now, maxOpen, call, drawn, job, outcome>>,
         tx' \in [Tokens -> Tx], \A s \in Tokens : s # t => tx'[s] = tx[s],
         users' \in [Emails -> Tokens \cup {NoToken}],
         \A e \in Emails : users[e] # NoToken => users'[e] # NoToken,
         rows' \subseteq rows \cup {t}, rows' \subseteq Committed',
         \A s \in Tokens : s # t /\ Locked(s) => job[s].old \in rows',
         tx'[t].st # "none", tx'[t].began = tx[t].began, TxOK(t)',
         tx'[t].st = "committed" =>
           Running(t) /\ (job[t].op = "rotate" => tx[t].began < job[job[t].old].exp),
         Running(t) \/ (tx'[t].st = "aborted" /\ tx'[t].wire = "none"),
         Locked(t)' =>
           Locked(t) \/ \A s \in Tokens : s # t /\ Locked(s) => job[s].old # job[t].old
  PROVE  PInv'
<1>1. TypeOK'
  BY DEF PInv, TypeOK, Committed
<1>2. t <= drawn
  BY DEF PInv, JobOK, TypeOK, Tokens, NoTx
<1>3. \A s \in Tokens : JobOK(s)'
  <2> SUFFICES ASSUME NEW s \in Tokens PROVE JobOK(s)'
    OBVIOUS
  <2>1. s > drawn => s # t
    BY <1>2 DEF PInv, TypeOK, Tokens
  <2>2. JobOK(s)
    BY DEF PInv
  <2> QED BY <2>1, <2>2 DEF JobOK
<1>4. \A s \in Tokens : Missed(s) => Missed(s)'
  <2> SUFFICES ASSUME NEW s \in Tokens, Missed(s) PROVE Missed(s)'
    OBVIOUS
  <2>1. tx'[s].began = tx[s].began
    OBVIOUS
  <2>2. job[s].old # t
    <3>1. CASE job[s].op = "rotate"
      BY <3>1 DEF PInv, JobOK, AnswersAreTrue
    <3>2. CASE job[s].op \in {"register", "save"}
      BY <3>2 DEF PInv, JobOK, Tokens, NoToken
    <3>3. CASE job[s].op = "none"
      BY <3>3 DEF PInv, JobOK, TypeOK, Tokens, NoJob, NoToken
    <3> QED BY <3>1, <3>2, <3>3 DEF PInv, TypeOK, Job, Ops
  <2> QED BY <2>1, <2>2 DEF Missed
<1>5. \A s \in Tokens : Conflicts(s) => Conflicts(s)'
  BY DEF Conflicts, PInv, JobOK
<1>6. \A s \in Tokens : TxOK(s)'
  <2> SUFFICES ASSUME NEW s \in Tokens, s # t PROVE TxOK(s)'
    OBVIOUS
  <2>1. TxOK(s) /\ tx'[s] = tx[s] /\ (Locked(s)' <=> Locked(s))
    BY DEF PInv, Locked
  <2>2. Locked(s) => job[s].old \in rows'
    OBVIOUS
  <2> QED BY <1>4, <1>5, <2>1, <2>2 DEF TxOK
<1>7. \A c \in Calls : CallOK(c)'
  <2> SUFFICES ASSUME NEW c \in Calls PROVE CallOK(c)'
    OBVIOUS
  <2>1. CallOK(c) /\ call' = call
    BY DEF PInv
  <2>2. CASE call[c].tok = t
    BY <1>4, <1>5, <2>1, <2>2 DEF CallOK, Running, NoTx
  <2>3. CASE call[c].tok # t
    BY <1>4, <1>5, <2>1, <2>3 DEF CallOK
  <2> QED BY <2>2, <2>3
<1>8. CallsDiffer'
  BY DEF PInv, CallsDiffer
<1>9. LocksExclude'
  <2>1. \A s \in Tokens : s # t => (Locked(s)' <=> Locked(s))
    BY DEF Locked
  <2> QED BY <2>1 DEF PInv, LocksExclude
<1>10. AnswersAreTrue'
  <2> SUFFICES ASSUME NEW s \in Tokens
               PROVE  /\ outcome[s] = "ok" => tx'[s].st = "committed"
                      /\ outcome[s] \in {"refused", "taken"} =>
                           tx'[s].st \in {"open", "aborted"} /\ ~Running(s)'
                      /\ outcome[s] = "refused" => Missed(s)'
                      /\ outcome[s] = "taken" => users'[job[s].email] # NoToken
    BY DEF AnswersAreTrue, Missed
  <2>1. /\ outcome[s] = "ok" => tx[s].st = "committed"
        /\ outcome[s] \in {"refused", "taken"} => tx[s].st \in {"open", "aborted"} /\ ~Running(s)
        /\ outcome[s] = "refused" => Missed(s)
        /\ outcome[s] = "taken" => Conflicts(s)
    BY DEF PInv, AnswersAreTrue, Missed, Conflicts
  <2>2. CASE s = t
    BY <1>4, <1>5, <2>1, <2>2 DEF Running, Conflicts
  <2>3. CASE s # t
    BY <1>4, <1>5, <2>1, <2>3 DEF Running, Conflicts
  <2> QED BY <2>2, <2>3
<1>11. NoStaleExchange'
  BY DEF PInv, NoStaleExchange
<1>12. \A s \in Tokens : outcome'[s] = "taken" => job'[s].op = "register"
  BY DEF PInv
<1> QED BY <1>1, <1>3, <1>6, <1>7, <1>8, <1>9, <1>10, <1>11, <1>12 DEF PInv

LEMMA EndedFacts ==
  ASSUME tx \in [Tokens -> Tx], NEW t \in Tokens,
         NEW st \in {"committed", "aborted"}, NEW answer \in {"none", "done", "duplicate", "failed"},
         Ended(t, st, answer)
  PROVE  /\ tx' \in [Tokens -> Tx] /\ \A s \in Tokens : s # t => tx'[s] = tx[s]
         /\ tx'[t].began = tx[t].began /\ tx'[t].st = st /\ tx'[t].wire \in {"none", answer}
<1> DEFINE w == Heard(t, answer)
<1>1. w \in {"none", answer}
  BY DEF Heard
<1>2. tx' = [tx EXCEPT ![t] = [tx[t] EXCEPT !.st = st, !.done = 0, !.wire = w]]
  BY DEF Ended
<1> HIDE DEF w
<1>3. [tx[t] EXCEPT !.st = st, !.done = 0, !.wire = w] \in Tx
  <2>1. tx[t] \in Tx /\ 0 \in 0 .. 3
    OBVIOUS
  <2>2. /\ st \in {"none", "open", "committed", "aborted"}
        /\ w \in {"none", "asked", "done", "zero", "duplicate", "failed"}
    BY <1>1
  <2> QED BY <2>1, <2>2, Zenon DEF Tx
<1>4. tx'[t] = [tx[t] EXCEPT !.st = st, !.done = 0, !.wire = w]
  BY <1>2
<1> QED BY <1>1, <1>2, <1>3, <1>4 DEF Tx

LEMMA DeleteTokenStep ==
  ASSUME PInv, NEW t \in Tokens, DeleteToken(t)
  PROVE  PInv'
<1>1. /\ tx \in [Tokens -> Tx] /\ tx[t] \in Tx /\ tx[t].st = "open" /\ tx[t].wire = "asked"
      /\ job[t].op = "rotate" /\ tx[t].done = 0 /\ Running(t)
      /\ \A s \in Tokens : ~Blocks(s, t)
      /\ UNCHANGED <<now, maxOpen, call, drawn, job, outcome, users, rows>>
  BY Program DEF DeleteToken, Running, PInv, TypeOK, client, given, tables
<1>2. /\ tx' \in [Tokens -> Tx] /\ \A s \in Tokens : s # t => tx'[s] = tx[s]
      /\ tx'[t].st = "open" /\ tx'[t].began = tx[t].began
      /\ \/ Matches(t) /\ tx'[t].done = 1 /\ tx'[t].wire \in {"none", "asked"}
         \/ ~Matches(t) /\ tx'[t].done = 0 /\ tx'[t].wire \in {"none", "zero"}
  <2>1. CASE Matches(t)
    BY <1>1, <2>1 DEF DeleteToken, Executed, Heard, Tx
  <2>2. CASE ~Matches(t)
    BY <1>1, <2>2 DEF DeleteToken, Answered, Heard, Tx
  <2> QED BY <2>1, <2>2
<1>3. job[job[t].old].user = job[t].user
  BY <1>1 DEF PInv, JobOK
<1>4. now \in Nat /\ tx[t].began \in Nat /\ job[t].old \in Tokens /\ job[job[t].old].exp \in Nat
  BY <1>1, StoreConstants DEF PInv, TypeOK, JobOK, Tx, Job
<1>5. TxOK(t)'
  BY <1>1, <1>2, <1>3, <1>4 DEF TxOK, Locked, Matches, Missed
<1>6. \A s \in Tokens : s # t /\ Locked(s) => job[s].old # job[t].old
  <2> SUFFICES ASSUME NEW s \in Tokens, s # t, Locked(s), job[s].old = job[t].old
               PROVE  FALSE
    OBVIOUS
  <2>1. job[s].email = job[t].email
    BY <1>1 DEF Locked, PInv, JobOK
  <2> QED BY <1>1, <2>1 DEF Blocks, Locked
<1>7. rows' \subseteq Committed' /\ \A s \in Tokens : Locked(s) => job[s].old \in rows'
  BY <1>1, <1>2 DEF PInv, TxOK, Committed
<1> QED BY <1>1, <1>2, <1>5, <1>6, <1>7, ServerStep DEF PInv, TypeOK

LEMMA InsertUserStep ==
  ASSUME PInv, NEW t \in Tokens, InsertUser(t)
  PROVE  PInv'
<1>1. /\ tx \in [Tokens -> Tx] /\ tx[t] \in Tx /\ tx[t].st = "open" /\ tx[t].wire = "asked"
      /\ job[t].op = "register" /\ tx[t].done = 0 /\ Running(t)
      /\ UNCHANGED <<now, maxOpen, call, drawn, job, outcome, users, rows>>
  BY Program DEF InsertUser, Running, PInv, TypeOK, client, given, tables
<1>2. /\ tx' \in [Tokens -> Tx] /\ \A s \in Tokens : s # t => tx'[s] = tx[s]
      /\ tx'[t].began = tx[t].began
      /\ \/ tx'[t].st = "open" /\ tx'[t].wire \in {"none", "asked"}
         \/ /\ users[job[t].email] # NoToken /\ tx'[t].st = "aborted"
            /\ tx'[t].wire \in {"none", "duplicate"}
  <2>1. CASE users[job[t].email] = NoToken
    BY <1>1, <2>1 DEF InsertUser, Executed, Heard, Tx
  <2>2. CASE users[job[t].email] # NoToken
    BY <1>1, <2>2 DEF InsertUser, Ended, Heard, Tx
  <2> QED BY <2>1, <2>2
<1>3. TxOK(t)'
  BY <1>1, <1>2 DEF TxOK, Locked, Conflicts
<1>4. rows' \subseteq Committed' /\ \A s \in Tokens : Locked(s) => job[s].old \in rows'
  BY <1>1, <1>2 DEF PInv, TxOK, Committed
<1>5. ~Locked(t)'
  BY <1>1 DEF Locked
<1> QED BY <1>1, <1>2, <1>3, <1>4, <1>5, ServerStep DEF PInv, TypeOK

LEMMA InsertStep ==
  ASSUME PInv, NEW t \in Tokens, Insert(t)
  PROVE  PInv'
<1>1. /\ tx \in [Tokens -> Tx] /\ tx[t] \in Tx /\ tx[t].st = "open" /\ tx[t].wire = "asked"
      /\ \/ job[t].op = "register" /\ tx[t].done \in {1, 2}
         \/ job[t].op = "rotate" /\ tx[t].done = 1
      /\ Running(t)
      /\ UNCHANGED <<now, maxOpen, call, drawn, job, outcome, users, rows>>
  BY Program DEF Insert, Running, PInv, TypeOK, client, given, tables
<1>2. /\ tx' \in [Tokens -> Tx] /\ \A s \in Tokens : s # t => tx'[s] = tx[s]
      /\ tx'[t].began = tx[t].began /\ tx'[t].st = "open" /\ tx'[t].done = tx[t].done + 1
      /\ tx'[t].wire \in {"none", "asked"}
  <2>1. tx[t].done + 1 \in 0 .. 3 /\ Heard(t, "asked") \in {"none", "asked"}
    BY <1>1 DEF Heard
  <2>2. tx' = [tx EXCEPT ![t].done = tx[t].done + 1, ![t].wire = Heard(t, "asked")]
    BY DEF Insert, Executed
  <2> QED BY <1>1, <2>1, <2>2 DEF Tx
<1>3. Locked(t)' => Locked(t)
  BY <1>1 DEF Locked
<1>4. TxOK(t)'
  BY <1>1, <1>2, <1>3 DEF PInv, TxOK, Locked
<1>5. rows' \subseteq Committed' /\ \A s \in Tokens : Locked(s) => job[s].old \in rows'
  BY <1>1, <1>2 DEF PInv, TxOK, Committed
<1> QED BY <1>1, <1>2, <1>3, <1>4, <1>5, ServerStep DEF PInv, TypeOK

\* A transaction that ends without having changed the tables.
LEMMA AbortStep ==
  ASSUME PInv, NEW t \in Tokens, Fails(t) \/ Reap(t)
  PROVE  PInv'
<1>1. /\ tx \in [Tokens -> Tx] /\ tx[t] \in Tx /\ tx[t].st = "open"
      /\ UNCHANGED <<now, maxOpen, call, drawn, job, outcome, users, rows>>
  BY DEF Fails, Reap, Running, PInv, TypeOK, client, given, tables
<1>2. /\ tx' \in [Tokens -> Tx] /\ \A s \in Tokens : s # t => tx'[s] = tx[s]
      /\ tx'[t].began = tx[t].began /\ tx'[t].st = "aborted"
      /\ tx'[t].wire = "none" \/ (tx'[t].wire = "failed" /\ Running(t))
  BY <1>1 DEF Fails, Reap, Ended, Heard, Tx
<1>3. ~Locked(t)' /\ TxOK(t)'
  BY <1>2 DEF Locked, TxOK
<1>4. rows' \subseteq Committed' /\ \A s \in Tokens : Locked(s) => job[s].old \in rows'
  BY <1>1, <1>2 DEF PInv, TxOK, Committed
<1> QED BY <1>1, <1>2, <1>3, <1>4, ServerStep DEF PInv, TypeOK

LEMMA CommitStep ==
  ASSUME PInv, NEW t \in Tokens, Commit(t)
  PROVE  PInv'
<1>1. /\ tx \in [Tokens -> Tx] /\ tx[t] \in Tx /\ tx[t].st = "open" /\ Running(t)
      /\ job[t].op = "rotate" => Locked(t)
      /\ UNCHANGED <<now, maxOpen, call, drawn, job, outcome>>
      /\ rows' = Writes(t)
  BY Program DEF Commit, Running, Locked, PInv, TypeOK, client, given
<1>2. /\ tx' \in [Tokens -> Tx] /\ \A s \in Tokens : s # t => tx'[s] = tx[s]
      /\ tx'[t].began = tx[t].began /\ tx'[t].st = "committed" /\ tx'[t].wire \in {"none", "done"}
  BY <1>1, EndedFacts DEF Commit
<1>3. ~Locked(t)' /\ TxOK(t)'
  BY <1>2 DEF Locked, TxOK
<1>4. job[t].op = "rotate" => tx[t].began < job[job[t].old].exp
  BY <1>1 DEF PInv, TxOK
<1>5. /\ users' \in [Emails -> Tokens \cup {NoToken}]
      /\ \A e \in Emails : users[e] # NoToken => users'[e] # NoToken
  <2>1. ASSUME NEW e \in Emails
        PROVE  /\ users'[e] \in Tokens \cup {NoToken}
               /\ users[e] # NoToken => users'[e] # NoToken
    <3>1. CASE e = job[t].email
      <4>1. job[t].op = "register"
        <5>1. job[t].op # "none"
          BY <1>1 DEF PInv, JobOK, TypeOK, Tokens, NoTx
        <5> QED BY <3>1, <5>1, StoreConstants DEF PInv, JobOK, TypeOK, Job, Ops
      <4>2. job[t].user \in Tokens /\ NoToken \notin Tokens
        BY <4>1 DEF PInv, JobOK, Tokens, NoToken
      <4> QED BY <3>1, <4>2 DEF Commit
    <3>2. CASE e # job[t].email
      BY <3>2 DEF Commit, PInv, TypeOK
    <3> QED BY <3>1, <3>2
  <2> QED BY <2>1 DEF Commit
<1>6. \A s \in Tokens : s # t /\ Locked(s) => job[s].old \in rows'
  <2> SUFFICES ASSUME NEW s \in Tokens, s # t, Locked(s) PROVE job[s].old \in rows'
    OBVIOUS
  <2>1. job[s].old \in rows
    BY DEF PInv, TxOK
  <2>2. job[s].old # job[t].old
    <3>1. job[t].old \in rows => Locked(t)
      BY <1>1, PresentedCommitted
    <3> QED BY <2>1, <3>1 DEF PInv, LocksExclude
  <2> QED BY <1>1, <2>1, <2>2 DEF Writes
<1>7. rows' \subseteq rows \cup {t} /\ rows' \subseteq Committed'
  BY <1>1, <1>2 DEF PInv, Writes, Committed
<1> QED BY <1>1, <1>2, <1>3, <1>4, <1>5, <1>6, <1>7, ServerStep

-----------------------------------------------------------------------------
(* A step of a call concerns its own transaction.                          *)

LEMMA ClientStep ==
  ASSUME PInv, NEW c \in Calls, NEW t \in Tokens, t = call[c].tok, call[c].pc # "idle",
         UNCHANGED <<now, maxOpen, drawn, job, users, rows>>,
         call' \in [Calls -> Call], \A d \in Calls : d # c => call'[d] = call[d],
         call'[c].tok \in {t, NoToken}, CallOK(c)',
         tx' \in [Tokens -> Tx], \A s \in Tokens : s # t => tx'[s] = tx[s],
         tx[t].st # "none" => tx'[t].began = tx[t].began, TxOK(t)',
         tx[t].st = "committed" <=> tx'[t].st = "committed", Locked(t)' => Locked(t),
         outcome' \in [Tokens -> Results], \A s \in Tokens : s # t => outcome'[s] = outcome[s],
         outcome'[t] = "ok" => tx'[t].st = "committed",
         outcome'[t] \in {"refused", "taken"} =>
           tx'[t].st \in {"open", "aborted"} /\ tx'[t].wire # "asked",
         outcome'[t] = "refused" => Missed(t)',
         outcome'[t] = "taken" => Conflicts(t)
  PROVE  PInv'
<1>1. TypeOK'
  BY DEF PInv, TypeOK
<1>2. t <= drawn /\ outcome[t] = "none"
  BY DEF PInv, CallOK
<1>3. \A s \in Tokens : JobOK(s)'
  <2> SUFFICES ASSUME NEW s \in Tokens PROVE JobOK(s)'
    OBVIOUS
  <2>1. s > drawn => s # t
    BY <1>2 DEF PInv, TypeOK, Tokens
  <2>2. JobOK(s)
    BY DEF PInv
  <2>3. job[s].op = "rotate" => outcome'[job[s].old] = "ok"
    BY <1>2, <2>2 DEF JobOK
  <2> QED BY <2>1, <2>2, <2>3 DEF JobOK
<1>4. \A s \in Tokens : s # t => TxOK(s)'
  BY DEF PInv, TxOK, Locked, Missed, Conflicts
<1>5. \A d \in Calls : d # c => CallOK(d)'
  <2> SUFFICES ASSUME NEW d \in Calls, d # c PROVE CallOK(d)'
    OBVIOUS
  <2>1. CallOK(d) /\ call'[d] = call[d] /\ t # NoToken
    BY DEF PInv, Tokens, NoToken
  <2>2. call[d].tok # t
    BY <2>1 DEF PInv, CallsDiffer
  <2> QED BY <2>1, <2>2 DEF CallOK, Missed, Conflicts
<1>6. CallsDiffer'
  BY DEF PInv, CallsDiffer
<1>7. LocksExclude'
  <2>1. \A s \in Tokens : Locked(s)' => Locked(s)
    BY DEF Locked
  <2> QED BY <2>1 DEF PInv, LocksExclude
<1>8. (rows \subseteq Committed)'
  BY DEF PInv, Committed
<1>9. AnswersAreTrue'
  BY DEF PInv, AnswersAreTrue, Running, Missed, Conflicts
<1>10. NoStaleExchange'
  BY DEF PInv, NoStaleExchange
<1>11. \A s \in Tokens : outcome'[s] = "taken" => job'[s].op = "register"
  BY DEF PInv, Conflicts
<1> QED BY <1>1, <1>3, <1>4, <1>5, <1>6, <1>7, <1>8, <1>9, <1>10, <1>11 DEF PInv

\* What a call that is on its way knows.
LEMMA Way ==
  ASSUME PInv, NEW c \in Calls, call[c].pc # "idle"
  PROVE  /\ call \in [Calls -> Call] /\ call[c] \in Call /\ call[c].tok \in Tokens
         /\ tx \in [Tokens -> Tx] /\ tx[call[c].tok] \in Tx /\ TxOK(call[c].tok)
         /\ call[c].tok <= drawn /\ outcome[call[c].tok] = "none"
         /\ outcome \in [Tokens -> Results]
         /\ NoToken \notin Tokens
BY DEF PInv, TypeOK, CallOK, Tokens, NoToken

LEMMA ReturnFacts ==
  ASSUME PInv, NEW c \in Calls, call[c].pc # "idle", NEW res \in Results, Return(c, res)
  PROVE  /\ UNCHANGED <<now, maxOpen, drawn, job, users, rows>>
         /\ call' \in [Calls -> Call] /\ \A d \in Calls : d # c => call'[d] = call[d]
         /\ call'[c] = Idle /\ CallOK(c)'
         /\ outcome' \in [Tokens -> Results] /\ outcome'[call[c].tok] = res
         /\ \A s \in Tokens : s # call[c].tok => outcome'[s] = outcome[s]
<1>1. Idle \in Call
  BY DEF Idle, Call, Results
<1>2. call' \in [Calls -> Call] /\ call'[c] = Idle /\ \A d \in Calls : d # c => call'[d] = call[d]
  BY <1>1, Way DEF Return
<1>3. /\ outcome' \in [Tokens -> Results] /\ outcome'[call[c].tok] = res
      /\ \A s \in Tokens : s # call[c].tok => outcome'[s] = outcome[s]
  BY Way DEF Return
<1>4. CallOK(c)'
  BY <1>2 DEF CallOK, Idle
<1> QED BY <1>2, <1>3, <1>4 DEF Return, given, tables

LEMMA LeaveFacts ==
  ASSUME PInv, NEW c \in Calls, call[c].pc # "idle",
         NEW res \in {"refused", "taken", "error"}, NEW conn \in {"held", "broken"},
         Leave(c, res, conn)
  PROVE  /\ UNCHANGED <<now, maxOpen, drawn, job, users, rows, outcome>>
         /\ call' \in [Calls -> Call] /\ \A d \in Calls : d # c => call'[d] = call[d]
         /\ call'[c].pc = "rollback" /\ call'[c].tok = call[c].tok /\ call'[c].res = res
<1>1. [call[c] EXCEPT !.pc = "rollback", !.res = res, !.conn = conn] \in Call
  <2>1. /\ "rollback" \in {"idle", "acquire", "statement", "rollback"}
        /\ res \in Results /\ conn \in {"none", "held", "broken"} /\ call[c] \in Call
    BY Way DEF Results
  <2> QED BY <2>1, Zenon DEF Call
<1>2. call' = [call EXCEPT ![c] = [call[c] EXCEPT !.pc = "rollback", !.res = res, !.conn = conn]]
  BY DEF Leave
<1>3. call'[c] = [call[c] EXCEPT !.pc = "rollback", !.res = res, !.conn = conn]
  BY <1>2, Way
<1>4. call'[c].pc = "rollback" /\ call'[c].tok = call[c].tok /\ call'[c].res = res
  BY <1>3, Way DEF Call
<1> QED BY <1>1, <1>2, <1>4, Way DEF Leave, given, tables

LEMMA BeginStep ==
  ASSUME PInv, NEW c \in Calls, Begin(c), NEW t \in Tokens, t = call[c].tok
  PROVE  PInv'
<1> DEFINE b == [st |-> "open", done |-> 0, began |-> now, wire |-> "asked"]
<1>1. call[c].pc = "acquire" /\ tx[t] = NoTx /\ now \in 0 .. MaxTime
  BY DEF Begin, PInv, CallOK, TypeOK
<1>2. t \in Tokens /\ b \in Tx
  BY <1>1, Way DEF Tx
<1>3. /\ tx' \in [Tokens -> Tx] /\ tx'[t] = b /\ \A s \in Tokens : s # t => tx'[s] = tx[s]
  BY <1>1, <1>2, Way DEF Begin
<1>4. [call[c] EXCEPT !.pc = "statement", !.conn = "held"] \in Call
  <2>1. /\ "statement" \in {"idle", "acquire", "statement", "rollback"}
        /\ "held" \in {"none", "held", "broken"} /\ call[c] \in Call
    BY <1>1, Way
  <2> QED BY <2>1, Zenon DEF Call
<1>5. /\ call' \in [Calls -> Call] /\ \A d \in Calls : d # c => call'[d] = call[d]
      /\ call'[c].pc = "statement" /\ call'[c].tok = t
  BY <1>1, <1>4, Way DEF Begin, Call
<1>6. UNCHANGED <<now, maxOpen, drawn, job, users, rows, outcome>>
  BY DEF Begin, given, tables
<1>7. CallOK(c)'
  BY <1>1, <1>2, <1>5, <1>6, Way DEF CallOK
<1>8. TxOK(t)' /\ ~Locked(t)'
  BY <1>3 DEF TxOK, Locked
<1>9. outcome[t] = "none" /\ outcome \in [Tokens -> Results]
  BY <1>1, Way
<1> QED BY <1>1, <1>2, <1>3, <1>5, <1>6, <1>7, <1>8, <1>9, ClientStep DEF NoTx

LEMMA BeginFailsStep ==
  ASSUME PInv, NEW c \in Calls, BeginFails(c), NEW t \in Tokens, t = call[c].tok
  PROVE  PInv'
<1>1. call[c].pc = "acquire" /\ Return(c, "error") /\ UNCHANGED tx /\ "error" \in Results
  BY DEF BeginFails, Results
<1>2. Missed(t)' <=> Missed(t)
  BY <1>1 DEF Missed, Return, given, tables
<1>3. TxOK(t)' /\ (Locked(t)' <=> Locked(t))
  BY <1>1, Way DEF Return, given, tables, TxOK, Locked, Missed, Conflicts
<1>4. call'[c].tok = NoToken
  BY <1>1, ReturnFacts DEF Idle
<1> QED BY <1>1, <1>3, <1>4, Way, ReturnFacts, ClientStep

LEMMA ReceiveStep ==
  ASSUME PInv, NEW c \in Calls, Receive(c), NEW t \in Tokens, t = call[c].tok
  PROVE  PInv'
<1>1. call[c].pc = "statement" /\ tx' = [tx EXCEPT ![t].wire = "none"]
  BY DEF Receive
<1>2. t \in Tokens /\ tx[t] \in Tx /\ TxOK(t) /\ outcome[t] = "none"
  BY <1>1, Way
<1>3. /\ tx' \in [Tokens -> Tx] /\ \A s \in Tokens : s # t => tx'[s] = tx[s]
      /\ tx'[t].wire = "none" /\ tx'[t].st = tx[t].st /\ tx'[t].began = tx[t].began
      /\ tx'[t].done = tx[t].done
      /\ tx'[t].st = "none" => tx'[t] = NoTx
  <2>1. [tx[t] EXCEPT !.wire = "none"] \in Tx
    BY <1>2 DEF Tx
  <2>2. tx'[t] = [tx[t] EXCEPT !.wire = "none"]
    BY <1>1, <1>2, Way
  <2>3. tx[t].st = "none" => tx[t] = NoTx
    BY <1>2 DEF TxOK
  <2> QED BY <1>1, <1>2, <2>1, <2>2, <2>3, Way DEF Tx, NoTx
<1>4. UNCHANGED <<now, maxOpen, drawn, job, users, rows>>
  BY DEF Receive, Return, Leave, given, tables
<1>5. /\ Locked(t)' <=> Locked(t)
      /\ Missed(t)' <=> Missed(t)
      /\ Conflicts(t)' <=> Conflicts(t)
  BY <1>3, <1>4 DEF Locked, Missed, Conflicts
<1>6. TxOK(t)'
  BY <1>2, <1>3, <1>4, <1>5 DEF TxOK
<1>7. CASE Wire(c) = "done" /\ Return(c, "ok")
  <2>1. tx[t].st = "committed" /\ "ok" \in Results
    BY <1>2, <1>7 DEF TxOK, Wire, Results
  <2> QED BY <1>1, <1>2, <1>3, <1>4, <1>5, <1>6, <1>7, <2>1, ReturnFacts, ClientStep DEF Idle
<1>8. ASSUME NEW res \in {"refused", "taken", "error"}, Leave(c, res, "held"),
             res = "refused" => Wire(c) = "zero", res = "taken" => Wire(c) = "duplicate"
      PROVE  PInv'
  <2>1. /\ res = "refused" => tx[t].st = "open" /\ Missed(t)
        /\ res = "taken" => tx[t].st = "aborted" /\ Conflicts(t)
    BY <1>2, <1>8 DEF TxOK, Wire
  <2>2. /\ call' \in [Calls -> Call] /\ \A d \in Calls : d # c => call'[d] = call[d]
        /\ call'[c].pc = "rollback" /\ call'[c].tok = t /\ call'[c].res = res
        /\ outcome' = outcome
    BY <1>1, <1>8, LeaveFacts
  <2>3. CallOK(c)'
    BY <1>1, <1>2, <1>3, <1>4, <1>5, <2>1, <2>2, Way DEF CallOK
  <2> QED BY <1>1, <1>2, <1>3, <1>4, <1>5, <1>6, <2>2, <2>3, Way, ClientStep
<1>9. mapUserInsertError(Wire(c), job[t].op) \in {"taken", "error"}
      /\ (mapUserInsertError(Wire(c), job[t].op) = "taken" => Wire(c) = "duplicate")
  BY DEF mapUserInsertError
<1> QED BY <1>7, <1>8, <1>9 DEF Receive

LEMMA BreakStep ==
  ASSUME PInv, NEW c \in Calls, Break(c), NEW t \in Tokens, t = call[c].tok
  PROVE  PInv'
<1> DEFINE w == IF tx[t].wire = "asked" THEN "asked" ELSE "none"
<1>1. call[c].pc = "statement" /\ tx' = [tx EXCEPT ![t].wire = w]
      /\ Leave(c, "error", "broken")
  BY DEF Break, Broken
<1>2. t \in Tokens /\ tx[t] \in Tx /\ TxOK(t) /\ outcome[t] = "none" /\ w \in {"none", "asked"}
  BY <1>1, Way
<1>3. /\ tx' \in [Tokens -> Tx] /\ \A s \in Tokens : s # t => tx'[s] = tx[s]
      /\ tx'[t].wire = w /\ tx'[t].st = tx[t].st /\ tx'[t].began = tx[t].began
      /\ tx'[t].done = tx[t].done
      /\ tx'[t].st = "none" => tx'[t] = NoTx
  <2>0. tx[t].st = "none" => tx[t] = NoTx /\ w = "none"
    BY <1>2 DEF TxOK
  <2> HIDE DEF w
  <2>1. [tx[t] EXCEPT !.wire = w] \in Tx
    BY <1>2 DEF Tx
  <2>2. tx'[t] = [tx[t] EXCEPT !.wire = w]
    BY <1>1, <1>2, Way
  <2> QED BY <1>1, <1>2, <2>0, <2>1, <2>2, Way DEF Tx, NoTx
<1>4. /\ UNCHANGED <<now, maxOpen, drawn, job, users, rows, outcome>>
      /\ call' \in [Calls -> Call] /\ \A d \in Calls : d # c => call'[d] = call[d]
      /\ call'[c].pc = "rollback" /\ call'[c].tok = t /\ call'[c].res = "error"
  BY <1>1, LeaveFacts
<1>5. Locked(t)' <=> Locked(t)
  BY <1>3, <1>4 DEF Locked
<1>6. TxOK(t)'
  BY <1>2, <1>3, <1>4, <1>5 DEF TxOK
<1>7. CallOK(c)'
  BY <1>1, <1>4, Way DEF CallOK
<1> HIDE DEF w
<1> QED BY <1>1, <1>2, <1>3, <1>4, <1>5, <1>6, <1>7, Way, ClientStep

LEMMA RollbackStep ==
  ASSUME PInv, NEW c \in Calls, rollbackSafely(c), NEW t \in Tokens, t = call[c].tok
  PROVE  PInv'
<1> DEFINE res == call[c].res
<1>1. call[c].pc = "rollback" /\ Return(c, res)
  BY DEF rollbackSafely
<1>2. /\ t \in Tokens /\ tx[t] \in Tx /\ TxOK(t) /\ tx \in [Tokens -> Tx]
      /\ res \in {"refused", "taken", "error"} /\ res \in Results
      /\ res \in {"refused", "taken"} => tx[t].st \in {"open", "aborted"} /\ tx[t].wire # "asked"
      /\ res = "refused" => Missed(t)
      /\ res = "taken" => Conflicts(t)
  BY <1>1, Way DEF PInv, CallOK, Results
<1>3. UNCHANGED <<now, maxOpen, drawn, job, users, rows>>
  BY <1>1 DEF Return, given, tables
<1>4. /\ tx' \in [Tokens -> Tx] /\ \A s \in Tokens : s # t => tx'[s] = tx[s]
      /\ tx'[t].began = tx[t].began
      /\ \/ UNCHANGED tx
         \/ tx[t].st = "open" /\ tx'[t].st = "aborted" /\ tx'[t].wire = "none"
  BY <1>2, EndedFacts DEF rollbackSafely
<1>5. (Locked(t)' => Locked(t)) /\ (Missed(t) => Missed(t)') /\ TxOK(t)'
  BY <1>2, <1>3, <1>4 DEF Locked, Missed, TxOK, Conflicts
<1> HIDE DEF res
<1>6. /\ call' \in [Calls -> Call] /\ \A d \in Calls : d # c => call'[d] = call[d]
      /\ call'[c].tok = NoToken /\ CallOK(c)'
      /\ outcome' \in [Tokens -> Results] /\ outcome'[t] = res
      /\ \A s \in Tokens : s # t => outcome'[s] = outcome[s]
  BY <1>1, <1>2, ReturnFacts DEF Idle
<1> QED BY <1>1, <1>2, <1>3, <1>4, <1>5, <1>6, ClientStep

-----------------------------------------------------------------------------
(* A call enters with a token that nobody has.                             *)

LEMMA FreshFacts ==
  ASSUME PInv, Fresh \in Tokens
  PROVE  /\ job[Fresh] = NoJob /\ tx[Fresh] = NoTx /\ outcome[Fresh] = "none"
         /\ Fresh \notin rows /\ drawn \in 0 .. MaxTokens
         /\ \A c \in Calls : call[c].tok # Fresh
         /\ \A s \in Tokens : job[s].op = "rotate" => job[s].old # Fresh
<1>1. drawn \in 0 .. MaxTokens /\ Fresh > drawn
  BY StoreConstants DEF PInv, TypeOK, Fresh
<1>2. job[Fresh] = NoJob /\ tx[Fresh] = NoTx /\ outcome[Fresh] = "none"
  BY <1>1 DEF PInv, JobOK
<1>3. Fresh \notin rows
  BY <1>2 DEF PInv, Committed, NoTx
<1>4. ASSUME NEW c \in Calls PROVE call[c].tok # Fresh
  <2>1. CASE call[c].pc = "idle"
    BY <1>1, <2>1 DEF PInv, CallOK, Idle, NoToken, Tokens
  <2>2. CASE call[c].pc # "idle"
    BY <1>1, <2>2 DEF PInv, CallOK, Tokens
  <2> QED BY <2>1, <2>2
<1>5. \A s \in Tokens : job[s].op = "rotate" => job[s].old # Fresh
  BY <1>2 DEF PInv, JobOK
<1> QED BY <1>1, <1>2, <1>3, <1>4, <1>5

LEMMA EnterStep ==
  ASSUME PInv, NEW c \in Calls, NEW j \in Job, Enter(c, j), NEW n \in Tokens, n = Fresh, j.op # "none",
         j.op = "rotate" => /\ j.old \in Tokens /\ outcome[j.old] = "ok"
                            /\ j.family = job[j.old].family /\ j.user = job[j.old].user
                            /\ j.email = NoEmail,
         j.op \in {"register", "save"} => j.old = NoToken /\ j.family = Fresh,
         j.op = "register" => j.email \in Emails /\ j.user \in Tokens,
         j.op = "save" => j.email = NoEmail
  PROVE  PInv'
<1>1. /\ call[c].pc = "idle" /\ n \in Tokens /\ drawn' = n
      /\ job' = [job EXCEPT ![n] = j]
      /\ call' = [call EXCEPT ![c].pc = "acquire", ![c].tok = n]
      /\ UNCHANGED <<now, maxOpen, tx, users, rows, outcome>>
  BY DEF Enter, tables
<1>2. /\ job[n] = NoJob /\ tx[n] = NoTx /\ outcome[n] = "none" /\ n \notin rows
      /\ n = drawn + 1 /\ drawn \in 0 .. MaxTokens
      /\ \A d \in Calls : call[d].tok # n
      /\ \A s \in Tokens : job[s].op = "rotate" => job[s].old # n
  BY <1>1, FreshFacts DEF Fresh
<1>3. /\ job' \in [Tokens -> Job] /\ job'[n] = j
      /\ \A s \in Tokens : s # n => job'[s] = job[s]
  BY <1>1 DEF PInv, TypeOK
<1>a. \A s \in Tokens : job[s].op = "rotate" => job'[job[s].old] = job[job[s].old]
  <2>1. \A s \in Tokens : job[s].op = "rotate" => job[s].old \in Tokens
    BY DEF PInv, JobOK
  <2> QED BY <1>2, <1>3, <2>1
<1>4. /\ call' \in [Calls -> Call] /\ \A d \in Calls : d # c => call'[d] = call[d]
      /\ call'[c].pc = "acquire" /\ call'[c].tok = n
  <2>1. call[c] = Idle /\ call \in [Calls -> Call]
    BY <1>1 DEF PInv, TypeOK, CallOK
  <2>2. [call[c] EXCEPT !.pc = "acquire", !.tok = n] \in Call
    BY <1>1, <2>1 DEF Idle, Call, Results
  <2> QED BY <1>1, <2>1, <2>2 DEF Idle
<1>5. TypeOK'
  BY <1>1, <1>3, <1>4, StoreConstants DEF PInv, TypeOK, Tokens
<1>6. \A s \in Tokens : JobOK(s)'
  <2> SUFFICES ASSUME NEW s \in Tokens PROVE JobOK(s)'
    OBVIOUS
  <2>1. CASE s = n
    <3>1. j.op = "rotate" => job'[j.old] = job[j.old]
      BY <1>2, <1>3
    <3>2. j.op \in {"register", "save"} => j.family = n
      OBVIOUS
    <3> QED BY <1>1, <1>2, <1>3, <2>1, <3>1, <3>2 DEF JobOK, Tokens
  <2>2. CASE s # n
    <3>1. JobOK(s) /\ job'[s] = job[s] /\ (job[s].op = "rotate" => job'[job[s].old] = job[job[s].old])
      BY <1>a, <1>3, <2>2 DEF PInv
    <3>2. (s > n => s > drawn) /\ (s <= n => s <= drawn)
      BY <1>2, <2>2 DEF Tokens
    <3> QED BY <1>1, <3>1, <3>2 DEF JobOK
  <2> QED BY <2>1, <2>2
<1>7. ASSUME NEW s \in Tokens, s # n
      PROVE  /\ Missed(s) => Missed(s)'
             /\ Conflicts(s) => Conflicts(s)'
             /\ Locked(s)' <=> Locked(s)
             /\ TxOK(s)'
  <2>1. job'[s] = job[s] /\ TxOK(s) /\ job[s].op \in Ops
    BY <1>3, <1>7 DEF PInv, TypeOK, Job
  <2>2. job[s].op = "rotate" => job'[job[s].old] = job[job[s].old]
    BY <1>a
  <2>3. job[s].op # "rotate" => job[s].old \notin rows
    BY PresentedCommitted
  <2>4. Missed(s) => Missed(s)'
    BY <1>1, <2>1, <2>2, <2>3 DEF Missed
  <2>5. (Conflicts(s) => Conflicts(s)') /\ (Locked(s)' <=> Locked(s))
    BY <1>1, <2>1 DEF Conflicts, Locked
  <2> QED BY <1>1, <2>1, <2>2, <2>4, <2>5 DEF TxOK, Locked
<1>8. TxOK(n)' /\ ~Locked(n)'
  BY <1>1, <1>2 DEF TxOK, Locked, NoTx
<1>9. \A d \in Calls : CallOK(d)'
  <2> SUFFICES ASSUME NEW d \in Calls PROVE CallOK(d)'
    OBVIOUS
  <2>1. CASE d = c
    BY <1>1, <1>2, <1>4, <2>1 DEF CallOK, Tokens
  <2>2. CASE d # c
    <3>1. CallOK(d) /\ call'[d] = call[d] /\ call[d].tok # n
      BY <1>2, <1>4, <2>2 DEF PInv
    <3>2. CASE call[d].pc = "idle"
      BY <3>1, <3>2 DEF CallOK
    <3>3. CASE call[d].pc # "idle"
      <4> DEFINE t == call[d].tok
      <4>1. t \in Tokens /\ t # n /\ t <= drawn /\ drawn <= n
        BY <1>2, <3>1, <3>3 DEF CallOK
      <4>2. t <= n
        BY <1>1, <1>2, <4>1 DEF Tokens
      <4> QED BY <1>1, <1>7, <3>1, <3>3, <4>1, <4>2 DEF CallOK, Missed, Conflicts
    <3> QED BY <3>2, <3>3
  <2> QED BY <2>1, <2>2
<1>10. CallsDiffer'
  BY <1>2, <1>4 DEF PInv, CallsDiffer
<1>11. LocksExclude'
  <2>1. \A s \in Tokens : Locked(s)' => s # n /\ Locked(s) /\ job'[s] = job[s]
    BY <1>3, <1>7, <1>8
  <2> QED BY <2>1 DEF PInv, LocksExclude
<1>12. (rows \subseteq Committed)'
  BY <1>1 DEF PInv, Committed
<1>13. \A s \in Tokens : outcome'[s] = "taken" => job'[s].op = "register"
  BY <1>1, <1>2, <1>3 DEF PInv
<1>14. AnswersAreTrue'
  <2> SUFFICES ASSUME NEW s \in Tokens, outcome[s] # "none"
               PROVE  /\ outcome[s] = "ok" => tx[s].st = "committed"
                      /\ outcome[s] \in {"refused", "taken"} => tx[s].st \in {"open", "aborted"} /\ ~Running(s)
                      /\ outcome[s] = "refused" => Missed(s)'
                      /\ outcome[s] = "taken" => users[job'[s].email] # NoToken
    BY <1>1 DEF AnswersAreTrue, Missed, Running
  <2>1. s # n /\ job'[s] = job[s]
    BY <1>2, <1>3
  <2>2. outcome[s] = "refused" => Missed(s)
    BY DEF PInv, AnswersAreTrue, Missed
  <2> QED BY <1>7, <2>1, <2>2 DEF PInv, AnswersAreTrue
<1>15. NoStaleExchange'
  <2> SUFFICES ASSUME NEW s \in Tokens, tx[s].st = "committed", job'[s].op = "rotate"
               PROVE  tx[s].began < job'[job'[s].old].exp
    BY <1>1 DEF NoStaleExchange
  <2>1. s # n /\ job'[s] = job[s]
    BY <1>2, <1>3 DEF NoTx
  <2>2. job'[job[s].old] = job[job[s].old]
    BY <1>a, <2>1
  <2> QED BY <2>1, <2>2 DEF PInv, NoStaleExchange
<1> QED BY <1>5, <1>6, <1>7, <1>8, <1>9, <1>10, <1>11, <1>12, <1>13, <1>14, <1>15 DEF PInv

LEMMA ArriveStep ==
  ASSUME PInv, NEW c \in Calls, Arrive(c)
  PROVE  PInv'
<1>1. now + RefreshTTL \in Nat
  BY StoreConstants DEF PInv, TypeOK
<1>2. ASSUME NEW e \in Emails, CreateUserWithRefreshToken(c, e) PROVE PInv'
  <2> DEFINE j == [op |-> "register", old |-> NoToken, email |-> e, user |-> Fresh,
                   family |-> Fresh, exp |-> now + RefreshTTL]
  <2>1. Enter(c, j) /\ Fresh \in Tokens
    BY <1>2 DEF CreateUserWithRefreshToken, Enter
  <2>2. j \in Job
    BY <1>1, <2>1 DEF Job, Ops
  <2> QED BY <2>1, <2>2, EnterStep
<1>3. ASSUME NEW e \in Emails, Save(c, e) PROVE PInv'
  <2> DEFINE j == [op |-> "save", old |-> NoToken, email |-> NoEmail, user |-> users[e],
                   family |-> Fresh, exp |-> now + RefreshTTL]
  <2>1. Enter(c, j) /\ Fresh \in Tokens
    BY <1>3 DEF Save, Enter
  <2>2. j \in Job
    BY <1>1, <2>1 DEF Job, Ops, PInv, TypeOK
  <2> QED BY <2>1, <2>2, EnterStep
<1>4. ASSUME NEW o \in Tokens, Rotate(c, o) PROVE PInv'
  <2> DEFINE j == [op |-> "rotate", old |-> o, email |-> NoEmail, user |-> job[o].user,
                   family |-> job[o].family, exp |-> now + RefreshTTL]
  <2>1. Enter(c, j) /\ outcome[o] = "ok" /\ Fresh \in Tokens
    BY <1>4 DEF Rotate, Enter
  <2>2. j \in Job
    BY <1>1, <2>1 DEF Job, Ops, PInv, TypeOK
  <2> QED BY <2>1, <2>2, EnterStep
<1> QED BY <1>2, <1>3, <1>4 DEF Arrive

\* The clock is read when a transaction begins and nowhere else.
LEMMA TickStep ==
  ASSUME PInv, UNCHANGED <<maxOpen, client, tx, tables>>, now' \in 0 .. MaxTime
  PROVE  PInv'
<1>1. UNCHANGED <<maxOpen, call, drawn, job, outcome, tx, users, rows>>
  BY DEF client, given, tables
<1>2. TypeOK' /\ (rows \subseteq Committed)' /\ AnswersAreTrue' /\ NoStaleExchange'
  BY <1>1 DEF PInv, TypeOK, Committed, AnswersAreTrue, Running, NoStaleExchange
<1>3. \A t \in Tokens : JobOK(t)' /\ TxOK(t)'
  BY <1>1 DEF PInv, JobOK, TxOK, Locked, Missed, Conflicts
<1>4. \A c \in Calls : CallOK(c)'
  BY <1>1 DEF PInv, CallOK, Missed, Conflicts
<1>5. CallsDiffer' /\ LocksExclude' /\ \A s \in Tokens : outcome'[s] = "taken" => job'[s].op = "register"
  BY <1>1 DEF PInv, CallsDiffer, LocksExclude, Locked
<1> QED BY <1>2, <1>3, <1>4, <1>5 DEF PInv

-----------------------------------------------------------------------------
LEMMA InitInv == Init => PInv
<1> SUFFICES ASSUME Init PROVE PInv
  OBVIOUS
<1>1. /\ \A t \in Tokens : job[t] = NoJob /\ tx[t] = NoTx /\ outcome[t] = "none"
      /\ \A c \in Calls : call[c] = Idle
      /\ rows = {} /\ drawn = 0
  BY DEF Init
<1>2. TypeOK
  <2>1. NoJob \in Job /\ NoTx \in Tx /\ Idle \in Call /\ "none" \in Results
    BY StoreConstants DEF NoJob, Job, NoTx, Tx, Idle, Call, Ops, Results
  <2> QED BY <2>1, StoreConstants DEF Init, TypeOK
<1>3. \A t \in Tokens : JobOK(t)
  BY <1>1 DEF JobOK, NoJob, Tokens
<1>4. \A t \in Tokens : TxOK(t) /\ ~Locked(t)
  BY <1>1 DEF TxOK, NoTx, Locked
<1>5. \A c \in Calls : CallOK(c)
  BY <1>1 DEF CallOK, Idle
<1>6. CallsDiffer /\ LocksExclude /\ rows \subseteq Committed
  BY <1>1, <1>4 DEF CallsDiffer, LocksExclude, Idle
<1>7. AnswersAreTrue /\ NoStaleExchange
  BY <1>1 DEF AnswersAreTrue, NoStaleExchange, NoTx
<1> QED BY <1>1, <1>2, <1>3, <1>4, <1>5, <1>6, <1>7 DEF PInv

LEMMA StepInv == PInv /\ [Next]_vars => PInv'
<1> SUFFICES ASSUME PInv, [Next]_vars PROVE PInv'
  OBVIOUS
<1>1. CASE Tick
  <2>1. now' \in 0 .. MaxTime
    BY <1>1, StoreConstants DEF Tick, PInv, TypeOK
  <2> QED BY <1>1, <2>1, TickStep DEF Tick
<1>2. CASE Rest \/ UNCHANGED vars
  BY <1>2, TickStep DEF Rest, vars, PInv, TypeOK
<1>3. ASSUME NEW c \in Calls, Begin(c) \/ BeginFails(c) \/ Step(c) \/ Break(c) PROVE PInv'
  <2>1. call[c].pc # "idle"
    BY <1>3 DEF Begin, BeginFails, Step, Receive, rollbackSafely, Break
  <2>2. PICK t \in Tokens : t = call[c].tok
    BY <2>1, Way
  <2> QED BY <1>3, <2>2, BeginStep, BeginFailsStep, ReceiveStep, BreakStep, RollbackStep DEF Step
<1>4. ASSUME NEW t \in Tokens, Execute(t) \/ Fails(t) \/ Reap(t) PROVE PInv'
  BY <1>4, DeleteTokenStep, InsertUserStep, InsertStep, CommitStep, AbortStep DEF Execute
<1> QED BY <1>1, <1>2, <1>3, <1>4, ArriveStep DEF Next

(***************************************************************************)
(* PInv holds in every state.                                              *)
(***************************************************************************)
THEOREM Inductive == Spec => []PInv
BY InitInv, StepInv, PTL DEF Spec

(***************************************************************************)
(* Every variable has its type.                                            *)
(***************************************************************************)
THEOREM TypeCorrect == Spec => []TypeOK
<1>1. PInv => TypeOK
  BY DEF PInv
<1> QED BY <1>1, Inductive, PTL

(***************************************************************************)
(* What a call returns is true and stays true, whatever broke on its way   *)
(* and whatever other transactions do.                                     *)
(***************************************************************************)
THEOREM AnswersTrue == Spec => []AnswersAreTrue
<1>1. PInv => AnswersAreTrue
  BY DEF PInv
<1> QED BY <1>1, Inductive, PTL

(***************************************************************************)
(* No transaction that waited for a lock consumes a token that had expired *)
(* when it began.                                                          *)
(***************************************************************************)
THEOREM NoStale == Spec => []NoStaleExchange
<1>1. PInv => NoStaleExchange
  BY DEF PInv
<1> QED BY <1>1, Inductive, PTL

-----------------------------------------------------------------------------
(* The refinement: a COMMIT is the step of Sessions, all else stutters.    *)

\* What Sessions sees of the tables is left alone.
Unseen ==
  /\ rows' = rows
  /\ \A t \in rows : job'[t].family = job[t].family
  /\ \A t \in Tokens : tx'[t].st = "committed" <=> tx[t].st = "committed"

LEMMA UnseenStutters ==
  ASSUME Unseen
  PROVE  UNCHANGED S!sessVars
<1>1. {<<job'[t].family, t>> : t \in rows} = {<<job[t].family, t>> : t \in rows}
  BY DEF Unseen
<1>2. Committed' = Committed
  BY DEF Unseen, Committed
<1> QED BY <1>1, <1>2 DEF S!sessVars, Unseen

LEMMA ServerUnseen ==
  ASSUME PInv, NEW t \in Tokens,
         DeleteToken(t) \/ InsertUser(t) \/ Insert(t) \/ Fails(t) \/ Reap(t)
  PROVE  Unseen
<1>1. UNCHANGED <<rows, job>>
  BY DEF DeleteToken, InsertUser, Insert, Fails, Reap, client, given, tables
<1>2. tx[t].st = "open" /\ tx \in [Tokens -> Tx] /\ tx[t] \in Tx
  BY DEF DeleteToken, InsertUser, Insert, Fails, Reap, Running, PInv, TypeOK
<1>3. Executed(t) \/ (\E a \in {"zero"} : Answered(t, a))
        \/ \E a \in {"none", "duplicate", "failed"} : Ended(t, "aborted", a)
  BY DEF DeleteToken, InsertUser, Insert, Fails, Reap
<1>4. tx'[t].st \in {"open", "aborted"} /\ \A s \in Tokens : s # t => tx'[s] = tx[s]
  BY <1>2, <1>3 DEF Executed, Answered, Ended, Tx
<1> QED BY <1>1, <1>2, <1>4 DEF Unseen

LEMMA ClientUnseen ==
  ASSUME PInv, NEW c \in Calls, NEW t \in Tokens, t = call[c].tok,
         Begin(c) \/ BeginFails(c) \/ Step(c) \/ Break(c)
  PROVE  Unseen
<1>1. UNCHANGED <<rows, job>>
  BY DEF Begin, BeginFails, Step, Receive, rollbackSafely, Break, Return, Leave, given, tables
<1>2. call[c].pc # "idle" /\ tx \in [Tokens -> Tx] /\ tx[t] \in Tx
  BY DEF Begin, BeginFails, Step, Receive, rollbackSafely, Break, PInv, TypeOK
<1>3. \A s \in Tokens : tx'[s].st = "committed" <=> tx[s].st = "committed"
  <2>1. CASE Begin(c)
    BY <1>2, <2>1 DEF Begin, PInv, CallOK, NoTx
  <2>2. CASE BeginFails(c)
    BY <2>2 DEF BeginFails
  <2>3. CASE Receive(c)
    BY <1>2, <2>3 DEF Receive, Tx
  <2>4. CASE rollbackSafely(c)
    BY <1>2, <2>4 DEF rollbackSafely, Ended, Tx
  <2>5. CASE Break(c)
    BY <1>2, <2>5 DEF Break, Broken, Tx
  <2> QED BY <2>1, <2>2, <2>3, <2>4, <2>5 DEF Step
<1> QED BY <1>1, <1>3 DEF Unseen

LEMMA ArriveUnseen ==
  ASSUME PInv, NEW c \in Calls, Arrive(c)
  PROVE  Unseen
<1>1. ASSUME NEW j, Enter(c, j) PROVE Unseen
  <2>1. Fresh \notin rows
    BY <1>1, FreshFacts DEF Enter
  <2> QED BY <1>1, <2>1 DEF Enter, Unseen, tables, PInv, TypeOK
<1> QED BY <1>1 DEF Arrive, CreateUserWithRefreshToken, Save, Rotate

\* A COMMIT enters its token, for the one it consumed when there was one.
LEMMA CommitFacts ==
  ASSUME PInv, NEW t \in Tokens, Commit(t)
  PROVE  /\ t \notin Committed /\ Committed' = Committed \cup {t}
         /\ job' = job /\ rows' = (rows \ {job[t].old}) \cup {t} /\ rows \subseteq Committed
         /\ \/ /\ job[t].old \in rows /\ job[t].old \in Tokens
               /\ job[t].family = job[job[t].old].family
            \/ job[t].old \notin rows /\ job[t].family = t
<1>1. /\ tx \in [Tokens -> Tx] /\ tx[t].st = "open" /\ Ended(t, "committed", "done")
      /\ job' = job /\ rows' = Writes(t) /\ job[t].op \in {"register", "rotate", "save"}
      /\ job[t].op = "rotate" => Locked(t)
  BY Program DEF Commit, Running, Locked, PInv, TypeOK, client, given
<1>2. tx'[t].st = "committed" /\ \A s \in Tokens : s # t => tx'[s] = tx[s]
  BY <1>1, EndedFacts
<1>3. CASE job[t].op = "rotate"
  BY <1>1, <1>2, <1>3 DEF Writes, Committed, PInv, TxOK, JobOK
<1>4. CASE job[t].op # "rotate"
  <2>1. job[t].old \notin rows /\ job[t].family = t
    BY <1>1, <1>4, PresentedCommitted DEF PInv, JobOK
  <2> QED BY <1>1, <1>2, <2>1 DEF Writes, Committed, PInv
<1> QED BY <1>3, <1>4

LEMMA CommitSeen ==
  ASSUME PInv, NEW t \in Tokens, Commit(t)
  PROVE  S!SessNext
<1> DEFINE old == job[t].old
           live == {<<job[s].family, s>> : s \in rows}
           spent == Committed \ rows
<1>1. /\ t \notin Committed /\ Committed' = Committed \cup {t} /\ rows \subseteq Committed
      /\ job' = job /\ rows' = (rows \ {old}) \cup {t}
  BY CommitFacts
<1>2. live' = {<<job[s].family, s>> : s \in (rows \ {old}) \cup {t}}
  BY <1>1
<1>3. S!Unused(t)
  <2>1. \A p \in live : p[2] # t
    BY <1>1
  <2> QED BY <1>1, <2>1 DEF S!Unused, S!LiveTokens
<1>4. CASE old \in rows /\ old \in Tokens /\ job[t].family = job[old].family
  <2> DEFINE p == <<job[old].family, old>>
  <2>1. p \in live
    BY <1>4
  <2>2. live' = (live \ {p}) \cup {<<job[old].family, t>>}
    BY <1>2, <1>4
  <2>3. spent' = spent \cup {old}
    BY <1>1, <1>4
  <2>4. S!Exchange(p, t)
    BY <1>3, <2>1, <2>2, <2>3 DEF S!Exchange
  <2> QED BY <2>1, <2>4 DEF S!SessNext
<1>5. CASE old \notin rows /\ job[t].family = t
  <2>1. live' = live \cup {<<t, t>>}
    BY <1>2, <1>5
  <2>2. spent' = spent
    BY <1>1, <1>5
  <2>3. S!Open(t)
    BY <1>3, <2>1, <2>2 DEF S!Open
  <2> QED BY <2>3 DEF S!SessNext
<1> QED BY <1>4, <1>5, CommitFacts

\* Every other step shows Sessions nothing.
LEMMA CommitOrUnseen ==
  ASSUME PInv, [Next]_vars
  PROVE  Unseen \/ \E t \in Tokens : Commit(t)
<1>1. CASE Tick \/ Rest \/ UNCHANGED vars
  BY <1>1 DEF Tick, Rest, vars, client, given, tables, Unseen
<1>2. ASSUME NEW c \in Calls, Begin(c) \/ BeginFails(c) \/ Step(c) \/ Break(c)
      PROVE  Unseen
  <2>1. call[c].pc # "idle"
    BY <1>2 DEF Begin, BeginFails, Step, Receive, rollbackSafely, Break
  <2>2. PICK t \in Tokens : t = call[c].tok
    BY <2>1, Way
  <2> QED BY <1>2, <2>2, ClientUnseen
<1>3. ASSUME NEW c \in Calls, Arrive(c) PROVE Unseen
  BY <1>3, ArriveUnseen
<1>4. ASSUME NEW t \in Tokens, Execute(t) \/ Fails(t) \/ Reap(t)
      PROVE  Unseen \/ Commit(t)
  BY <1>4, ServerUnseen DEF Execute
<1> QED BY <1>1, <1>2, <1>3, <1>4 DEF Next

(***************************************************************************)
(* The statements of concurrent transactions, on connections that break,   *)
(* exchange the live token of a session once and for an unseen one.        *)
(***************************************************************************)
THEOREM Refinement == FairSpec => ImplementsSessions
<1>1. Init => S!SessInit
  BY DEF Init, S!SessInit, Committed, NoTx
<1>2. PInv /\ [Next]_vars => [S!SessNext]_(S!sessVars)
  BY CommitOrUnseen, CommitSeen, UnseenStutters
<1> QED BY <1>1, <1>2, Inductive, PTL DEF FairSpec, Spec, ImplementsSessions, S!SessSpec

-----------------------------------------------------------------------------
(* What Sessions promises, of the tables.                                  *)

\* A session has one row, and goes by a token that was committed.
SessionsOK ==
  /\ \A s, t \in rows : job[s].family = job[t].family => s = t
  /\ \A t \in rows : job[t].family \in Committed

LEMMA SessionsStep == PInv /\ SessionsOK /\ [Next]_vars => SessionsOK'
<1> SUFFICES ASSUME PInv, SessionsOK, [Next]_vars PROVE SessionsOK'
  OBVIOUS
<1>1. CASE Unseen
  <2>1. Committed' = Committed
    BY <1>1 DEF Unseen, Committed
  <2> QED BY <1>1, <2>1 DEF Unseen, SessionsOK
<1>2. ASSUME NEW t \in Tokens, Commit(t) PROVE SessionsOK'
  <2>1. /\ t \notin Committed /\ Committed' = Committed \cup {t}
        /\ job' = job /\ rows' = (rows \ {job[t].old}) \cup {t}
        /\ \/ job[t].old \in rows /\ job[t].family = job[job[t].old].family
           \/ job[t].family = t
    BY <1>2, CommitFacts
  <2> QED BY <2>1 DEF SessionsOK
<1> QED BY <1>1, <1>2, CommitOrUnseen

\* The tokens that were rows and are rows no more.
Consumed == Committed \ rows

\* A commit makes a row of its own token, which was never one before.
LEMMA NothingComesBack ==
  ASSUME PInv, [Next]_vars
  PROVE  Consumed \subseteq Consumed'
<1>1. CASE Unseen
  BY <1>1 DEF Unseen, Consumed, Committed
<1>2. ASSUME NEW t \in Tokens, Commit(t) PROVE Consumed \subseteq Consumed'
  <2>1. /\ t \notin Committed /\ Committed' = Committed \cup {t}
        /\ rows' = (rows \ {job[t].old}) \cup {t}
    BY <1>2, CommitFacts
  <2> QED BY <2>1 DEF Consumed
<1> QED BY <1>1, <1>2, CommitOrUnseen

(***************************************************************************)
(* The promise of Sessions, said of the table: however the statements of   *)
(* the calls interleave, and whichever COMMITs are abandoned, no two rows  *)
(* continue one session, and a token whose row a transaction has deleted   *)
(* is never a row again.                                                   *)
(***************************************************************************)
THEOREM PromiseKept ==
  Spec => [](S!OneTokenPerSession) /\ [][Consumed \subseteq Consumed']_vars
<1>1. Init => SessionsOK
  BY DEF Init, SessionsOK
<1>2. SessionsOK => S!OneTokenPerSession
  BY DEF S!OneTokenPerSession, SessionsOK
<1>3. PInv /\ [Next]_vars => Consumed \subseteq Consumed'
  BY NothingComesBack
<1> QED BY <1>1, <1>2, <1>3, SessionsStep, Inductive, PTL DEF Spec

-----------------------------------------------------------------------------
(* The addresses.  A registration that has inserted its user has the       *)
(* address in the unique index to itself until its transaction ends.       *)

Holds(t) == tx[t].st = "open" /\ job[t].op = "register" /\ tx[t].done > 0

AddressesOK ==
  /\ \A t \in Tokens : Holds(t) => users[job[t].email] = NoToken
  /\ \A s, t \in Tokens : Holds(s) /\ Holds(t) /\ job[s].email = job[t].email => s = t

\* Nobody gets an address, and those who had one keep it or let it go.
OnlyLetsGo ==
  /\ users' = users
  /\ \A t \in Tokens : Holds(t)' => Holds(t) /\ job'[t] = job[t]

LEMMA LettingGoKeeps == ASSUME AddressesOK, OnlyLetsGo PROVE AddressesOK'
BY DEF AddressesOK, OnlyLetsGo

LEMMA ClientLetsGo ==
  ASSUME PInv, NEW c \in Calls, NEW t \in Tokens, t = call[c].tok,
         Begin(c) \/ BeginFails(c) \/ Step(c) \/ Break(c)
  PROVE  OnlyLetsGo
<1>1. UNCHANGED <<users, job>>
  BY DEF Begin, BeginFails, Step, Receive, rollbackSafely, Break, Return, Leave, given, tables
<1>2. tx \in [Tokens -> Tx] /\ tx[t] \in Tx
  BY DEF PInv, TypeOK
<1>3. \A s \in Tokens : Holds(s)' => Holds(s)
  <2>1. CASE Begin(c)
    BY <1>1, <1>2, <2>1 DEF Begin, Holds
  <2>2. CASE BeginFails(c)
    BY <1>1, <2>2 DEF BeginFails, Holds
  <2>3. CASE Receive(c)
    BY <1>1, <1>2, <2>3 DEF Receive, Holds, Tx
  <2>4. CASE rollbackSafely(c)
    BY <1>1, <1>2, <2>4 DEF rollbackSafely, Ended, Holds, Tx
  <2>5. CASE Break(c)
    BY <1>1, <1>2, <2>5 DEF Break, Broken, Holds, Tx
  <2> QED BY <2>1, <2>2, <2>3, <2>4, <2>5 DEF Step
<1> QED BY <1>1, <1>3 DEF OnlyLetsGo

LEMMA ArriveLetsGo ==
  ASSUME PInv, NEW c \in Calls, Arrive(c)
  PROVE  OnlyLetsGo
<1>1. ASSUME NEW j, Enter(c, j) PROVE OnlyLetsGo
  <2>1. /\ Fresh \in Tokens /\ tx[Fresh] = NoTx /\ tx' = tx /\ users' = users
        /\ job \in [Tokens -> Job] /\ job' = [job EXCEPT ![Fresh] = j]
    BY <1>1, FreshFacts DEF Enter, tables, PInv, TypeOK
  <2> QED BY <2>1 DEF OnlyLetsGo, Holds, NoTx
<1> QED BY <1>1 DEF Arrive, CreateUserWithRefreshToken, Save, Rotate

\* Two registrations of one address wait for each other at the index.
LEMMA InsertUserTakesAddress ==
  ASSUME PInv, AddressesOK, NEW t \in Tokens, InsertUser(t)
  PROVE  AddressesOK'
<1>1. /\ tx \in [Tokens -> Tx] /\ tx[t] \in Tx /\ tx[t].st = "open" /\ tx[t].done = 0
      /\ job[t].op = "register" /\ UNCHANGED <<users, job>>
      /\ \A s \in Tokens : ~Blocks(s, t)
  BY Program DEF InsertUser, Running, PInv, TypeOK, client, given, tables
<1>2. CASE Ended(t, "aborted", "duplicate")
  BY <1>1, <1>2, LettingGoKeeps DEF Ended, OnlyLetsGo, Holds
<1>3. CASE Executed(t) /\ users[job[t].email] = NoToken
  <2>1. \A s \in Tokens : s # t => tx'[s] = tx[s] /\ (Holds(s)' <=> Holds(s))
    BY <1>1, <1>3 DEF Executed, Holds
  <2>2. \A s \in Tokens : s # t /\ Holds(s) => job[s].email # job[t].email
    BY <1>1 DEF Blocks, Holds, PInv, JobOK
  <2> QED BY <1>1, <1>3, <2>1, <2>2 DEF AddressesOK
<1> QED BY <1>2, <1>3 DEF InsertUser

LEMMA ServerLetsGo ==
  ASSUME PInv, NEW t \in Tokens, DeleteToken(t) \/ Insert(t) \/ Fails(t) \/ Reap(t)
  PROVE  OnlyLetsGo
<1>1. /\ tx \in [Tokens -> Tx] /\ tx[t] \in Tx /\ tx[t].st = "open"
      /\ UNCHANGED <<users, job>>
  BY DEF DeleteToken, Insert, Fails, Reap, Running, PInv, TypeOK, client, given, tables
<1>2. CASE DeleteToken(t)
  <2>1. job[t].op = "rotate"
    BY <1>1, <1>2, Program DEF DeleteToken
  <2> QED BY <1>1, <1>2, <2>1 DEF DeleteToken, Executed, Answered, OnlyLetsGo, Holds
<1>3. CASE Insert(t)
  <2>1. tx[t].done > 0
    BY <1>1, <1>3, Program DEF Insert
  <2> QED BY <1>1, <1>3, <2>1 DEF Insert, Executed, OnlyLetsGo, Holds
<1>4. CASE Fails(t) \/ Reap(t)
  <2>1. \E a \in {"none", "failed"} : Ended(t, "aborted", a)
    BY <1>4 DEF Fails, Reap
  <2> QED BY <1>1, <2>1 DEF Ended, OnlyLetsGo, Holds
<1> QED BY <1>2, <1>3, <1>4

\* Only a COMMIT writes the users, and it writes an address nobody had.
LEMMA CommitTakesFreeAddress ==
  ASSUME PInv, AddressesOK, NEW t \in Tokens, Commit(t)
  PROVE  /\ AddressesOK'
         /\ \A e \in Emails : users[e] # NoToken => users'[e] = users[e]
<1>1. /\ tx \in [Tokens -> Tx] /\ tx[t].st = "open" /\ Ended(t, "committed", "done") /\ job' = job
      /\ users' = [e \in Emails |-> IF e = job[t].email THEN job[t].user ELSE users[e]]
      /\ job[t].op = "register" => tx[t].done > 0
      /\ job[t].op \in {"register", "rotate", "save"}
  BY Program DEF Commit, Running, PInv, TypeOK, client, given
<1>2. tx'[t].st = "committed" /\ \A s \in Tokens : s # t => tx'[s] = tx[s]
  BY <1>1, EndedFacts
<1>3. \A s \in Tokens : Holds(s)' => s # t /\ Holds(s) /\ job[s].email \in Emails
  BY <1>1, <1>2 DEF Holds, PInv, JobOK
<1>4. CASE job[t].op = "register"
  <2>1. Holds(t)
    BY <1>1, <1>4 DEF Holds
  <2> QED BY <1>1, <1>3, <2>1 DEF AddressesOK
<1>5. CASE job[t].op # "register"
  <2>1. job[t].email = NoEmail
    BY <1>1, <1>5 DEF PInv, JobOK
  <2>2. \A e \in Emails : users'[e] = users[e]
    BY <1>1, <2>1, StoreConstants
  <2> QED BY <1>1, <1>3, <2>2 DEF AddressesOK
<1> QED BY <1>4, <1>5

LEMMA AddressesStep ==
  ASSUME PInv, AddressesOK, [Next]_vars
  PROVE  /\ AddressesOK'
         /\ \A e \in Emails : users[e] # NoToken => users'[e] = users[e]
<1>1. ASSUME OnlyLetsGo
      PROVE  AddressesOK' /\ \A e \in Emails : users[e] # NoToken => users'[e] = users[e]
  BY <1>1, LettingGoKeeps DEF OnlyLetsGo
<1>2. CASE Tick \/ Rest \/ UNCHANGED vars
  BY <1>1, <1>2 DEF Tick, Rest, vars, client, given, tables, OnlyLetsGo, Holds
<1>3. ASSUME NEW c \in Calls, Begin(c) \/ BeginFails(c) \/ Step(c) \/ Break(c)
      PROVE  OnlyLetsGo
  <2>1. call[c].pc # "idle"
    BY <1>3 DEF Begin, BeginFails, Step, Receive, rollbackSafely, Break
  <2>2. PICK t \in Tokens : t = call[c].tok
    BY <2>1, Way
  <2> QED BY <1>3, <2>2, ClientLetsGo
<1>4. ASSUME NEW t \in Tokens, InsertUser(t)
      PROVE  AddressesOK' /\ users' = users
  BY <1>4, InsertUserTakesAddress DEF InsertUser, tables
<1> QED BY <1>1, <1>2, <1>3, <1>4, ArriveLetsGo, ServerLetsGo, CommitTakesFreeAddress DEF Next, Execute

(***************************************************************************)
(* An address belongs to the first registration that commits it.  No other *)
(* registration takes it over, however their statements interleave and     *)
(* whichever of their connections break: the unique index of users holds   *)
(* the second INSERT back until the first has ended.                       *)
(***************************************************************************)
THEOREM AddressIsKept ==
  Spec => [][\A e \in Emails : users[e] # NoToken => users'[e] = users[e]]_vars
<1>1. Init => AddressesOK
  BY DEF Init, AddressesOK, Holds, NoTx
<1>2. PInv /\ AddressesOK /\ [Next]_vars => AddressesOK'
  BY AddressesStep
<1>3. PInv /\ AddressesOK /\ [Next]_vars =>
        [\A e \in Emails : users[e] # NoToken => users'[e] = users[e]]_vars
  BY AddressesStep
<1> QED BY <1>1, <1>2, <1>3, Inductive, PTL DEF Spec
-----------------------------------------------------------------------------
(* Nobody waits for everybody: what a call or a transaction waits for is   *)
(* held by one that does not wait for the like.                            *)

\* The next statement of t needs what the open transaction of s has taken.
WaitsFor(t, s) ==
  Running(t) /\ NextStatement(t) \in {"delete_token", "insert_user"} /\ Blocks(s, t)

(***************************************************************************)
(* No transaction that holds a lock waits for another: each takes its one  *)
(* contended lock with its first statement, the DELETE of a rotation and   *)
(* the INSERT of a user, so that no cycle of waits can close.              *)
(***************************************************************************)
THEOREM NoLockCycle ==
  Spec => []\A s, t, u \in Tokens : ~(WaitsFor(t, s) /\ WaitsFor(s, u))
<1>1. PInv => \A s, t, u \in Tokens : ~(WaitsFor(t, s) /\ WaitsFor(s, u))
  <2> SUFFICES ASSUME PInv, NEW s \in Tokens, NEW t \in Tokens, NEW u \in Tokens,
                      WaitsFor(t, s), WaitsFor(s, u)
               PROVE  FALSE
    OBVIOUS
  <2>1. tx[s].st = "open" /\ tx[s].done > 0
    BY DEF WaitsFor, Blocks
  <2>2. NextStatement(s) \in {"delete_token", "insert_user"}
    BY DEF WaitsFor
  <2>3. tx[s].done = 0
    BY <2>1, <2>2, Program
  <2> QED BY <2>1, <2>3
<1> QED BY <1>1, Inductive, PTL

\* The calls that have a connection of the pool, a broken one included.
Holders == {c \in Calls : call[c].conn # "none"}

PoolOK ==
  /\ \A c \in Calls : call[c].pc \in {"statement", "rollback"} => call[c].conn # "none"
  /\ IsFiniteSet(Holders) /\ Cardinality(Holders) <= maxOpen

\* A step in which no call gets a connection.
LEMMA PoolShrinks ==
  ASSUME PoolOK, maxOpen \in Nat, maxOpen' = maxOpen, Holders' \subseteq Holders,
         \A c \in Calls : call'[c].pc \in {"statement", "rollback"} => call'[c].conn # "none"
  PROVE  PoolOK'
<1>1. IsFiniteSet(Holders') /\ Cardinality(Holders') <= Cardinality(Holders)
  BY FS_Subset DEF PoolOK
<1>2. Cardinality(Holders) \in Nat /\ Cardinality(Holders') \in Nat
  BY <1>1, FS_CardinalityType DEF PoolOK
<1>3. IsFiniteSet(Holders)' /\ (Cardinality(Holders) <= maxOpen)'
  BY <1>1, <1>2 DEF PoolOK
<1> QED BY <1>3 DEF PoolOK

LEMMA PoolStep == PInv /\ PoolOK /\ [Next]_vars => PoolOK'
<1> SUFFICES ASSUME PInv, PoolOK, [Next]_vars PROVE PoolOK'
  OBVIOUS
<1>1. call \in [Calls -> Call] /\ maxOpen \in Nat
  BY StoreConstants DEF PInv, TypeOK
<1>2. CASE UNCHANGED <<call, maxOpen>>
  <2>1. Holders' = Holders
    BY <1>2 DEF Holders
  <2> QED BY <1>1, <1>2, <2>1, PoolShrinks DEF PoolOK
<1>3. ASSUME NEW c \in Calls, Begin(c) PROVE PoolOK'
  <2>1. /\ call' = [call EXCEPT ![c].pc = "statement", ![c].conn = "held"]
        /\ Cardinality(Holders) < maxOpen /\ maxOpen' = maxOpen
    BY <1>3 DEF Begin, InUse, Holders
  <2>2. Holders' = Holders \cup {c}
    BY <1>1, <2>1 DEF Holders, Call
  <2>3. /\ IsFiniteSet(Holders \cup {c}) /\ Cardinality(Holders) \in Nat
        /\ Cardinality(Holders \cup {c}) <= Cardinality(Holders) + 1
        /\ Cardinality(Holders \cup {c}) \in Nat
    <3>1. IsFiniteSet(Holders) /\ Cardinality(Holders) \in Nat
      BY FS_CardinalityType DEF PoolOK
    <3>2. /\ IsFiniteSet(Holders \cup {c})
          /\ \/ Cardinality(Holders \cup {c}) = Cardinality(Holders)
             \/ Cardinality(Holders \cup {c}) = Cardinality(Holders) + 1
      BY <3>1, FS_AddElement, Zenon
    <3> QED BY <3>1, <3>2
  <2>4. IsFiniteSet(Holders)' /\ (Cardinality(Holders) <= maxOpen)'
    BY <1>1, <2>1, <2>2, <2>3
  <2>5. \A d \in Calls : call'[d].pc \in {"statement", "rollback"} => call'[d].conn # "none"
    BY <1>1, <2>1 DEF PoolOK, Call
  <2> QED BY <2>4, <2>5 DEF PoolOK
<1>4. ASSUME NEW c \in Calls, Arrive(c) PROVE PoolOK'
  <2>1. /\ maxOpen' = maxOpen
        /\ call' = [call EXCEPT ![c].pc = "acquire", ![c].tok = Fresh]
    BY <1>4 DEF Arrive, CreateUserWithRefreshToken, Save, Rotate, Enter
  <2>2. /\ Holders' \subseteq Holders
        /\ \A d \in Calls : call'[d].pc \in {"statement", "rollback"} => call'[d].conn # "none"
    BY <1>1, <2>1 DEF Holders, PoolOK, Call
  <2> QED BY <1>1, <2>1, <2>2, PoolShrinks
<1>5. ASSUME NEW c \in Calls, NEW res, Return(c, res) PROVE PoolOK'
  <2>1. /\ Holders' \subseteq Holders /\ maxOpen' = maxOpen
        /\ \A d \in Calls : call'[d].pc \in {"statement", "rollback"} => call'[d].conn # "none"
    BY <1>1, <1>5 DEF Return, Holders, PoolOK, Idle
  <2> QED BY <1>1, <2>1, PoolShrinks
<1>6. ASSUME NEW c \in Calls, call[c].pc = "statement",
             NEW res, NEW conn \in {"held", "broken"}, Leave(c, res, conn)
      PROVE  PoolOK'
  <2>1. /\ Holders' \subseteq Holders /\ maxOpen' = maxOpen
        /\ \A d \in Calls : call'[d].pc \in {"statement", "rollback"} => call'[d].conn # "none"
    BY <1>1, <1>6 DEF Leave, Holders, PoolOK, Call
  <2> QED BY <1>1, <2>1, PoolShrinks
<1>7. ASSUME NEW c \in Calls, BeginFails(c) \/ Step(c) \/ Break(c) PROVE PoolOK'
  BY <1>5, <1>6, <1>7 DEF BeginFails, Step, Receive, rollbackSafely, Break
<1>8. ASSUME NEW t \in Tokens, Execute(t) \/ Fails(t) \/ Reap(t)
      PROVE  UNCHANGED <<call, maxOpen>>
  BY <1>8 DEF Execute, DeleteToken, InsertUser, Insert, Commit, Fails, Reap, client
<1>9. CASE Tick \/ Rest \/ UNCHANGED vars
  BY <1>2, <1>9 DEF Tick, Rest, vars, client
<1> QED BY <1>2, <1>3, <1>4, <1>7, <1>8, <1>9 DEF Next

(***************************************************************************)
(* The calls never hold more connections than MaxOpenConns, the broken     *)
(* ones that are not given back yet included, and a call that has returned *)
(* holds none: no error path leaks a connection.                           *)
(***************************************************************************)
THEOREM PoolBounded ==
  Spec => [](/\ Cardinality(Holders) <= maxOpen
             /\ \A c \in Calls : call[c].pc = "idle" => c \notin Holders)
<1>1. Init => PoolOK
  <2> SUFFICES ASSUME Init PROVE PoolOK
    OBVIOUS
  <2>1. Holders = {} /\ maxOpen \in Nat
    BY StoreConstants DEF Init, Holders, Idle
  <2>2. \A c \in Calls : call[c].pc = "idle"
    BY DEF Init, Idle
  <2> QED BY <2>1, <2>2, FS_EmptySet DEF PoolOK
<1>2. PInv /\ PoolOK =>
        /\ Cardinality(Holders) <= maxOpen
        /\ \A c \in Calls : call[c].pc = "idle" => c \notin Holders
  BY DEF PInv, PoolOK, CallOK, Holders, Idle
<1> QED BY <1>1, <1>2, PoolStep, Inductive, PTL DEF Spec
=============================================================================
