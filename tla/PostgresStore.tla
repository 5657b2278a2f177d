--------------------------- MODULE PostgresStore ---------------------------
(***************************************************************************)
(* The postgres stores of data/identity/postgres/postgres.go, statement by *)
(* statement: what Identity takes for one atomic step each.  A call takes  *)
(* a connection of the pool, sends the statements of its transaction one   *)
(* by one and gives the connection back.  The server executes them under   *)
(* READ COMMITTED with its row and index locks.  A connection may break at *)
(* any statement; the transaction the caller has left then stays with the  *)
(* server, which may still execute what it was sent, a COMMIT included.    *)
(***************************************************************************)
EXTENDS Naturals, FiniteSets, Sequences

CONSTANTS
  Calls,       \* the calls of the stores that run at a time
  Emails, NoEmail,
  PoolSizes,   \* the values of cfg.Database.MaxOpenConns
  RefreshTTL,
  MaxTokens,   \* bound: the pairs that are generated
  MaxTime      \* bound: the clock stops here

ASSUME StoreConstants ==
  /\ NoEmail \notin Emails
  /\ PoolSizes \subseteq Nat \ {0}
  /\ RefreshTTL \in Nat \ {0} /\ MaxTokens \in Nat /\ MaxTime \in Nat

VARIABLES
  now,
  maxOpen,     \* cfg.Database.MaxOpenConns
  call,        \* the calls: what the process knows
  drawn,       \* how many tokens have been generated
  job,         \* token -> the call that would enter it, see Job
  tx,          \* token -> the transaction of that call: what the server knows
  users,       \* the committed table users: address -> id
  rows,        \* the committed table refresh_tokens
  outcome      \* token -> what its call has returned

given  == <<drawn, job>>
client == <<call, given, outcome>>
tables == <<users, rows>>
vars == <<now, maxOpen, client, tx, tables>>

\* Tokens and ids are random; they are numbered in the order they are drawn.
\* A user goes by the number of the token he registers with.
Tokens == 1 .. MaxTokens
NoToken == 0

Ops == {"none", "register", "save", "rotate"}
Results == {"none", "ok", "refused", "taken", "error"}

Job == [op : Ops, old : Tokens \cup {NoToken}, email : Emails \cup {NoEmail},
        user : Tokens \cup {NoToken}, family : Tokens \cup {NoToken}, exp : Nat]
NoJob == [op |-> "none", old |-> NoToken, email |-> NoEmail, user |-> NoToken,
          family |-> NoToken, exp |-> 0]

\* wire: a statement is on its way or waits ("asked"), or the answer is that
\* makes the call go another way than to its next statement.
Tx == [st : {"none", "open", "committed", "aborted"}, done : 0 .. 3, began : 0 .. MaxTime,
       wire : {"none", "asked", "done", "zero", "duplicate", "failed"}]
NoTx == [st |-> "none", done |-> 0, began |-> 0, wire |-> "none"]

Call == [pc : {"idle", "acquire", "statement", "rollback"}, tok : Tokens \cup {NoToken},
         conn : {"none", "held", "broken"}, res : Results]
Idle == [pc |-> "idle", tok |-> NoToken, conn |-> "none", res |-> "none"]

Statements(op) ==
  CASE op = "register" -> <<"insert_user", "assign_role", "insert_token", "commit">>
    [] op = "rotate"   -> <<"delete_token", "insert_token", "commit">>
    [] op = "save"     -> <<"insert_and_commit">>
    [] OTHER           -> <<>>

\* The statement the transaction of t executes next.
NextStatement(t) == Statements(job[t].op)[tx[t].done + 1]

Fresh == drawn + 1

-----------------------------------------------------------------------------
(* The calls of the use cases                                              *)

Enter(c, j) ==
  /\ call[c].pc = "idle"
  /\ Fresh \in Tokens
  /\ drawn' = Fresh
  /\ job' = [job EXCEPT ![Fresh] = j]
  /\ call' = [call EXCEPT ![c].pc = "acquire", ![c].tok = Fresh]
  /\ UNCHANGED <<now, maxOpen, tx, tables, outcome>>

CreateUserWithRefreshToken(c, e) ==
  Enter(c, [op |-> "register", old |-> NoToken, email |-> e, user |-> Fresh,
            family |-> Fresh, exp |-> now + RefreshTTL])

\* Login has found the user.
Save(c, e) ==
  /\ users[e] # NoToken
  /\ Enter(c, [op |-> "save", old |-> NoToken, email |-> NoEmail, user |-> users[e],
               family |-> Fresh, exp |-> now + RefreshTTL])

\* The token was given to a client, and its JWT has not expired.
Rotate(c, o) ==
  /\ outcome[o] = "ok" /\ now < job[o].exp
  /\ Enter(c, [op |-> "rotate", old |-> o, email |-> NoEmail, user |-> job[o].user,
               family |-> job[o].family, exp |-> now + RefreshTTL])

-----------------------------------------------------------------------------
(* The connections, and what the server makes of a transaction             *)

InUse == Cardinality({c \in Calls : call[c].conn # "none"})

\* Nobody is left at the other end of the connection.
Abandoned(t) == \A c \in Calls : call[c].tok = t => call[c].conn # "held"
Heard(t, answer) == IF Abandoned(t) THEN "none" ELSE answer

\* The call sends its next statement, as if it did so at once: what breaks
\* before it is sent may as well break before it is executed.
Executed(t) == tx' = [tx EXCEPT ![t].done = tx[t].done + 1, ![t].wire = Heard(t, "asked")]
Answered(t, answer) == tx' = [tx EXCEPT ![t].wire = Heard(t, answer)]
Ended(t, st, answer) ==
  tx' = [tx EXCEPT ![t].st = st, ![t].done = 0, ![t].wire = Heard(t, answer)]

-----------------------------------------------------------------------------
(* The way of a call                                                       *)

\* The call returns, and its connection is back in the pool or closed.
Return(c, res) ==
  /\ call' = [call EXCEPT ![c] = Idle]
  /\ outcome' = [outcome EXCEPT ![call[c].tok] = res]
  /\ UNCHANGED <<now, maxOpen, given, tables>>

\* The call leaves its transaction; rollbackSafely is deferred.
Leave(c, res, conn) ==
  /\ call' = [call EXCEPT ![c].pc = "rollback", ![c].res = res, ![c].conn = conn]
  /\ UNCHANGED <<now, maxOpen, given, tables, outcome>>

\* pool.Begin: a connection of the pool, on which the transaction begins, or
\* the error of a context that is done or of a server that cannot be reached.
Begin(c) ==
  /\ call[c].pc = "acquire"
  /\ InUse < maxOpen
  /\ call' = [call EXCEPT ![c].pc = "statement", ![c].conn = "held"]
  /\ tx' = [tx EXCEPT ![call[c].tok] =
              [st |-> "open", done |-> 0, began |-> now, wire |-> "asked"]]
  /\ UNCHANGED <<now, maxOpen, given, tables, outcome>>

BeginFails(c) == call[c].pc = "acquire" /\ Return(c, "error") /\ UNCHANGED tx

Wire(c) == tx[call[c].tok].wire

\* 23505 of users_email_key, and no other error.
mapUserInsertError(wire, op) == IF wire = "duplicate" THEN "taken" ELSE "error"

\* The answer that ends the call has come.
Receive(c) ==
  LET t == call[c].tok IN
  /\ call[c].pc = "statement"
  /\ \/ Wire(c) = "done" /\ Return(c, "ok")
     \/ Wire(c) = "zero" /\ Leave(c, "refused", "held")       \* RowsAffected() != 1
     \/ /\ Wire(c) \in {"duplicate", "failed"}
        /\ Leave(c, mapUserInsertError(Wire(c), job[t].op), "held")
  /\ tx' = [tx EXCEPT ![t].wire = "none"]

\* What is under way when a connection breaks stays with the server.
Broken(t) == tx' = [tx EXCEPT ![t].wire = IF tx[t].wire = "asked" THEN "asked" ELSE "none"]

\* Mutant: the error of a COMMIT is dropped.
BreakUnheard(c) ==
  /\ call[c].pc = "statement"
  /\ IF NextStatement(call[c].tok) = "commit" THEN Return(c, "ok") ELSE Leave(c, "error", "broken")
  /\ Broken(call[c].tok)
\* The context ends or the connection fails while the call waits for an answer:
\* pgx closes the connection and the call returns an error.  When it is the
\* process that dies, nobody hears of the error.
Break(c) ==
  /\ call[c].pc = "statement"
  /\ Leave(c, "error", "broken")
  /\ Broken(call[c].tok)

\* Mutant: no deferred rollback, a call that leaves early keeps its connection.
KeepsConnection(c) ==
  /\ call[c].pc = "rollback"
  /\ call' = [call EXCEPT ![c].pc = "idle", ![c].res = "none"]
  /\ outcome' = [outcome EXCEPT ![call[c].tok] = call[c].res]
  /\ UNCHANGED <<now, maxOpen, given, tx, tables>>
\* ROLLBACK, on a context of its own, unless the connection is broken or breaks
\* now.  The connection goes back in any case.
rollbackSafely(c) ==
  LET t == call[c].tok IN
  /\ call[c].pc = "rollback"
  /\ Return(c, call[c].res)
  /\ \/ call[c].conn = "held" /\ tx[t].st = "open" /\ Ended(t, "aborted", "none")
     \/ UNCHANGED tx

-----------------------------------------------------------------------------
(* The server executes a statement                                         *)

Running(t) == tx[t].st = "open" /\ tx[t].wire = "asked"

\* The open transaction of s has taken the row, or the address, t needs.
Blocks(s, t) ==
  /\ s # t /\ tx[s].st = "open" /\ tx[s].done > 0
  /\ job[s].op = job[t].op /\ job[s].old = job[t].old /\ job[s].email = job[t].email

\* Mutant: the expiry is left to the verification of the JWT.
MatchesExpired(t) == job[t].old \in rows
\* token_hash = $1 AND user_id = $2 AND expires_at > now(), where now() is the
\* time of BEGIN.
Matches(t) ==
  /\ job[t].old \in rows
  /\ job[job[t].old].user = job[t].user
  /\ tx[t].began < job[job[t].old].exp

\* Mutant: SKIP LOCKED.
DeleteSkipsLocked(t) ==
  /\ Running(t) /\ NextStatement(t) = "delete_token"
  /\ IF Matches(t) /\ \A s \in Tokens : ~Blocks(s, t) THEN Executed(t) ELSE Answered(t, "zero")
  /\ UNCHANGED <<now, maxOpen, client, tables>>
\* Waits for the transaction that has the row, then looks at the row again.
DeleteToken(t) ==
  /\ Running(t) /\ NextStatement(t) = "delete_token"
  /\ \A s \in Tokens : ~Blocks(s, t)
  /\ IF Matches(t) THEN Executed(t) ELSE Answered(t, "zero")
  /\ UNCHANGED <<now, maxOpen, client, tables>>

\* Waits for the transaction that has the address in the unique index.
InsertUser(t) ==
  /\ Running(t) /\ NextStatement(t) = "insert_user"
  /\ \A s \in Tokens : ~Blocks(s, t)
  /\ IF users[job[t].email] = NoToken THEN Executed(t) ELSE Ended(t, "aborted", "duplicate")
  /\ UNCHANGED <<now, maxOpen, client, tables>>

\* The role a user has by default, and the token: nobody else has their keys.
Insert(t) ==
  /\ Running(t) /\ NextStatement(t) \in {"assign_role", "insert_token"}
  /\ Executed(t)
  /\ UNCHANGED <<now, maxOpen, client, tables>>

\* Mutant: the exchange enters its token and leaves the one presented.
WritesKeepOld(t) == rows \cup {t}
\* What the statements of a transaction have made of refresh_tokens.
Writes(t) == (rows \ {job[t].old}) \cup {t}

Commit(t) ==
  /\ Running(t) /\ NextStatement(t) \in {"commit", "insert_and_commit"}
  /\ rows' = Writes(t)
  /\ users' = [e \in Emails |-> IF e = job[t].email THEN job[t].user ELSE users[e]]
  /\ Ended(t, "committed", "done")
  /\ UNCHANGED <<now, maxOpen, client>>

\* Any statement may fail: a role that is not there, a limit, a restart.
Fails(t) ==
  /\ Running(t)
  /\ Ended(t, "aborted", "failed")
  /\ UNCHANGED <<now, maxOpen, client, tables>>

\* The server finds that the caller is gone.
Reap(t) ==
  /\ tx[t].st = "open" /\ Abandoned(t)
  /\ Ended(t, "aborted", "none")
  /\ UNCHANGED <<now, maxOpen, client, tables>>

-----------------------------------------------------------------------------
Tick ==
  /\ now < MaxTime
  /\ now' = now + 1
  /\ UNCHANGED <<maxOpen, client, tx, tables>>

Init ==
  /\ now = 0
  /\ maxOpen \in PoolSizes
  /\ call = [c \in Calls |-> Idle]
  /\ drawn = 0
  /\ job = [t \in Tokens |-> NoJob]
  /\ tx = [t \in Tokens |-> NoTx]
  /\ users = [e \in Emails |-> NoToken]
  /\ rows = {}
  /\ outcome = [t \in Tokens |-> "none"]

Arrive(c) ==
  \/ \E e \in Emails : CreateUserWithRefreshToken(c, e) \/ Save(c, e)
  \/ \E o \in Tokens : Rotate(c, o)

Step(c) == Receive(c) \/ rollbackSafely(c)

Execute(t) == DeleteToken(t) \/ InsertUser(t) \/ Insert(t) \/ Commit(t)

\* The tokens of the bound are drawn and every call has returned.
Rest ==
  /\ Fresh \notin Tokens
  /\ \A c \in Calls : call[c].pc = "idle"
  /\ UNCHANGED vars

Next ==
  \/ Tick \/ Rest
  \/ \E c \in Calls : Arrive(c) \/ Begin(c) \/ BeginFails(c) \/ Step(c) \/ Break(c)
  \/ \E t \in Tokens : Execute(t) \/ Fails(t) \/ Reap(t)

Spec == Init /\ [][Next]_vars

\* The process and the server run, and the server notices a client that is gone.
\* The pool serves its waiters in their order.  No deadline need ever pass.
FairSpec ==
  /\ Spec
  /\ \A c \in Calls : WF_vars(Step(c)) /\ SF_vars(Begin(c))
  /\ \A t \in Tokens : WF_vars(Execute(t)) /\ WF_vars(Reap(t))

-----------------------------------------------------------------------------
(* Properties                                                              *)

(***************************************************************************)
(* Every variable has its type.                                            *)
(***************************************************************************)
TypeOK ==
  /\ now \in 0 .. MaxTime
  /\ maxOpen \in PoolSizes
  /\ call \in [Calls -> Call]
  /\ drawn \in 0 .. MaxTokens
  /\ job \in [Tokens -> Job]
  /\ tx \in [Tokens -> Tx]
  /\ users \in [Emails -> Tokens \cup {NoToken}]
  /\ rows \subseteq Tokens
  /\ outcome \in [Tokens -> Results]

(***************************************************************************)
(* What a call returns is true, now and later.  Success: the transaction   *)
(* has committed.  A refusal or a taken address: it has not and never      *)
(* will, the presented token is spent or had expired when the transaction  *)
(* began, the address belongs to a user.  In particular a call that waited *)
(* for another transaction is not refused for what that one rolled back.   *)
(***************************************************************************)
AnswersAreTrue ==
  \A t \in Tokens :
    /\ outcome[t] = "ok" => tx[t].st = "committed"
    /\ outcome[t] \in {"refused", "taken"} => tx[t].st \in {"open", "aborted"} /\ ~Running(t)
    /\ outcome[t] = "refused" => job[t].old \notin rows \/ tx[t].began >= job[job[t].old].exp
    /\ outcome[t] = "taken" => users[job[t].email] # NoToken

(***************************************************************************)
(* An exchange may wait for a lock, or be committed by the server after    *)
(* its caller has left, but the token it consumed was good when the        *)
(* transaction began.                                                      *)
(***************************************************************************)
NoStaleExchange ==
  \A t \in Tokens :
    tx[t].st = "committed" /\ job[t].op = "rotate" => tx[t].began < job[job[t].old].exp

(***************************************************************************)
(* The tables implement Sessions: nothing of a transaction is seen before  *)
(* its COMMIT, whoever is left to hear of it, and of all transactions that *)
(* consume a token one does.                                               *)
(***************************************************************************)
Committed == {t \in Tokens : tx[t].st = "committed"}
S == INSTANCE Sessions WITH live  <- {<<job[t].family, t>> : t \in rows},
                            spent <- Committed \ rows
ImplementsSessions == S!SessSpec

(***************************************************************************)
(* Every call returns, and nobody needs a deadline for it while the server *)
(* works: no cycle of locks, no lock that stays with a transaction its     *)
(* caller has left, no connection that does not come back to the pool.     *)
(***************************************************************************)
CallsReturn == \A c \in Calls : call[c].pc # "idle" ~> call[c].pc = "idle"
=============================================================================
