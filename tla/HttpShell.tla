----------------------------- MODULE HttpShell -----------------------------
(***************************************************************************)
(* The middleware server/http.go wraps around every route, in its order:   *)
(* RequestID, SecurityHeaders, Tracing, Recovery, AccessLog, CORS,         *)
(* BodyLimit, Timeout and observeRequests.  From Timeout on a request has  *)
(* two goroutines: the one of net/http, which waits for the first of an    *)
(* answer, a panic and the deadline, and the one that runs the rest of the *)
(* chain and the handler, which may answer, panic or never return, and     *)
(* which writes to a buffer until net/http's goroutine takes it over.      *)
(***************************************************************************)
EXTENDS Naturals

CONSTANTS
  Requests,    \* the requests the server works on at a time
  Asks,        \* what a request may ask of a handler
  NoAsk

ASSUME ShellConstants == NoAsk \in Asks

VARIABLE http  \* the requests, see Request

Codes == {"none", "ok", "unauthorized", "failed",        \* the envelope of a handler
          "preflight", "forbidden", "too large", "panic", "timeout"}
FromHandler == {"ok", "unauthorized", "failed"}

Origins == {"allowed", "other"}     \* "other": not in AllowedOrigins, or none
Bodies  == {"fits", "declared"}     \* "declared": a length above the limit
Writers == {"connection", "buffer"} \* what c.Writer stands for

Request == [
  pc      : {"idle", "waiting", "answered"},                      \* of net/http's goroutine
  chain   : {"none", "running", "answered", "panicked", "over"},  \* of Timeout's goroutine
  ask     : Asks,
  origin  : Origins,
  body    : Bodies,
  reply   : Codes,       \* what the chain has answered
  status  : Codes,       \* what was sent
  allow   : SUBSET Writers,  \* those that hold Access-Control-Allow-Origin
  lines   : 0 .. 2,      \* what the log says of it
  counted : 0 .. 1 ]     \* requests_total

NoRequest == [pc |-> "idle", chain |-> "none", ask |-> NoAsk, origin |-> "other",
  body |-> "fits", reply |-> "none", status |-> "none", allow |-> {}, lines |-> 0, counted |-> 0]

-----------------------------------------------------------------------------
(* The layers around Timeout                                               *)

\* Mutant: gin's usual order, the access log around Recovery.
LinesOutside(code) == IF code = "panic" THEN 2 ELSE 1
\* AccessLog writes its line when the chain returns to it.  A panic passes it,
\* and Recovery, outside of it, writes another.
Lines(code) == 1

Sent(q, code) ==
  [q EXCEPT !.pc = "answered", !.status = code, !.lines = q.lines + Lines(code),
            !.reply = "none", !.body = "fits", !.ask = NoAsk]

\* Timeout puts a buffer in the place of the connection for all that runs inside it.
Writer(q) == IF q.chain = "none" THEN "connection" ELSE "buffer"

\* CORS writes its headers on the way in, to the writer it finds.
AllowOrigin(q) == IF q.origin = "allowed" THEN [q EXCEPT !.allow = @ \cup {Writer(q)}] ELSE q

\* It answers every OPTIONS; the limiters and handlers do not see it.
Preflight(q) == Sent(q, IF q.origin = "allowed" THEN "preflight" ELSE "forbidden")
CORS(q, isPreflight) == IF isPreflight THEN Preflight(AllowOrigin(q)) ELSE AllowOrigin(q)

\* Each of the layers inside runs unless one before it has answered.
\* BodyLimit refuses what declares its length.
BodyLimit(q) == IF q.pc # "answered" /\ q.body = "declared" THEN Sent(q, "too large") ELSE q
RunInside(q) == IF q.pc = "answered" THEN q ELSE [q EXCEPT !.pc = "waiting", !.chain = "running"]

\* Mutant: CORS is installed inside Timeout.
ServeInside(q, isPreflight) ==
  IF isPreflight THEN CORS(q, TRUE) ELSE AllowOrigin(RunInside(BodyLimit(q)))
\* Mutant: CORS is installed inside BodyLimit.
ServeLimited(q, isPreflight) ==
  IF BodyLimit(q).pc = "answered" THEN BodyLimit(q) ELSE RunInside(CORS(q, isPreflight))
\* The layers in the order of engine.Use.
ServeHTTP(q, isPreflight) == RunInside(BodyLimit(CORS(q, isPreflight)))

Arrive(r, ask, origin, body, isPreflight) ==
  /\ http[r].pc = "idle"
  /\ http' = [http EXCEPT ![r] =
       ServeHTTP([NoRequest EXCEPT !.ask = ask, !.origin = origin, !.body = body], isPreflight)]

-----------------------------------------------------------------------------
(* The goroutine of the chain                                              *)

\* observeRequests counts what returns to it: what was answered, not a panic.
Reply(r, code) ==
  /\ http[r].chain = "running"
  /\ http' = [http EXCEPT ![r].chain = "answered", ![r].counted = 1,
                          ![r].reply = IF http[r].pc = "waiting" THEN code ELSE "none"]

Panic(r) ==
  /\ http[r].chain = "running"
  /\ http' = [http EXCEPT ![r].chain = "panicked"]

-----------------------------------------------------------------------------
(* The goroutine of net/http: a select of three                            *)

\* The headers of the buffer are added to those of the connection.
Merged(q) == [q EXCEPT !.allow = IF "buffer" \in @ THEN Writers ELSE @]

Finish(r) ==
  /\ http[r].pc = "waiting" /\ http[r].chain = "answered"
  /\ http' = [http EXCEPT ![r] = Sent(Merged([@ EXCEPT !.chain = "over"]), http[r].reply)]

\* The buffer is dropped, and the panic raised again where Recovery catches it.
Recovery(r) ==
  /\ http[r].pc = "waiting" /\ http[r].chain = "panicked"
  /\ http' = [http EXCEPT ![r] = Sent([@ EXCEPT !.chain = "over"], "panic")]

\* Mutant: the deadline only cancels the context of the handler.
CancelsOnly(r) == http[r].pc = "waiting" /\ http[r].chain # "running" /\ UNCHANGED http
\* The 504 goes to the connection, past the buffer.
Timeout(r) ==
  /\ http[r].pc = "waiting"
  /\ http' = [http EXCEPT ![r] = Sent(@, "timeout")]

\* The connection serves its next request; a chain that was left behind ends
\* unheard, or never.
Done(r) ==
  /\ http[r].pc = "answered"
  /\ http[r].chain # "running"
  /\ http' = [http EXCEPT ![r] = NoRequest]
=============================================================================
