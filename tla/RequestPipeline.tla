--------------------------- MODULE RequestPipeline ---------------------------
(***************************************************************************)
(* One HTTP request on its way through the middleware stack main.py        *)
(* builds, with every protection enabled: who answers it, what the answer  *)
(* carries, what the metrics record, and what an exception, an oversized   *)
(* body, a failing rate-limit backend or the request timeout does at each  *)
(* await on the way.                                                       *)
(*                                                                         *)
(* Requests do not interact here: each is a task with its own copy of the  *)
(* context variables.  A step is what runs between two awaits.  What       *)
(* Starlette, FastAPI and uvicorn do around the code is external.          *)
(***************************************************************************)
EXTENDS Naturals, Sequences

CONSTANTS MaxBody,    \* request_body_max_bytes, in body units
          MaxChunk,   \* bound of the size of one http.request message
          FailOpen,   \* rate_limit_fail_open
          NoAnswer

ASSUME SettingsAssumption ==
  MaxBody \in Nat \ {0} /\ MaxChunk \in Nat \ {0} /\ FailOpen \in BOOLEAN

VARIABLES
  exempt,       \* the path is exempt from limits and timeout
  reads,        \* how the endpoint reads the body: "none", "json", "form"
  supplied,     \* the client sent X-Request-ID
  pc,           \* where the request is
  context,      \* structlog's context variables, as this task sees them
  timer,        \* asyncio.wait_for of the timeout middleware
  received,     \* total_bytes of the body limit middleware
  handled,      \* history: the endpoint, its dependencies first, was entered
  session,      \* get_db_session; "broken" when its close raised
  raised,       \* what waits for the session's close to propagate
  reply,        \* the answer a layer last began, as the wrappers saw it
  wire,         \* the http.response.start the server accepted
  status_code,  \* of the metrics middleware
  counted       \* the status label of the request counter, 0 before

vars == <<exempt, reads, supplied, pc, context, timer, received, handled,
          session, raised, reply, wire, status_code, counted>>
request == <<exempt, reads, supplied>>
entry   == <<received, handled>>
answer  == <<reply, status_code>>
record  == <<context, counted>>

-----------------------------------------------------------------------------
(* The stack, outermost first: main.py adds the innermost first. *)

(* Mutants: metrics and security headers added before the timeout. *)
StackMetricsInside ==
  <<"server_error", "request_id", "tenant", "security_headers", "body_limit",
    "timeout", "metrics", "rate_limit", "app">>
StackSecurityInside ==
  <<"server_error", "request_id", "tenant", "metrics", "body_limit",
    "timeout", "security_headers", "rate_limit", "app">>

(* Mutant: RequestIDMiddleware added before the timeout. *)
StackIdInside ==
  <<"server_error", "tenant", "metrics", "security_headers", "body_limit",
    "timeout", "request_id", "rate_limit", "app">>

Stack ==
  <<"server_error", "request_id", "tenant", "metrics", "security_headers",
    "body_limit", "timeout", "rate_limit", "app">>

Inside(layer, outer) ==
  \E i, j \in 1..Len(Stack) : i > j /\ Stack[i] = layer /\ Stack[j] = outer

(* What a layer finds in the context: the request id is bound by
   RequestIDMiddleware and cleared when that returns. *)
BoundId(layer) ==
  IF Inside(layer, "request_id") /\ context = "own" THEN "own" ELSE "fresh"

(* An answer sent by a layer, with what the layers around it add. *)
Sent(layer, status, form, rid) ==
  [status     |-> status,
   form       |-> form,
   rid        |-> rid,
   request_id |-> Inside(layer, "request_id"),
   security   |-> Inside(layer, "security_headers")]

Statuses == {0, 200, 400, 404, 413, 422, 429, 500, 503, 504}
Forms    == {"ok", "envelope", "detail", "plain"}

(* "server" is uvicorn itself, outside the stack. *)
Layers == {"app", "rate_limit", "timeout", "body_limit", "server_error",
           "server"}

Reply == [layer: Layers, status: Statuses, form: Forms, rid: {"own", "fresh"}]
Answer == [status: Statuses, form: Forms, rid: {"own", "fresh"},
           request_id: BOOLEAN, security: BOOLEAN]

ASSUME NoAnswerAssumption == NoAnswer \notin Answer

NoReply ==
  [layer |-> "app", status |-> 0, form |-> "ok", rid |-> "own"]

TypeOK ==
  /\ exempt \in BOOLEAN
  /\ reads \in {"none", "json", "form"}
  /\ supplied \in BOOLEAN
  /\ pc \in {"arrive", "limiter", "route", "receive", "handler", "closing",
             "respond", "body", "done"}
  /\ context \in {"inherited", "own", "cleared"}
  /\ timer \in {"off", "armed", "fired"}
  /\ received \in 0..MaxBody + MaxChunk
  /\ handled \in BOOLEAN
  /\ session \in {"none", "open", "closing", "closed", "broken"}
  /\ raised \in {"nothing", "reject", "error", "timeout"}
  /\ reply \in Reply
  /\ wire \in Answer \cup {NoAnswer}
  /\ status_code \in Statuses
  /\ counted \in Statuses

(* Exempt paths, the probes and the API docs, read no body. *)
Init ==
  /\ exempt \in BOOLEAN
  /\ reads \in IF exempt THEN {"none"} ELSE {"none", "json", "form"}
  /\ supplied \in BOOLEAN
  /\ pc = "arrive"
  /\ context = "inherited"
  /\ timer = "off"
  /\ received = 0
  /\ handled = FALSE
  /\ session = "none"
  /\ raised = "nothing"
  /\ reply = NoReply
  /\ wire = NoAnswer
  /\ status_code = 500
  /\ counted = 0

-----------------------------------------------------------------------------
(* Answers.  A layer sends http.response.start: the layers around it see it
   at once, the server takes it in a step of its own. *)

(* The metrics saw what the layer sent if they are around it. *)
SeenFrom(layer, status) ==
  IF Inside(layer, "metrics") THEN status ELSE status_code

Respond(layer, status, form, rid) ==
  /\ pc' = "respond"
  /\ reply' = [layer |-> layer, status |-> status, form |-> form, rid |-> rid]
  /\ status_code' = SeenFrom(layer, status)

(* An error envelope, sent before anything is left. *)
AnswerInstead(layer, status) ==
  /\ Respond(layer, status, "envelope", BoundId(layer))
  /\ UNCHANGED record

(* The finally blocks of the outer layers, from the inside out; the metrics
   record the status they last saw, 500 when they saw none. *)
Leave ==
  /\ context' = "cleared"
  /\ counted' = status_code

Return ==
  /\ pc' = "done"
  /\ Leave
  /\ UNCHANGED answer

(* generic_exception_handler finds the context cleared already, and falls
   back on the request header. *)
RecoveredId == IF supplied THEN "own" ELSE "fresh"

(* An exception nobody handles leaves every middleware.  ServerErrorMiddleware
   calls the generic handler if no answer was begun; if one was, but did not
   reach the server, the server answers; else it cuts the answer short. *)
Escape ==
  /\ Leave
  /\ \/ /\ reply = NoReply
        /\ Respond("server_error", 500, "envelope", RecoveredId)
     \/ /\ reply # NoReply /\ wire = NoAnswer
        /\ Respond("server", 500, "plain", "fresh")
     \/ /\ reply # NoReply /\ wire # NoAnswer
        /\ pc' = "done" /\ UNCHANGED answer

-----------------------------------------------------------------------------
(* The way out of the endpoint and its dependencies. *)

(* What the layers do with what comes out of the dependencies.  A
   TimeoutError, wait_for's own or one of a driver, is the timeout
   middleware's to answer. *)
Conclude(cause) ==
  \/ cause = "nothing" /\ Return
  \/ cause = "reject" /\ AnswerInstead("app", 400)
  \/ cause = "timeout" /\ ~exempt /\ AnswerInstead("timeout", 504)
  \/ cause = "timeout" /\ exempt /\ Escape
  \/ cause = "error" /\ Escape

(* Mutant: the session is closed in a task nobody waits for. *)
CloseInBackground(cause) ==
  /\ Conclude(cause)
  /\ session' = IF session = "open" THEN "closing" ELSE session
  /\ UNCHANGED <<request, entry, raised, wire>>

(* `async with session_factory()` is left first: AsyncSession's exit awaits
   its close. *)
WayOut(cause) ==
  /\ IF session = "open"
     THEN /\ pc' = "closing" /\ session' = "closing" /\ raised' = cause
          /\ UNCHANGED <<record, answer>>
     ELSE Conclude(cause) /\ UNCHANGED <<session, raised>>
  /\ UNCHANGED <<request, entry, wire>>

CloseReturns ==
  /\ pc = "closing"
  /\ session' = "closed"
  /\ Conclude(raised)
  /\ UNCHANGED <<request, timer, entry, raised, wire>>

(* What the close raises takes the place of what was on its way. *)
CloseRaises ==
  /\ pc = "closing"
  /\ session' = "broken"
  /\ Conclude("error") \/ Conclude("timeout")
  /\ UNCHANGED <<request, timer, entry, raised, wire>>

(* The close is shielded: a cancelled request leaves it behind. *)
CloseBehind ==
  /\ session = "closing" /\ pc # "closing"
  /\ session' \in {"closed", "broken"}
  /\ UNCHANGED <<request, pc, record, timer, entry, raised, wire, answer>>

-----------------------------------------------------------------------------
(* The way in. *)

(* Mutant: `path not in self.exempt_paths`. *)
ArmedIfExempt == IF exempt THEN "armed" ELSE "off"

Armed == IF exempt THEN "off" ELSE "armed"

(* RequestID, tenant, metrics, security headers, body limit and timeout up
   to the first await. *)
Arrive ==
  /\ pc = "arrive"
  /\ context' = "own"
  /\ timer' = Armed
  /\ pc' = IF exempt THEN "route" ELSE "limiter"
  /\ UNCHANGED <<request, entry, session, raised, wire, answer, counted>>

(* await self.limiter.check(key) *)
LimiterDecides ==
  /\ pc = "limiter"
  /\ \/ pc' = "route" /\ UNCHANGED <<record, answer>>
     \/ AnswerInstead("rate_limit", 429)
     \/ ~FailOpen /\ AnswerInstead("rate_limit", 503)
  /\ UNCHANGED <<request, timer, entry, session, raised, wire>>

(* The endpoint's dependencies are solved and its function is called; a
   session, if one of them takes it, opens without an await. *)
CallEndpoint ==
  /\ pc' = "handler"
  /\ handled' = TRUE
  /\ session' \in IF exempt THEN {"none"} ELSE {"none", "open"}
  /\ UNCHANGED <<record, answer>>

(* Routing; no route is Starlette's 404, without the envelope. *)
Route ==
  /\ pc = "route"
  /\ \/ /\ Respond("app", 404, "detail", BoundId("app"))
        /\ UNCHANGED <<record, handled, session>>
     \/ reads = "none" /\ CallEndpoint
     \/ /\ reads # "none" /\ pc' = "receive"
        /\ UNCHANGED <<record, answer, handled, session>>
  /\ UNCHANGED <<request, timer, received, raised, wire>>

(* Mutants: RequestBodyTooLarge is never raised; total_bytes is not
   accumulated. *)
NeverTooLarge(size) == FALSE
ChunkTooLarge(size) == ~exempt /\ size > MaxBody

TooLarge(size) == ~exempt /\ received + size > MaxBody

(* RequestBodyTooLarge passes through the form dependency of /auth/token,
   which comes before the session's, up to the body limit middleware; where
   FastAPI reads a JSON body, it turns any exception into a 400 of its own. *)
ReceiveTooMuch(size) ==
  /\ TooLarge(size)
  /\ \/ reads = "form" /\ AnswerInstead("body_limit", 413)
     \/ /\ reads # "form"
        /\ Respond("app", 400, "detail", BoundId("app")) /\ UNCHANGED record
  /\ UNCHANGED <<handled, session>>

ReceiveMore(size) ==
  /\ ~TooLarge(size)
  /\ UNCHANGED <<pc, record, answer, handled, session>>

(* The last message; a body that does not parse is 422. *)
ReceiveLast(size) ==
  /\ ~TooLarge(size)
  /\ \/ CallEndpoint
     \/ AnswerInstead("app", 422) /\ UNCHANGED <<handled, session>>

(* receive_wrapper *)
Receive(size) ==
  /\ pc = "receive"
  /\ received' = received + size
  /\ ReceiveTooMuch(size) \/ ReceiveMore(size) \/ ReceiveLast(size)
  /\ UNCHANGED <<request, timer, raised, wire>>

-----------------------------------------------------------------------------
(* The endpoint, the answer and the timeout. *)

(* Its answer is sent before its dependencies are left; 200 stands for any
   status it sets itself. *)
HandlerReturns ==
  /\ pc = "handler"
  /\ Respond("app", 200, "ok", BoundId("app"))
  /\ UNCHANGED <<request, record, timer, entry, session, raised, wire>>

(* HTTPException or a validation error, of a dependency or of the function;
   400 stands for any status. *)
HandlerRejects == pc = "handler" /\ WayOut("reject") /\ UNCHANGED timer

HandlerRaises == pc = "handler" /\ WayOut("error") /\ UNCHANGED timer

(* A TimeoutError of the endpoint's own, of a driver for example. *)
HandlerTimesOut == pc = "handler" /\ WayOut("timeout") /\ UNCHANGED timer

ServerTakesStart ==
  /\ pc = "respond" /\ wire = NoAnswer
  /\ pc' = "body"
  /\ wire' = Sent(reply.layer, reply.status, reply.form, reply.rid)
  /\ UNCHANGED <<request, record, timer, entry, session, raised, answer>>

(* A second start: the server raises, the client sees nothing of it. *)
ServerRefusesStart ==
  /\ pc = "respond" /\ wire # NoAnswer
  /\ Return
  /\ UNCHANGED <<request, timer, entry, session, raised, wire>>

(* The rest of the answer is sent.  The outermost layers were left before
   they answered. *)
SendBody ==
  /\ pc = "body"
  /\ \/ reply.layer = "app" /\ WayOut("nothing")
     \/ /\ reply.layer \in {"rate_limit", "timeout", "body_limit"} /\ Return
        /\ UNCHANGED <<request, entry, session, raised, wire>>
     \/ /\ reply.layer \in {"server_error", "server"} /\ pc' = "done"
        /\ UNCHANGED <<request, record, entry, session, raised, wire, answer>>
  /\ UNCHANGED timer

(* The awaits inside wait_for. *)
Cancellable ==
  \/ pc \in {"limiter", "receive", "handler", "closing"}
  \/ pc \in {"respond", "body"} /\ Inside(reply.layer, "timeout")

(* wait_for cancels the application once, at the await it is in, and waits
   for it to leave what it holds. *)
TimerFires ==
  /\ timer = "armed" /\ Cancellable
  /\ timer' = "fired"
  /\ WayOut("timeout")

Finished == pc = "done" /\ UNCHANGED vars

Next ==
  \/ Arrive
  \/ LimiterDecides
  \/ Route
  \/ \E size \in 0..MaxChunk : Receive(size)
  \/ HandlerReturns
  \/ HandlerRejects
  \/ HandlerRaises
  \/ HandlerTimesOut
  \/ CloseReturns
  \/ CloseRaises
  \/ CloseBehind
  \/ ServerTakesStart
  \/ ServerRefusesStart
  \/ SendBody
  \/ TimerFires
  \/ Finished

Spec == Init /\ [][Next]_vars

(* The event loop runs what is ready and fires timers that are due.  The
   limiter's backend, the client, the endpoint and the database may never
   answer. *)
FairSpec == Spec /\ WF_vars(Arrive) /\ WF_vars(Route) /\ WF_vars(TimerFires)

-----------------------------------------------------------------------------

(* The request counter records the status the client saw, wherever the
   answer came from, with two exceptions: the timeout struck an answer under
   way, or the session's close raised after an answer had begun.  Each counts
   a 504 nobody saw, when the close raised a TimeoutError too; and both
   together may end in a 500 of the server's that was not counted. *)
CountedAsSent ==
  pc = "done" /\ counted # wire.status =>
    \/ counted = 504 /\ (timer = "fired" \/ session = "broken")
    \/ wire.status = 500 /\ timer = "fired" /\ session = "broken"

(* Every answer but the last-resort 500 went out through the request-id and
   security-headers middleware, early refusals and timeouts included. *)
HeadersOnEveryAnswer ==
  wire # NoAnswer /\ wire.status # 500 => wire.request_id /\ wire.security

(* The request id in an error envelope is the one the log lines carry,
   unless it is the last-resort 500 of a request that came without one. *)
ErrorsTraceable ==
  wire # NoAnswer /\ wire.form = "envelope" /\ wire.rid # "own"
    => wire.status = 500 /\ ~supplied

(* No endpoint is called with more body than the limit, in however many
   messages it came. *)
OversizeNeverHandled == handled => received <= MaxBody

(* A request that is over, and a client that was told of a failure, has left
   its database session, locks and all: its close has ended, and only one
   the timeout struck meanwhile may still be under way. *)
SessionLeft ==
  pc = "done" \/ (wire # NoAnswer /\ wire.status >= 400) =>
    \/ session \in {"none", "closed", "broken"}
    \/ session = "closing" /\ timer = "fired"

(* The two awaits the timeout does not bound: the close of the session once
   wait_for has cancelled the request, and the send of an answer from outside
   wait_for, to a client that may not read. *)
Unbounded ==
  \/ pc = "closing" /\ timer = "fired"
  \/ pc \in {"respond", "body"} /\ ~Inside(reply.layer, "timeout")

(* A request under the timeout ends even if the backend, the client, the
   endpoint or the database never answers, unless it is stuck for good in one
   of those two awaits. *)
NothingHangs == ~exempt ~> (pc = "done" \/ []Unbounded)

-----------------------------------------------------------------------------
(* What the documentation says and the code does not do. *)

(* docs/observability.md: "`X-Request-ID` is always present in the response
   header". *)
RequestIdAlwaysPresent == wire # NoAnswer => wire.request_id

(* docs/observability.md: "All API errors return a consistent JSON
   envelope". *)
AllErrorsEnveloped ==
  wire # NoAnswer /\ wire.status >= 400 => wire.form = "envelope"

(* README.md: "Request body size limit middleware (`413
   REQUEST_BODY_TOO_LARGE`)". *)
OversizeIs413 ==
  pc = "done" /\ received > MaxBody => wire.status \in {413, 504}
=============================================================================
