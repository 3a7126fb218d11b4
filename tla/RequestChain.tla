----------------------------- MODULE RequestChain -----------------------------
(***************************************************************************)
(* Requests on their way through the application of app/main.py:           *)
(*                                                                         *)
(*   ServerErrorMiddleware        (Starlette: handlers for Exception)      *)
(*     MetricsMiddleware          (added last, so outermost)               *)
(*       LoggingContextMiddleware                                          *)
(*         ExceptionMiddleware    (Starlette: the other handlers)          *)
(*           routing, authentication, validation, rate limit, endpoint     *)
(*                                                                         *)
(* Each BaseHTTPMiddleware runs what it wraps in a task of its own, whose  *)
(* context variables start as a copy of its own: three tasks per request.  *)
(* Between two awaits a task runs alone; requests interleave at awaits.    *)
(***************************************************************************)
EXTENDS Naturals, Sequences, FiniteSets

CONSTANTS
  Requests,       \* concurrent requests, from one remote address
  Incoming,       \* what a request can be: [path, json, body, token]
  NoToken,        \* no "Authorization: Bearer" header
  Nobody,         \* a context or a token without that identity
  RequiredScopes, \* of POST /mask
  Limits,         \* RATE_LIMIT_ENDPOINTS: route -> requests per window
  MaxWindows      \* bound: rate-limit windows

(* A token: signature and format in order, not expired, issuer ours, audience
   claim, subject, and the scope claim (a set, or NotString). *)
CONSTANT NotString

ASSUME ChainAssumption ==
  /\ Limits \in [{"mask", "root", "health"} -> Nat] /\ MaxWindows \in Nat \ {0}
  /\ \A i \in Incoming : i.path \in {"mask", "root", "health", "metrics", "none"}
  /\ \A i \in Incoming : i.token # NoToken => i.token.aud \in {"ours", "other", "absent"}

VARIABLES
  incoming, \* the requests
  at,       \* where each request is
  answer,   \* the response on its way out: a status, or Raised
  state,    \* request.state.user_id
  context,  \* the context variable of libs/logging in each task of each request
  logs,     \* lines written: [request, event, session, user]
  counted,  \* http_requests_total: the statuses counted for each request
  hits,     \* slowapi's counters for the current window
  windows,  \* windows begun
  ran,      \* requests the limiter let through, with their window
  refused   \* requests it refused, with their window

vars == <<incoming, at, answer, state, context, logs, counted, hits, windows, ran, refused>>

Raised == 0     \* an exception on its way out instead of a response
Unanswered == 1

Places == {"arrived", "logging", "auth", "validate", "limit", "endpoint",
           "logging_exit", "metrics_exit", "send", "answered"}
Tasks == {"server", "metrics_child", "logging_child"}
Empty == [session |-> Nobody, user |-> Nobody]

Init ==
  /\ incoming \in [Requests -> Incoming]
  /\ at = [r \in Requests |-> "arrived"]
  /\ answer = [r \in Requests |-> Unanswered]
  /\ state = [r \in Requests |-> Nobody]
  /\ context = [r \in Requests |-> [t \in Tasks |-> Empty]]
  /\ logs = {}
  /\ counted = [r \in Requests |-> <<>>]
  /\ hits = [path \in DOMAIN Limits |-> 0]
  /\ windows = 1
  /\ ran = {}
  /\ refused = {}

-----------------------------------------------------------------------------
Goto(r, place) == at' = [at EXCEPT ![r] = place]

(* The AppError subclasses and their status codes. *)
StatusOf == [bad_request |-> 400, unauthorized |-> 401, forbidden |-> 403, not_found |-> 404]

(* An exception handler of ExceptionMiddleware, or the endpoint, answers. *)
AnswerWith(r, status) ==
  /\ answer' = [answer EXCEPT ![r] = status]
  /\ Goto(r, "logging_exit")

(* _add_context_to_event_dict: a line carries the context of its task. *)
Log(r, task, event) ==
  logs' = logs \cup { [request |-> r, event |-> event, session |-> context[r][task].session,
                      user |-> context[r][task].user] }

(* Slip: the exception ends the inner application without a trace. *)
RaiseOutSilently(r) == answer' = answer /\ Goto(r, "logging_exit")

(* ExceptionMiddleware has no handler for the exception: it goes on out. *)
RaiseOut(r) ==
  /\ answer' = [answer EXCEPT ![r] = Raised]
  /\ Goto(r, "logging_exit")

-----------------------------------------------------------------------------
(* libs/middleware: PyJWT without audience refuses every token that has one. *)
SessionOf(token) ==
  IF token # NoToken /\ token.signed /\ token.fresh /\ token.aud = "absent"
  THEN token.sub ELSE Nobody

(* MetricsMiddleware.dispatch starts the clock and its child task. *)
EnterMetrics(r) ==
  /\ at[r] = "arrived"
  /\ Goto(r, "logging")
  /\ context' = [context EXCEPT ![r]["metrics_child"] = context[r]["server"]]
  /\ UNCHANGED <<incoming, answer, state, logs, counted, hits, windows, ran, refused>>

(* Slip: the fields bound in a module global that all requests share. *)
EnterLoggingShared(r) ==
  /\ at[r] = "logging"
  /\ Goto(r, "auth")
  /\ LET bound == [Empty EXCEPT !.session = SessionOf(incoming[r].token)]
     IN  context' = [q \in Requests |-> [t \in Tasks |-> bound]]
  /\ UNCHANGED <<incoming, answer, state, logs, counted, hits, windows, ran, refused>>

(* LoggingContextMiddleware.dispatch up to call_next: clear, decode, bind; the
   child task starts with a copy. *)
EnterLogging(r) ==
  /\ at[r] = "logging"
  /\ Goto(r, "auth")
  /\ LET bound == [Empty EXCEPT !.session = SessionOf(incoming[r].token)]
     IN  context' = [context EXCEPT ![r]["metrics_child"] = bound,
                                    ![r]["logging_child"] = bound]
  /\ UNCHANGED <<incoming, answer, state, logs, counted, hits, windows, ran, refused>>

(* No such route (404, 405), or a body that is not JSON (422): both come before
   the dependencies of the route. *)
RefuseEarly(r) ==
  /\ at[r] = "auth"
  /\ LET found == incoming[r].path # "none"
     IN  /\ found => incoming[r].path = "mask" /\ ~incoming[r].json
         /\ AnswerWith(r, IF found THEN 422 ELSE 404)
         /\ Log(r, "logging_child", IF found THEN "validation_error" ELSE "http_exception")
  /\ UNCHANGED <<incoming, state, context, counted, hits, windows, ran, refused>>

(* GET of "/", /health and /metrics: no dependencies, and for /metrics no limit. *)
ArriveInPublic(r) ==
  /\ at[r] = "auth"
  /\ incoming[r].path \in {"root", "health", "metrics"}
  /\ Goto(r, IF incoming[r].path \in DOMAIN Limits THEN "limit" ELSE "endpoint")
  /\ UNCHANGED <<incoming, answer, state, context, logs, counted, hits, windows, ran, refused>>

Arrives(r) == at[r] = "auth" /\ incoming[r].path = "mask" /\ incoming[r].json

(* jwt.decode with issuer, audience and required claims, and the sub check. *)
Accepted(token) ==
  /\ token # NoToken
  /\ token.signed /\ token.fresh /\ token.iss /\ token.aud = "ours"
  /\ token.sub # Nobody

(* UnauthorizedError. *)
Unauthorized(r) ==
  /\ Arrives(r)
  /\ ~Accepted(incoming[r].token)
  /\ AnswerWith(r, StatusOf["unauthorized"])
  /\ Log(r, "logging_child", "app_error")
  /\ UNCHANGED <<incoming, state, context, counted, hits, windows, ran, refused>>

(* payload.get("scope", "").split() of a claim that is no string. *)
ScopeRaises(r) ==
  /\ Arrives(r)
  /\ Accepted(incoming[r].token)
  /\ incoming[r].token.scope = NotString
  /\ RaiseOut(r)
  /\ UNCHANGED <<incoming, state, context, logs, counted, hits, windows, ran, refused>>

(* ForbiddenError. *)
Forbidden(r) ==
  /\ Arrives(r)
  /\ Accepted(incoming[r].token)
  /\ incoming[r].token.scope # NotString
  /\ ~(RequiredScopes \subseteq incoming[r].token.scope)
  /\ AnswerWith(r, StatusOf["forbidden"])
  /\ Log(r, "logging_child", "app_error")
  /\ UNCHANGED <<incoming, state, context, counted, hits, windows, ran, refused>>

(* Slip: the required scopes are not compared. *)
AuthorizedAnyScope(r) ==
  /\ Arrives(r)
  /\ Accepted(incoming[r].token)
  /\ incoming[r].token.scope # NotString
  /\ state' = [state EXCEPT ![r] = incoming[r].token.sub]
  /\ Goto(r, "validate")
  /\ UNCHANGED <<incoming, answer, context, logs, counted, hits, windows, ran, refused>>

Authorized(r) ==
  /\ Arrives(r)
  /\ Accepted(incoming[r].token)
  /\ incoming[r].token.scope # NotString
  /\ RequiredScopes \subseteq incoming[r].token.scope
  /\ state' = [state EXCEPT ![r] = incoming[r].token.sub]
  /\ Goto(r, "validate")
  /\ UNCHANGED <<incoming, answer, context, logs, counted, hits, windows, ran, refused>>

(* The fields of the body are judged after the dependencies have run. *)
Invalid(r) ==
  /\ at[r] = "validate"
  /\ ~incoming[r].body
  /\ AnswerWith(r, 422)
  /\ Log(r, "logging_child", "validation_error")
  /\ UNCHANGED <<incoming, state, context, counted, hits, windows, ran, refused>>

Valid(r) ==
  /\ at[r] = "validate"
  /\ incoming[r].body
  /\ Goto(r, "limit")
  /\ UNCHANGED <<incoming, answer, state, context, logs, counted, hits, windows, ran, refused>>

(* Slip: one counter for each address. *)
CounterOfAddress(r) == "mask"

(* A counter for each address, here always the same, and path. *)
Counter(r) == incoming[r].path

(* Slip: the counter compared before it is incremented. *)
CheckLimitBefore(r) ==
  /\ at[r] = "limit"
  /\ hits' = [hits EXCEPT ![Counter(r)] = @ + 1]
  /\ IF hits[Counter(r)] <= Limits[incoming[r].path]
     THEN Goto(r, "endpoint") /\ ran' = ran \cup {<<r, windows>>} /\ UNCHANGED <<answer, refused>>
     ELSE AnswerWith(r, 429) /\ refused' = refused \cup {<<r, windows>>} /\ UNCHANGED ran
  /\ UNCHANGED <<incoming, state, context, logs, counted, windows>>

(* The wrapper of @limiter.limit, whose handler answers 429 without a line. *)
CheckLimit(r) ==
  /\ at[r] = "limit"
  /\ hits' = [hits EXCEPT ![Counter(r)] = @ + 1]
  /\ IF hits'[Counter(r)] <= Limits[incoming[r].path]
     THEN Goto(r, "endpoint") /\ ran' = ran \cup {<<r, windows>>} /\ UNCHANGED <<answer, refused>>
     ELSE AnswerWith(r, 429) /\ refused' = refused \cup {<<r, windows>>} /\ UNCHANGED ran
  /\ UNCHANGED <<incoming, state, context, logs, counted, windows>>

(* The line each endpoint writes; that of /metrics writes none. *)
EventOf == [mask   |-> "document_mask_pipeline_completed",
            root   |-> "root_endpoint_called",
            health |-> "health_check_called"]

(* The endpoint answers: /health with 503 if a dependency is down. *)
EndpointReturns(r) ==
  /\ at[r] = "endpoint"
  /\ AnswerWith(r, 200) \/ (incoming[r].path = "health" /\ AnswerWith(r, 503))
  /\ IF incoming[r].path = "metrics" THEN UNCHANGED logs
     ELSE Log(r, "logging_child", EventOf[incoming[r].path])
  /\ UNCHANGED <<incoming, state, context, counted, hits, windows, ran, refused>>

(* MaskPipeline's other ends: an AppError, or anything else. *)
EndpointRefuses(r) ==
  /\ at[r] = "endpoint"
  /\ incoming[r].path = "mask"
  /\ \E error \in {"bad_request", "not_found"} : AnswerWith(r, StatusOf[error])
  /\ Log(r, "logging_child", "app_error")
  /\ UNCHANGED <<incoming, state, context, counted, hits, windows, ran, refused>>

EndpointRaises(r) ==
  /\ at[r] = "endpoint"
  /\ incoming[r].path = "mask"
  /\ RaiseOut(r)
  /\ UNCHANGED <<incoming, state, context, logs, counted, hits, windows, ran, refused>>

(* After call_next: user_id is bound if there was a response, and the `finally`
   clears the context, with nothing in between. *)
ExitLogging(r) ==
  /\ at[r] = "logging_exit"
  /\ Goto(r, "metrics_exit")
  /\ context' = [context EXCEPT ![r]["metrics_child"] = Empty]
  /\ UNCHANGED <<incoming, answer, state, logs, counted, hits, windows, ran, refused>>

(* Slip: the counter moved out of the `finally`. *)
ExitMetricsOnResponse(r) ==
  /\ at[r] = "metrics_exit"
  /\ Goto(r, "send")
  /\ counted' = IF answer[r] = Raised THEN counted
                ELSE [counted EXCEPT ![r] = Append(@, answer[r])]
  /\ UNCHANGED <<incoming, answer, state, context, logs, hits, windows, ran, refused>>

ExitMetrics(r) ==
  /\ at[r] = "metrics_exit"
  /\ Goto(r, "send")
  /\ counted' = [counted EXCEPT ![r] = Append(@, IF answer[r] = Raised THEN 500 ELSE answer[r])]
  /\ UNCHANGED <<incoming, answer, state, context, logs, hits, windows, ran, refused>>

SendResponse(r) ==
  /\ at[r] = "send"
  /\ answer[r] # Raised
  /\ Goto(r, "answered")
  /\ UNCHANGED <<incoming, answer, state, context, logs, counted, hits, windows, ran, refused>>

(* ServerErrorMiddleware calls handle_unexpected_error in the outermost task. *)
SendServerError(r) ==
  /\ at[r] = "send"
  /\ answer[r] = Raised
  /\ Goto(r, "answered")
  /\ answer' = [answer EXCEPT ![r] = 500]
  /\ Log(r, "server", "unhandled_exception")
  /\ UNCHANGED <<incoming, state, context, counted, hits, windows, ran, refused>>

(* The fixed window of the limiter ends: its counters expire. *)
NextWindow ==
  /\ windows < MaxWindows
  /\ windows' = windows + 1
  /\ hits' = [path \in DOMAIN Limits |-> 0]
  /\ UNCHANGED <<incoming, at, answer, state, context, logs, counted, ran, refused>>

Auth(r) == RefuseEarly(r) \/ Unauthorized(r) \/ ScopeRaises(r) \/ Forbidden(r) \/ Authorized(r)

Endpoint(r) == EndpointReturns(r) \/ EndpointRefuses(r) \/ EndpointRaises(r)

Next ==
  \/ \E r \in Requests :
       \/ EnterMetrics(r) \/ EnterLogging(r) \/ ArriveInPublic(r) \/ Auth(r)
       \/ Invalid(r) \/ Valid(r) \/ CheckLimit(r) \/ Endpoint(r)
       \/ ExitLogging(r) \/ ExitMetrics(r)
       \/ SendResponse(r) \/ SendServerError(r)
  \/ NextWindow

Spec == Init /\ [][Next]_vars

-----------------------------------------------------------------------------
(* Type invariant. *)
TypeOK ==
  /\ incoming \in [Requests -> Incoming]
  /\ at \in [Requests -> Places]
  /\ answer \in [Requests -> {Raised, Unanswered, 200, 400, 401, 403, 404, 422, 429, 500, 503}]
  /\ \A r \in Requests :
       at[r] \in {"logging_exit", "metrics_exit", "send", "answered"} <=> answer[r] # Unanswered
  /\ \A r \in Requests : Len(counted[r]) = IF at[r] \in {"send", "answered"} THEN 1 ELSE 0
  /\ hits \in [DOMAIN Limits -> Nat]
  /\ windows \in 1..MaxWindows

(***************************************************************************)
(* docs/AUTH.md: what makes a token valid, from its table of claims.       *)
(***************************************************************************)
ValidToken(token) ==
  /\ token # NoToken
  /\ token.signed            \* "a bad signature is rejected before any claims are read"
  /\ token.fresh             \* exp
  /\ token.iss               \* "Must exactly match this service's JWT_ISSUER"
  /\ token.aud = "ours"      \* "Must exactly match this service's JWT_AUDIENCE"
  /\ token.sub # Nobody      \* "Required"

NamesIn(token) == {Nobody} \cup (IF token = NoToken THEN {} ELSE {token.sub})

(***************************************************************************)
(* A log line names nobody but the caller of the request it was written    *)
(* for, however requests interleave: bind_context in one request's task is *)
(* never seen by another's.                                                *)
(***************************************************************************)
LinesNameTheirCaller ==
  \A line \in logs :
    {line.session, line.user} \subseteq NamesIn(incoming[line.request].token)

(***************************************************************************)
(* http_requests_total counts every answered request once, under the       *)
(* status its caller got, although MetricsMiddleware guesses the 500 of an *)
(* exception that only ServerErrorMiddleware, outside of it, turns into a  *)
(* response.                                                               *)
(***************************************************************************)
CountedAsAnswered ==
  \A r \in Requests : at[r] = "answered" => counted[r] = <<answer[r]>>

LetThrough(path, w) == { p \in ran : p[2] = w /\ incoming[p[1]].path = path }

(***************************************************************************)
(* No window admits more requests to a route than its limit, and only      *)
(* valid callers use up that of POST /mask.                                *)
(***************************************************************************)
WithinLimit ==
  /\ \A path \in DOMAIN Limits, w \in 1..windows :
       Cardinality(LetThrough(path, w)) <= Limits[path]
  /\ \A w \in 1..windows, p \in ran :
       p \in LetThrough("mask", w) => ValidToken(incoming[p[1]].token)

(***************************************************************************)
(* 429 only when the route's own limit has been used up in that window:    *)
(* neither probes of /health nor requests that were refused otherwise take *)
(* anything away from POST /mask.                                          *)
(***************************************************************************)
RefusedWhenUsedUp ==
  \A p \in refused :
    Cardinality(LetThrough(incoming[p[1]].path, p[2])) = Limits[incoming[p[1]].path]

-----------------------------------------------------------------------------
Welcome == 2  \* no status: nothing is wrong with the request

(***************************************************************************)
(* What is wrong with a request, taken by itself.  docs/AUTH.md: 401 for a *)
(* token that is not valid, 403 for a valid one without the scope.  That   *)
(* the fields of the body count after these, and a body that is not JSON   *)
(* before, is not in docs/AUTH.md: FastAPI reads the body first, and then  *)
(* runs the dependencies.                                                  *)
(***************************************************************************)
VerdictOn(i) ==
  IF i.path = "none" THEN 404
  ELSE IF i.path # "mask" THEN Welcome
  ELSE IF ~i.json THEN 422
  ELSE IF ~ValidToken(i.token) THEN 401
  ELSE IF i.token.scope = NotString THEN 500
  ELSE IF ~(RequiredScopes \subseteq i.token.scope) THEN 403
  ELSE IF ~i.body THEN 422
  ELSE Welcome

(* The statuses of the endpoints: those of MaskPipeline's ends for POST /mask. *)
OutcomesOf ==
  [mask |-> {200, 400, 404, 500}, root |-> {200}, health |-> {200, 503}, metrics |-> {200}]

(* Where a request is, seen from outside: /metrics is public and unlimited. *)
StageOf(r) ==
  IF \/ at[r] = "endpoint"
     \/ r \in { p[1] : p \in ran }
     \/ incoming[r].path = "metrics" /\ answer[r] # Unanswered
  THEN "inside"
  ELSE IF r \in { p[1] : p \in refused } THEN "turned_away" ELSE "outside"

Gate == INSTANCE ApiGate WITH
  Verdict  <- [i \in Incoming |-> VerdictOn(i)],
  Outcomes <- OutcomesOf,
  stage    <- [r \in Requests |-> StageOf(r)],
  reply    <- [r \in Requests |-> IF at[r] = "answered" THEN answer[r] ELSE Unanswered],
  used     <- [path \in DOMAIN Limits |->
                 IF hits[path] < Limits[path] THEN hits[path] ELSE Limits[path]]

(***************************************************************************)
(* The whole chain of middlewares, dependencies, limiter and handlers is   *)
(* the gate that ApiGate describes: whoever is refused gets the status of  *)
(* what is wrong with the request itself, however requests and windows     *)
(* interleave; the endpoint is entered once, by requests in order only,    *)
(* with room in the window; and an exception anywhere ends in one answer.  *)
(***************************************************************************)
KeepsTheGate == Gate!Spec

=============================================================================
