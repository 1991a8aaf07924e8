-------------------------- MODULE EndpointMonitor --------------------------
(***************************************************************************)
(* IEndpointMonitor::health_check: attempt, evaluate, wait, attempt again.  *)
(*                                                                          *)
(* The object's members are settings and current_retry; the other code      *)
(* variables are the locals of the one call that is running (the program    *)
(* has one thread, and a monitor is never entered twice).  attempts and     *)
(* timeouts_applied are history: what the endpoint really did during the    *)
(* call, and how often apply_timeout slept.                                 *)
(***************************************************************************)
EXTENDS HttpEndpointMonitor, Sequences

CONSTANTS
  Settings,       \* the IEndpointMonitor::Settings a monitor may be built with
  Latencies,      \* values of end - start; system_clock may be set back
  MaxReservable,  \* the longest vectors reserve() finds memory for
  MaxCalls        \* bound: health_check calls on one object

ASSUME SettingsAssumption ==
  Settings \subseteq [url : Urls, request_type : RequestTypes,
                      timeout_seconds : Nat \ {0}, max_retries : Nat,
                      healthy_response_status_code : Nat]

ASSUME BoundsAssumption ==
  /\ Latencies \subseteq Int
  /\ MaxReservable \in Nat
  /\ MaxCalls \in Nat

VARIABLES
  settings,         \* member
  current_retry,    \* member
  pc,               \* where the call is; "idle" outside a call
  first_request, status_codes, status_messages, latencies_ms, response,
  result,           \* the HealthCheckResult, meaningful when pc = "returned"
  attempts,         \* history: [reply, elapsed] of each request of this call
  timeouts_applied, \* history: apply_timeout calls of this call
  calls             \* health_check calls so far

monitorVars == <<settings, current_retry, pc, first_request, status_codes,
                 status_messages, latencies_ms, response, result, attempts,
                 timeouts_applied, calls>>
vectors == <<status_codes, status_messages, latencies_ms>>

PCs == {"idle", "loop", "request", "evaluate", "returned", "thrown", "crashed"}

HealthCheckResults ==
  [url : Urls, success : BOOLEAN, status_codes : Seq(HttpStatuses \cup {0}),
   retries : Nat, latencies_ms : Seq(Latencies),
   status_messages : Seq(StatusMessages)]

\* Response{} and, before a call returns, no result.
NoResponse == [success |-> FALSE, status_code |-> 0, status_message |-> ""]
NoResult(s) ==
  [url |-> s.url, success |-> FALSE, status_codes |-> <<>>, retries |-> 0,
   latencies_ms |-> <<>>, status_messages |-> <<>>]

----------------------------------------------------------------------------
ResetCurrentRetry_Kept == current_retry

\* reset_current_retry
ResetCurrentRetry == 0

HasExceededMaxRetries_Strict == current_retry > settings.max_retries

\* has_exceeded_max_retries
HasExceededMaxRetries == current_retry >= settings.max_retries

IsResponseValid_StatusOnly(r) ==
  r.status_code = settings.healthy_response_status_code

\* is_response_valid, with is_response_status_code_healthy
IsResponseValid(r) ==
  r.success /\ r.status_code = settings.healthy_response_status_code

\* What health_check returns from either of its return statements.
Return(success) ==
  /\ result' = [url |-> settings.url, success |-> success,
                status_codes |-> status_codes, retries |-> current_retry,
                latencies_ms |-> latencies_ms,
                status_messages |-> status_messages]
  /\ pc' = "returned"
  /\ UNCHANGED <<settings, current_retry, first_request, vectors, response,
                 attempts, timeouts_applied, calls>>

----------------------------------------------------------------------------
\* Entry, on an object with settings s: the counter starts again, the locals
\* are fresh, and the three reserve(max_retries) find memory or throw.
EnterHealthCheck(s) ==
  /\ settings' = s
  /\ current_retry' = ResetCurrentRetry
  /\ first_request' = TRUE
  /\ status_codes' = <<>>
  /\ status_messages' = <<>>
  /\ latencies_ms' = <<>>
  /\ response' = NoResponse
  /\ result' = NoResult(s)
  /\ attempts' = <<>>
  /\ timeouts_applied' = 0
  /\ calls' = calls + 1
  /\ pc' = IF s.max_retries > MaxReservable THEN "thrown" ELSE "loop"

ApplyTimeout_Always == timeouts_applied + 1

\* apply_timeout, unless this is the first request.
ApplyTimeout == IF first_request THEN timeouts_applied ELSE timeouts_applied + 1

\* The head of the loop: the wait, then increase_current_retry.
BeginAttempt ==
  /\ pc = "loop"
  /\ first_request' = FALSE
  /\ timeouts_applied' = ApplyTimeout
  /\ current_retry' = current_retry + 1
  /\ pc' = "request"
  /\ UNCHANGED <<settings, vectors, response, result, attempts, calls>>

\* perform_request never reaches the network: the client rejects the URL's
\* scheme with an exception, or a port that does not parse leaves the client
\* without an implementation and setting its timeouts goes through a null
\* pointer.
ClientFails ==
  /\ pc = "request"
  /\ ClientThrows(settings) \/ ClientIsNull(settings)
  /\ pc' = IF ClientThrows(settings) THEN "thrown" ELSE "crashed"
  /\ UNCHANGED <<settings, current_retry, first_request, vectors, response,
                 result, attempts, timeouts_applied, calls>>

RecordResponse_SuccessOnly(r, elapsed) ==
  /\ status_codes' = Append(status_codes, r.status_code)
  /\ status_messages' =
       IF r.success THEN status_messages
       ELSE Append(status_messages, r.status_message)
  /\ latencies_ms' = Append(latencies_ms, elapsed)

\* The three emplace_back that follow perform_request.
RecordResponse(r, elapsed) ==
  /\ status_codes' = Append(status_codes, r.status_code)
  /\ status_messages' = Append(status_messages, r.status_message)
  /\ latencies_ms' = Append(latencies_ms, elapsed)

\* The endpoint answers, or the transport gives up: the request ends with a
\* response that is recorded, or with an exception out of parse_response.
RequestEnds(reply, elapsed) ==
  /\ pc = "request"
  /\ ~ClientThrows(settings) /\ ~ClientIsNull(settings)
  /\ attempts' = Append(attempts, [reply |-> reply, elapsed |-> elapsed])
  /\ IF ParseThrows(reply)
     THEN /\ pc' = "thrown"
          /\ UNCHANGED <<vectors, response>>
     ELSE /\ pc' = "evaluate"
          /\ response' = PerformRequest(settings, reply)
          /\ RecordResponse(PerformRequest(settings, reply), elapsed)
  /\ UNCHANGED <<settings, current_retry, first_request, result,
                 timeouts_applied, calls>>

ReturnHealthy ==
  /\ pc = "evaluate"
  /\ IsResponseValid(response)
  /\ Return(TRUE)

ReturnUnhealthy ==
  /\ pc = "evaluate"
  /\ ~IsResponseValid(response)
  /\ HasExceededMaxRetries
  /\ Return(FALSE)

LoopHead_Evaluates == "evaluate"

\* Where the do-while goes back to.
LoopHead == "loop"

Retry ==
  /\ pc = "evaluate"
  /\ ~IsResponseValid(response)
  /\ ~HasExceededMaxRetries
  /\ pc' = LoopHead
  /\ UNCHANGED <<settings, current_retry, first_request, vectors, response,
                 result, attempts, timeouts_applied, calls>>

\* The steps of a call, from its entry to its end.
HealthCheckStep ==
  \/ BeginAttempt
  \/ ClientFails
  \/ \E reply \in Replies(settings.request_type), elapsed \in Latencies :
       RequestEnds(reply, elapsed)
  \/ ReturnHealthy
  \/ ReturnUnhealthy
  \/ Retry

----------------------------------------------------------------------------
\* A monitor just built with settings s.
MonitorInit(s) ==
  /\ settings = s
  /\ current_retry = 0
  /\ pc = "idle"
  /\ first_request = TRUE
  /\ status_codes = <<>>
  /\ status_messages = <<>>
  /\ latencies_ms = <<>>
  /\ response = NoResponse
  /\ result = NoResult(s)
  /\ attempts = <<>>
  /\ timeouts_applied = 0
  /\ calls = 0

\* A monitor on its own, asked for its health again and again.
Init == \E s \in Settings : MonitorInit(s)

CallHealthCheck ==
  /\ pc \in {"idle", "returned"}
  /\ calls < MaxCalls
  /\ EnterHealthCheck(settings)

Next == CallHealthCheck \/ HealthCheckStep

\* The one thread keeps running, sleeps end, and, as it is one step, a request
\* ends: its endpoint at some point finishes its answer, closes the connection
\* or falls silent, and timeout_seconds in milliseconds fits an int (see
\* HttpRequest).  Nobody has to call a monitor again.
Spec == Init /\ [][Next]_monitorVars /\ WF_monitorVars(HealthCheckStep)

----------------------------------------------------------------------------
\* The attempts a call may make: the loop body runs once before max_retries
\* is looked at.
Budget(s) == IF s.max_retries = 0 THEN 1 ELSE s.max_retries

Attempts == [reply : AnyReply, elapsed : Latencies]

LastAttempt == attempts[Len(attempts)]

\* Every variable holds a value of its C++ type, and the counter stays inside
\* the budget of the settings.
TypeOK ==
  /\ settings \in Settings
  /\ current_retry \in 0 .. Budget(settings)
  /\ pc \in PCs
  /\ first_request \in BOOLEAN
  /\ status_codes \in Seq(HttpStatuses \cup {0})
  /\ status_messages \in Seq(StatusMessages)
  /\ latencies_ms \in Seq(Latencies)
  /\ response \in Responses
  /\ result \in HealthCheckResults
  /\ attempts \in Seq(Attempts)
  /\ timeouts_applied \in Nat
  /\ calls \in Nat

\* The endpoint is never asked more often in one call than the settings allow,
\* however the calls on the object follow each other and whatever it answers.
AttemptBudget == Len(attempts) <= Budget(settings)

\* health_check says "success" exactly when its last request met a healthy
\* endpoint; no request follows a healthy one; and it says "failure" only
\* after the whole budget was spent on unhealthy ones.
VerdictSound ==
  pc = "returned" =>
    /\ attempts # <<>>
    /\ result.success <=> Healthy(settings, LastAttempt.reply)
    /\ \A i \in 1 .. Len(attempts) - 1 : ~Healthy(settings, attempts[i].reply)
    /\ ~result.success => Len(attempts) = Budget(settings)

\* What the runner prints of a call is what happened: one status code, one
\* message and one latency for each request, in the order of the requests, and
\* as many "retries" as requests.
TranscriptFaithful ==
  pc = "returned" =>
    /\ result.retries = Len(attempts)
    /\ Len(result.status_codes) = Len(attempts)
    /\ Len(result.status_messages) = Len(attempts)
    /\ Len(result.latencies_ms) = Len(attempts)
    /\ \A i \in 1 .. Len(attempts) :
         /\ result.status_codes[i] = attempts[i].reply.status
         /\ result.latencies_ms[i] = attempts[i].elapsed
         /\ result.status_messages[i] = "" <=>
              attempts[i].reply.error = "" /\ attempts[i].reply.body # "not_json"

\* apply_timeout sleeps exactly between two requests: never before the first,
\* and never after the last, so a verdict is not delayed by a useless wait.
WaitsBetweenAttempts ==
  /\ pc \in {"request", "crashed"} => timeouts_applied = Len(attempts)
  /\ pc \in {"evaluate", "returned"} => timeouts_applied = Len(attempts) - 1

\* A call that was entered ends, with a verdict, with an exception, or with the
\* crash of the process, when each of its requests does (see Spec).
CallEnds == pc = "loop" ~> pc \in {"returned", "thrown", "crashed"}
----------------------------------------------------------------------------
\* The parts of the inductive invariant.

\* Every recorded answer is what perform_request makes of the reply it got.
Recorded ==
  /\ Len(status_codes) = Len(attempts)
  /\ Len(status_messages) = Len(attempts)
  /\ Len(latencies_ms) = Len(attempts)
  /\ \A i \in 1 .. Len(attempts) :
       /\ ~ParseThrows(attempts[i].reply)
       /\ status_codes[i] = PerformRequest(settings, attempts[i].reply).status_code
       /\ status_messages[i] =
            PerformRequest(settings, attempts[i].reply).status_message
       /\ latencies_ms[i] = attempts[i].elapsed

UnhealthyUpTo(n) == \A i \in 1 .. n : ~Healthy(settings, attempts[i].reply)

AtLoop ==
  /\ Recorded
  /\ current_retry = Len(attempts)
  /\ timeouts_applied = IF first_request THEN 0 ELSE Len(attempts) - 1
  /\ first_request <=> attempts = <<>>
  /\ ~first_request => current_retry < settings.max_retries
  /\ UnhealthyUpTo(Len(attempts))

AtRequest ==
  /\ Recorded
  /\ ~first_request
  /\ current_retry = Len(attempts) + 1
  /\ timeouts_applied = Len(attempts)
  /\ UnhealthyUpTo(Len(attempts))

AfterRequest ==
  /\ Recorded
  /\ ~first_request
  /\ attempts # <<>>
  /\ current_retry = Len(attempts)
  /\ timeouts_applied = Len(attempts) - 1
  /\ UnhealthyUpTo(Len(attempts) - 1)

AtReturn ==
  /\ AfterRequest
  /\ result.url = settings.url
  /\ result.status_codes = status_codes
  /\ result.status_messages = status_messages
  /\ result.latencies_ms = latencies_ms
  /\ result.retries = current_retry
  /\ result.success <=> Healthy(settings, LastAttempt.reply)
  /\ ~result.success => Len(attempts) = Budget(settings)

\* Where a call stands, the counter, the waits, the vectors and the attempts
\* agree: health_check keeps its locals and its member in step with what it
\* has asked of the endpoint.  The invariant that makes the others inductive.
MonitorInv ==
  /\ TypeOK
  /\ AttemptBudget
  /\ pc = "loop" => AtLoop
  /\ pc \in {"request", "crashed"} => AtRequest
  /\ pc = "evaluate" =>
       AfterRequest /\ response = PerformRequest(settings, LastAttempt.reply)
  /\ pc = "returned" => AtReturn
=============================================================================
