------------------------ MODULE EndpointMonitorProofs ------------------------
(***************************************************************************)
(* What health_check guarantees for every set of endpoints, settings and    *)
(* answers: MonitorInv is inductive, and the invariants follow from it.     *)
(***************************************************************************)
EXTENDS EndpointMonitor, TLAPS

\* perform_request, for a reply that parse_response does not throw on, gives
\* a response, and one that is valid exactly when the endpoint was healthy.
LEMMA ResponseOfReply ==
  ASSUME NEW s \in Settings, NEW reply \in AnyReply, ~ParseThrows(reply)
  PROVE  /\ PerformRequest(s, reply) \in Responses
         /\ PerformRequest(s, reply).status_code = reply.status
         /\ PerformRequest(s, reply).status_message = "" <=>
              reply.error = "" /\ reply.body # "not_json"
         /\ Healthy(s, reply) <=>
              /\ PerformRequest(s, reply).success
              /\ PerformRequest(s, reply).status_code =
                   s.healthy_response_status_code
<1>1. CASE reply \in TransportFailures
  BY <1>1, RepliesAssumption
  DEF TransportFailures, PerformRequest, Healthy, Responses, StatusMessages
<1>2. CASE reply \in [error : {""}, status : HttpStatuses, body : Bodies]
  BY <1>2
  DEF PerformRequest, ParseResponse, ParseThrows, Bodies, Healthy, Responses,
      StatusMessages
<1> QED
  BY <1>1, <1>2 DEF AnyReply

\* The counter and the settings of a call, in the arithmetic the steps need.
LEMMA BudgetFacts ==
  ASSUME NEW s \in Settings
  PROVE  /\ s.max_retries \in Nat
         /\ Budget(s) \in Nat /\ Budget(s) >= 1
         /\ \A n \in Nat : n >= 1 /\ n >= s.max_retries => n >= Budget(s)
         /\ \A n \in Nat : n < s.max_retries => n + 1 <= Budget(s)
BY SettingsAssumption DEF Budget

----------------------------------------------------------------------------
\* The placeholders of a call that has no response or result yet are typed.
LEMMA NoResultTyped ==
  ASSUME NEW s \in Settings
  PROVE  /\ NoResult(s) \in HealthCheckResults
         /\ NoResponse \in Responses
BY SettingsAssumption
DEF NoResult, NoResponse, HealthCheckResults, Responses, StatusMessages

\* A monitor just built satisfies the invariant.
LEMMA InitInv ==
  ASSUME NEW s \in Settings, MonitorInit(s)
  PROVE  MonitorInv
BY NoResultTyped, BudgetFacts
DEF MonitorInit, MonitorInv, TypeOK, AttemptBudget, PCs

\* A call begins with a clean slate, whatever the object went through before.
LEMMA EnterInv ==
  ASSUME NEW s \in Settings, calls \in Nat, EnterHealthCheck(s)
  PROVE  MonitorInv'
<1>1. TypeOK'
  BY NoResultTyped, BudgetFacts DEF EnterHealthCheck, TypeOK, PCs, ResetCurrentRetry
<1>2. AttemptBudget'
  BY BudgetFacts DEF EnterHealthCheck, AttemptBudget
<1>3. AtLoop'
  BY DEF EnterHealthCheck, AtLoop, Recorded, UnhealthyUpTo, ResetCurrentRetry
<1>4. pc' \in {"thrown", "loop"}
  BY DEF EnterHealthCheck
<1> QED
  BY <1>1, <1>2, <1>3, <1>4 DEF MonitorInv

\* Going round the loop, the counter is still below max_retries, so that the
\* next attempt is inside the budget.
LEMMA BeginAttemptInv ==
  ASSUME MonitorInv, BeginAttempt
  PROVE  MonitorInv'
<1> USE DEF BeginAttempt
<1>1. AtLoop /\ TypeOK /\ AttemptBudget /\ settings \in Settings
  BY DEF MonitorInv, TypeOK
<1>2. current_retry + 1 <= Budget(settings)
  <2>1. CASE first_request
    <3>1. current_retry = 0
      BY <1>1, <2>1 DEF AtLoop
    <3> QED
      BY <1>1, <3>1, BudgetFacts
  <2>2. CASE ~first_request
    BY <1>1, <2>2, BudgetFacts DEF AtLoop, TypeOK
  <2> QED
    BY <2>1, <2>2
<1>3. TypeOK'
  <2>1. current_retry' \in 0 .. Budget(settings')
    BY <1>1, <1>2, BudgetFacts DEF TypeOK
  <2>2. timeouts_applied' \in Nat
    BY <1>1 DEF TypeOK, ApplyTimeout
  <2> QED
    BY <1>1, <2>1, <2>2 DEF TypeOK, PCs, vectors
<1>4. AttemptBudget'
  BY <1>1 DEF AttemptBudget
<1>5. AtRequest'
  <2>1. Recorded' /\ UnhealthyUpTo(Len(attempts))'
    BY <1>1 DEF AtLoop, Recorded, UnhealthyUpTo, vectors
  <2>2. timeouts_applied' = Len(attempts')
    BY <1>1 DEF AtLoop, ApplyTimeout, TypeOK
  <2> QED
    BY <1>1, <2>1, <2>2 DEF AtLoop, AtRequest
<1> QED
  BY <1>3, <1>4, <1>5 DEF MonitorInv

\* A client that cannot be used ends the call without an attempt on record.
LEMMA ClientFailsInv ==
  ASSUME MonitorInv, ClientFails
  PROVE  MonitorInv'
<1> USE DEF ClientFails
<1>1. AtRequest /\ TypeOK /\ AttemptBudget
  BY DEF MonitorInv
<1>2. TypeOK'
  BY <1>1 DEF TypeOK, PCs, vectors
<1>3. AttemptBudget'
  BY <1>1 DEF AttemptBudget
<1>4. AtRequest'
  BY <1>1 DEF AtRequest, Recorded, UnhealthyUpTo, vectors
<1>5. pc' \in {"thrown", "crashed"}
  OBVIOUS
<1> QED
  BY <1>2, <1>3, <1>4, <1>5 DEF MonitorInv

\* A request is made and recorded, or its exception ends the call.
LEMMA RequestEndsInv ==
  ASSUME MonitorInv,
         NEW reply \in AnyReply, NEW elapsed \in Latencies,
         RequestEnds(reply, elapsed)
  PROVE  MonitorInv'
<1> DEFINE n == Len(attempts)
<1>1. AtRequest /\ TypeOK /\ AttemptBudget
  BY DEF MonitorInv, RequestEnds
<1>2. /\ attempts' = Append(attempts, [reply |-> reply, elapsed |-> elapsed])
      /\ attempts' \in Seq(Attempts)
      /\ Len(attempts') = n + 1
      /\ \A i \in 1 .. n : attempts'[i] = attempts[i]
      /\ attempts'[n + 1] = [reply |-> reply, elapsed |-> elapsed]
  BY <1>1 DEF RequestEnds, TypeOK, Attempts
<1>3. AttemptBudget'
  BY <1>1, <1>2 DEF AttemptBudget, AtRequest, RequestEnds, TypeOK
<1>4. CASE ParseThrows(reply)
  <2>1. TypeOK'
    BY <1>1, <1>2, <1>4 DEF RequestEnds, TypeOK, PCs, vectors
  <2> QED
    BY <1>3, <1>4, <2>1 DEF MonitorInv, RequestEnds
<1>5. CASE ~ParseThrows(reply)
  <2>1. PICK r : r = PerformRequest(settings, reply)
    OBVIOUS
  <2>2. /\ response' = r
        /\ pc' = "evaluate"
        /\ status_codes' = Append(status_codes, r.status_code)
        /\ status_messages' = Append(status_messages, r.status_message)
        /\ latencies_ms' = Append(latencies_ms, elapsed)
        /\ UNCHANGED <<settings, current_retry, first_request, result,
                       timeouts_applied, calls>>
    BY <1>5, <2>1 DEF RequestEnds, RecordResponse
  <2>3. r \in Responses
    BY <1>1, <1>5, <2>1, ResponseOfReply DEF TypeOK
  <2>4. /\ r.status_code \in HttpStatuses \cup {0}
        /\ r.status_message \in StatusMessages
    BY <2>3 DEF Responses
  <2>5. TypeOK'
    BY <1>1, <1>2, <2>2, <2>3, <2>4 DEF TypeOK, PCs
  <2>6. Recorded'
    <3>1. /\ Len(status_codes') = n + 1
          /\ Len(status_messages') = n + 1
          /\ Len(latencies_ms') = n + 1
      BY <1>1, <2>2, <2>4 DEF AtRequest, Recorded, TypeOK
    <3>2. /\ status_codes'[n + 1] = r.status_code
          /\ status_messages'[n + 1] = r.status_message
          /\ latencies_ms'[n + 1] = elapsed
      BY <1>1, <2>2, <2>4 DEF AtRequest, Recorded, TypeOK
    <3>3. \A i \in 1 .. n : /\ status_codes'[i] = status_codes[i]
                            /\ status_messages'[i] = status_messages[i]
                            /\ latencies_ms'[i] = latencies_ms[i]
      BY <1>1, <2>2, <2>4 DEF AtRequest, Recorded, TypeOK
    <3>4. attempts'[n + 1].reply = reply /\ attempts'[n + 1].elapsed = elapsed
      BY <1>2
    <3>5. ASSUME NEW i \in 1 .. n + 1
          PROVE  /\ ~ParseThrows(attempts'[i].reply)
                 /\ status_codes'[i] =
                      PerformRequest(settings', attempts'[i].reply).status_code
                 /\ status_messages'[i] =
                      PerformRequest(settings', attempts'[i].reply).status_message
                 /\ latencies_ms'[i] = attempts'[i].elapsed
      <4>1. CASE i = n + 1
        BY <1>5, <2>1, <2>2, <3>2, <3>4, <4>1
      <4>2. CASE i \in 1 .. n
        BY <1>1, <1>2, <2>2, <3>3, <4>2 DEF AtRequest, Recorded
      <4>3. n \in Nat
        BY <1>1 DEF TypeOK
      <4> QED
        BY <4>1, <4>2, <4>3
    <3> QED
      BY <1>2, <3>1, <3>5 DEF Recorded
  <2>7. UnhealthyUpTo(Len(attempts) - 1)'
    BY <1>1, <1>2, <2>2 DEF UnhealthyUpTo, AtRequest, TypeOK
  <2>8. AfterRequest'
    BY <1>1, <1>2, <2>2, <2>6, <2>7 DEF AfterRequest, AtRequest, TypeOK
  <2>9. response' = PerformRequest(settings, LastAttempt.reply)'
    BY <1>2, <2>1, <2>2 DEF LastAttempt
  <2> QED
    BY <1>3, <2>2, <2>5, <2>8, <2>9 DEF MonitorInv
<1> QED
  BY <1>4, <1>5

\* The reply of every attempt on record is one an endpoint can give.
LEMMA AttemptTyped ==
  ASSUME TypeOK, NEW i \in 1 .. Len(attempts)
  PROVE  attempts[i].reply \in AnyReply
<1>1. attempts[i] \in Attempts
  BY DEF TypeOK
<1> QED
  BY <1>1 DEF Attempts

\* In the evaluation of a response, "valid" is "healthy".
LEMMA ValidIsHealthy ==
  ASSUME MonitorInv, pc = "evaluate"
  PROVE  /\ IsResponseValid(response) <=> Healthy(settings, LastAttempt.reply)
         /\ AfterRequest
         /\ TypeOK
         /\ AttemptBudget
<1>1. /\ AfterRequest
      /\ response = PerformRequest(settings, LastAttempt.reply)
      /\ TypeOK
      /\ AttemptBudget
  BY DEF MonitorInv
<1>2. /\ LastAttempt.reply \in AnyReply
      /\ ~ParseThrows(LastAttempt.reply)
  <2>1. Len(attempts) \in 1 .. Len(attempts)
    BY <1>1 DEF AfterRequest, TypeOK
  <2> QED
    BY <1>1, <2>1, AttemptTyped DEF AfterRequest, Recorded, LastAttempt
<1> QED
  BY <1>1, <1>2, ResponseOfReply DEF IsResponseValid, TypeOK

\* Either return statement.
LEMMA ReturnInv ==
  ASSUME MonitorInv, pc = "evaluate",
         NEW success \in BOOLEAN,
         success <=> Healthy(settings, LastAttempt.reply),
         ~success => HasExceededMaxRetries,
         Return(success)
  PROVE  MonitorInv'
<1>1. AfterRequest /\ TypeOK /\ AttemptBudget
  BY ValidIsHealthy
<1>2. result' \in HealthCheckResults
  BY <1>1, SettingsAssumption DEF Return, TypeOK, HealthCheckResults, AfterRequest
<1>3. TypeOK'
  BY <1>1, <1>2 DEF Return, TypeOK, PCs, vectors
<1>4. AttemptBudget'
  BY <1>1 DEF Return, AttemptBudget
<1>5. AfterRequest'
  BY <1>1 DEF Return, AfterRequest, Recorded, UnhealthyUpTo, vectors
<1>6. ~success => Len(attempts) = Budget(settings)
  BY <1>1, BudgetFacts
  DEF HasExceededMaxRetries, AfterRequest, AttemptBudget, TypeOK
<1>7. AtReturn'
  BY <1>5, <1>6 DEF Return, AtReturn, LastAttempt, vectors
<1> QED
  BY <1>3, <1>4, <1>7 DEF MonitorInv, Return

\* The loop goes on after an unhealthy answer, and only below max_retries.
LEMMA RetryInv ==
  ASSUME MonitorInv, Retry
  PROVE  MonitorInv'
<1>1. AfterRequest /\ TypeOK /\ AttemptBudget
  BY ValidIsHealthy DEF Retry
<1>2. ~Healthy(settings, LastAttempt.reply)
  BY ValidIsHealthy DEF Retry
<1>3. UnhealthyUpTo(Len(attempts))
  BY <1>1, <1>2 DEF AfterRequest, UnhealthyUpTo, LastAttempt, TypeOK
<1>4. current_retry < settings.max_retries
  BY <1>1, BudgetFacts DEF Retry, HasExceededMaxRetries, TypeOK
<1>5. TypeOK' /\ AttemptBudget'
  BY <1>1 DEF Retry, TypeOK, PCs, AttemptBudget, vectors, LoopHead
<1>6. AtLoop'
  BY <1>1, <1>3, <1>4
  DEF Retry, AtLoop, AfterRequest, Recorded, UnhealthyUpTo, vectors
<1> QED
  BY <1>5, <1>6 DEF MonitorInv, Retry, LoopHead

\* Every step of a call keeps the invariant, and leaves the settings alone.
LEMMA StepInv ==
  ASSUME MonitorInv, HealthCheckStep
  PROVE  MonitorInv' /\ UNCHANGED <<settings, calls>>
<1>1. CASE BeginAttempt
  BY <1>1, BeginAttemptInv DEF BeginAttempt
<1>2. CASE ClientFails
  BY <1>2, ClientFailsInv DEF ClientFails
<1>3. ASSUME NEW reply \in Replies(settings.request_type),
             NEW elapsed \in Latencies,
             RequestEnds(reply, elapsed)
      PROVE  MonitorInv' /\ UNCHANGED <<settings, calls>>
  <2>1. reply \in AnyReply
    BY DEF Replies, HttpReplies, AnyReply
  <2> QED
    BY <1>3, <2>1, RequestEndsInv DEF RequestEnds
<1>4. CASE ReturnHealthy
  <2>1. TRUE <=> Healthy(settings, LastAttempt.reply)
    BY <1>4, ValidIsHealthy DEF ReturnHealthy
  <2> QED
    BY <1>4, <2>1, ReturnInv DEF ReturnHealthy, Return
<1>5. CASE ReturnUnhealthy
  <2>1. FALSE <=> Healthy(settings, LastAttempt.reply)
    BY <1>5, ValidIsHealthy DEF ReturnUnhealthy
  <2> QED
    BY <1>5, <2>1, ReturnInv DEF ReturnUnhealthy, Return
<1>6. CASE Retry
  BY <1>6, RetryInv DEF Retry
<1> QED
  BY <1>1, <1>2, <1>3, <1>4, <1>5, <1>6 DEF HealthCheckStep

\* The invariant reads nothing but the variables of the monitor.
LEMMA StutterInv ==
  ASSUME MonitorInv, UNCHANGED monitorVars
  PROVE  MonitorInv'
BY DEF monitorVars, MonitorInv, TypeOK, AttemptBudget, AtLoop, AtRequest,
   AfterRequest, AtReturn, Recorded, UnhealthyUpTo, LastAttempt

----------------------------------------------------------------------------
\* health_check keeps its counter, its waits, its vectors and its verdict in
\* step with the requests it makes.
THEOREM InvariantHolds == Spec => []MonitorInv
<1>1. Init => MonitorInv
  BY InitInv DEF Init
<1>2. MonitorInv /\ [Next]_monitorVars => MonitorInv'
  <2> SUFFICES ASSUME MonitorInv, [Next]_monitorVars
               PROVE  MonitorInv'
    OBVIOUS
  <2>1. CASE CallHealthCheck
    <3>1. settings \in Settings /\ calls \in Nat
      BY DEF MonitorInv, TypeOK
    <3> QED
      BY <2>1, <3>1, EnterInv DEF CallHealthCheck
  <2>2. CASE HealthCheckStep
    BY <2>2, StepInv
  <2>3. CASE UNCHANGED monitorVars
    BY <2>3, StutterInv
  <2> QED
    BY <2>1, <2>2, <2>3 DEF Next
<1> QED
  BY <1>1, <1>2, PTL DEF Spec

\* Type correctness, with the counter inside the budget of the settings.
THEOREM TypeCorrect == Spec => []TypeOK
<1>1. MonitorInv => TypeOK
  BY DEF MonitorInv
<1> QED
  BY <1>1, InvariantHolds, PTL

\* No sequence of calls and answers makes health_check ask an endpoint more
\* often than its settings allow.
THEOREM NeverOverBudget == Spec => []AttemptBudget
<1>1. MonitorInv => AttemptBudget
  BY DEF MonitorInv
<1> QED
  BY <1>1, InvariantHolds, PTL

\* "Success" is a healthy last answer, after none that was; "failure" is the
\* whole budget of unhealthy ones.
THEOREM VerdictIsSound == Spec => []VerdictSound
<1>1. MonitorInv => VerdictSound
  BY DEF MonitorInv, VerdictSound, AtReturn, AfterRequest, UnhealthyUpTo
<1> QED
  BY <1>1, InvariantHolds, PTL

\* apply_timeout sleeps between two requests, and only there.
THEOREM WaitsOnlyBetween == Spec => []WaitsBetweenAttempts
<1>1. MonitorInv => WaitsBetweenAttempts
  BY DEF MonitorInv, WaitsBetweenAttempts, AtReturn, AfterRequest, AtRequest
<1> QED
  BY <1>1, InvariantHolds, PTL

\* The result holds, in order, the status, the message and the latency of
\* every request, and their number.
THEOREM TranscriptIsFaithful == Spec => []TranscriptFaithful
<1>1. MonitorInv => TranscriptFaithful
  <2> SUFFICES ASSUME MonitorInv, pc = "returned"
               PROVE  TranscriptFaithful
    BY DEF TranscriptFaithful
  <2>1. AtReturn /\ AfterRequest /\ Recorded /\ TypeOK
    BY DEF MonitorInv, AtReturn, AfterRequest
  <2>2. ASSUME NEW i \in 1 .. Len(attempts)
        PROVE  /\ status_codes[i] = attempts[i].reply.status
               /\ status_messages[i] = "" <=>
                    attempts[i].reply.error = "" /\
                    attempts[i].reply.body # "not_json"
    <3>1. attempts[i].reply \in AnyReply
      BY <2>1, AttemptTyped
    <3>2. ~ParseThrows(attempts[i].reply)
      BY <2>1 DEF Recorded
    <3> QED
      BY <2>1, <3>1, <3>2, ResponseOfReply DEF Recorded, TypeOK
  <2> QED
    BY <2>1, <2>2 DEF TranscriptFaithful, AtReturn, AfterRequest, Recorded
<1> QED
  BY <1>1, InvariantHolds, PTL
=============================================================================
