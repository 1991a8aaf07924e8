-------------------------- MODULE HealthCheckRunner --------------------------
(***************************************************************************)
(* HealthCheckRunner::run, from the loaded configuration to its return: the *)
(* monitors are built, every one of them is asked for its health, and only  *)
(* then are the results reported.  The health_check of the monitor at hand  *)
(* is the EndpointMonitor this module extends, one object after the other.  *)
(*                                                                          *)
(* What goes to the logger is kept as three sequences: the apps ignored by  *)
(* build_monitors, the lines of the report, and what became of the mails.   *)
(* evidence is history: the requests behind each result.                    *)
(***************************************************************************)
EXTENDS EndpointMonitor, FiniteSets

CONSTANTS
  Apps,     \* Config::App records, each with the fields of Settings and active
  Configs   \* the app lists a loaded configuration may hold

\* The settings create_http_monitor gives to a monitor.
MonitorSettings(app) ==
  [url |-> app.url, request_type |-> app.request_type,
   timeout_seconds |-> app.timeout_seconds, max_retries |-> app.max_retries,
   healthy_response_status_code |-> app.healthy_response_status_code]

\* parse_request_type finds no request type.  It upper-cases the name before it
\* looks it up; Config::validate_app lets only upper-case names through, and of
\* those the factory finds the same ones without.
FactoryThrows(app) == app.request_type \notin RequestTypes

ASSUME AppsAssumption ==
  /\ \A app \in Apps :
       /\ app.active \in BOOLEAN
       /\ ~FactoryThrows(app) => MonitorSettings(app) \in Settings
  /\ Configs \subseteq Seq(Apps)

VARIABLES
  apps,      \* config.get_apps()
  phase,     \* where run is
  next,      \* position of the loop of that phase
  monitors,  \* [app, settings]; app is history: the entry it was built from
  results,
  ignored,   \* positions of the inactive apps warned about
  reports,   \* [kind, url] of the "OK" and "FAIL" lines
  mails,     \* [to, report, outcome]; report is history: the line before it
  evidence   \* history: the attempts of the call behind each result

runnerVars == <<apps, phase, next, monitors, results, ignored, reports, mails,
                evidence>>
vars == <<monitorVars, runnerVars>>

Phases == {"build", "check", "report", "finished", "failed", "killed"}
Ended == {"finished", "failed", "killed"}

\* How send_email ends: no curl handle, curl_easy_perform fails, or it does
\* not.  run looks at none of them.
MailOutcomes == {"no_handle", "failed", "sent"}

TestRecipient == "test@test.com"

----------------------------------------------------------------------------
RunnerInit ==
  /\ \E s \in Settings : MonitorInit(s)  \* any: no call is running yet
  /\ apps \in Configs
  /\ phase = "build"
  /\ next = 1
  /\ monitors = <<>>
  /\ results = <<>>
  /\ ignored = <<>>
  /\ reports = <<>>
  /\ mails = <<>>
  /\ evidence = <<>>

----------------------------------------------------------------------------
\* build_monitors, an active app: its monitor is built, or the factory's
\* exception ends the run.
BuildMonitor ==
  /\ phase = "build"
  /\ next <= Len(apps)
  /\ apps[next].active
  /\ IF FactoryThrows(apps[next])
     THEN /\ phase' = "failed"
          /\ UNCHANGED <<next, monitors>>
     ELSE /\ monitors' = Append(monitors, [app |-> next,
                                  settings |-> MonitorSettings(apps[next])])
          /\ next' = next + 1
          /\ UNCHANGED phase
  /\ UNCHANGED <<monitorVars, apps, results, ignored, reports, mails, evidence>>

\* build_monitors, an inactive app.
IgnoreApp ==
  /\ phase = "build"
  /\ next <= Len(apps)
  /\ ~apps[next].active
  /\ ignored' = Append(ignored, next)
  /\ next' = next + 1
  /\ UNCHANGED <<monitorVars, apps, phase, monitors, results, reports, mails,
                 evidence>>

First_Zero == 0

\* Where each loop begins.
First == 1

\* build_monitors returns, and the loop over the monitors begins.
StartChecking ==
  /\ phase = "build"
  /\ next > Len(apps)
  /\ phase' = "check"
  /\ next' = First
  /\ UNCHANGED <<monitorVars, apps, monitors, results, ignored, reports, mails,
                 evidence>>

\* monitor->health_check(): the call, and its steps.
CheckMonitor ==
  /\ phase = "check"
  /\ pc = "idle"
  /\ next <= Len(monitors)
  /\ EnterHealthCheck(monitors[next].settings)
  /\ UNCHANGED runnerVars

RunMonitor ==
  /\ phase = "check"
  /\ HealthCheckStep
  /\ UNCHANGED runnerVars

WithResult_SuccessOnly ==
  IF result.success THEN Append(results, result) ELSE results

WithResult_Front == <<result>> \o results

\* results.push_back(result)
WithResult == Append(results, result)

\* health_check returned.
CollectResult ==
  /\ phase = "check"
  /\ pc = "returned"
  /\ results' = WithResult
  /\ evidence' = Append(evidence, attempts)
  /\ next' = next + 1
  /\ pc' = "idle"
  /\ UNCHANGED <<settings, current_retry, first_request, vectors, response,
                 result, attempts, timeouts_applied, calls, apps, phase,
                 monitors, ignored, reports, mails>>

\* health_check does not return: its exception passes through run to the
\* handler in main, or the process dies.  results goes with it.
AbandonRun ==
  /\ phase = "check"
  /\ pc \in {"thrown", "crashed"}
  /\ phase' = IF pc = "thrown" THEN "failed" ELSE "killed"
  /\ UNCHANGED <<monitorVars, apps, next, monitors, results, ignored, reports,
                 mails, evidence>>

AllChecked_AnyResult == results # <<>>

AllChecked == next > Len(monitors)

\* Every monitor was asked: the loop over the results begins.
StartReporting ==
  /\ phase = "check"
  /\ pc = "idle"
  /\ AllChecked
  /\ phase' = "report"
  /\ next' = First
  /\ UNCHANGED <<monitorVars, apps, monitors, results, ignored, reports, mails,
                 evidence>>

----------------------------------------------------------------------------
Line(kind) == Append(reports, [kind |-> kind, url |-> results[next].url])

\* A healthy endpoint: its line, then the mail, whose end nobody looks at.
ReportSuccess(outcome) ==
  /\ phase = "report"
  /\ next <= Len(results)
  /\ results[next].success
  /\ reports' = Line("OK")
  /\ mails' = Append(mails, [to |-> TestRecipient, report |-> next,
                             outcome |-> outcome])
  /\ next' = next + 1
  /\ UNCHANGED <<monitorVars, apps, phase, monitors, results, ignored, evidence>>

ReportFailure_Mails ==
  /\ phase = "report"
  /\ next <= Len(results)
  /\ ~results[next].success
  /\ reports' = Line("FAIL")
  /\ mails' = Append(mails, [to |-> TestRecipient, report |-> next,
                             outcome |-> "sent"])
  /\ next' = next + 1
  /\ UNCHANGED <<monitorVars, apps, phase, monitors, results, ignored, evidence>>

\* An unhealthy one: its line.
ReportFailure ==
  /\ phase = "report"
  /\ next <= Len(results)
  /\ ~results[next].success
  /\ reports' = Line("FAIL")
  /\ next' = next + 1
  /\ UNCHANGED <<monitorVars, apps, phase, monitors, results, ignored, mails,
                 evidence>>

Finish ==
  /\ phase = "report"
  /\ next > Len(results)
  /\ phase' = "finished"
  /\ UNCHANGED <<monitorVars, apps, next, monitors, results, ignored, reports,
                 mails, evidence>>

RunnerNext ==
  \/ BuildMonitor
  \/ IgnoreApp
  \/ StartChecking
  \/ CheckMonitor
  \/ RunMonitor
  \/ CollectResult
  \/ AbandonRun
  \/ StartReporting
  \/ \E outcome \in MailOutcomes : ReportSuccess(outcome)
  \/ ReportFailure
  \/ Finish

\* One thread, which keeps running.  A request and a mail are one step each, so
\* this assumes that each of them ends.  A mail does, on the total limit of its
\* transfer (EmailSender).  A request does when its endpoint at some point
\* finishes its answer, closes the connection or falls silent, and
\* timeout_seconds in milliseconds fits an int (HttpRequest): httplib bounds one
\* wait, not their number.
RunnerSpec == RunnerInit /\ [][RunnerNext]_vars /\ WF_vars(RunnerNext)

----------------------------------------------------------------------------
ActiveApps == { i \in DOMAIN apps : apps[i].active }

Monitors == [app : Nat \ {0}, settings : Settings]

ReportLines == [kind : {"OK", "FAIL"}, url : Urls]

Mails == [to : {TestRecipient}, report : Nat \ {0}, outcome : MailOutcomes]

\* Every variable holds a value of its type, and the loops' position stays
\* inside or just behind what they loop over.
RunnerTypeOK ==
  /\ TypeOK
  /\ apps \in Seq(Apps)
  /\ phase \in Phases
  /\ next \in 1 .. Len(apps) + 1
  /\ monitors \in Seq(Monitors)
  /\ results \in Seq(HealthCheckResults)
  /\ ignored \in Seq(Nat \ {0})
  /\ reports \in Seq(ReportLines)
  /\ mails \in Seq(Mails)
  /\ evidence \in Seq(Seq(Attempts))

\* The configured endpoint of every line of the report is the one that was
\* asked, and the line says "OK" exactly when its last request met a healthy
\* endpoint, and "FAIL" only after every attempt it is configured for.
ReportTruthful ==
  \A k \in DOMAIN reports :
    LET app == apps[monitors[k].app]
        asked == evidence[k]
    IN  /\ app.active
        /\ reports[k].url = app.url
        /\ asked # <<>>
        /\ reports[k].kind = "OK" <=>
             Healthy(MonitorSettings(app), asked[Len(asked)].reply)
        /\ reports[k].kind = "FAIL" =>
             /\ Len(asked) = Budget(MonitorSettings(app))
             /\ \A i \in DOMAIN asked :
                  ~Healthy(MonitorSettings(app), asked[i].reply)

\* No line, and no mail, before every active app has its result, each from one
\* call; and a run that an exception or a crash ends has reported nothing.
ReportsAfterAllChecks ==
  reports # <<>> =>
    /\ phase \in {"report", "finished"}
    /\ Len(results) = Cardinality(ActiveApps)
    /\ calls = Cardinality(ActiveApps)

\* A finished run has one line for each active app and one warning for each
\* other, both in the order of the configuration.
EveryAppReportedOnce ==
  /\ \A j, k \in DOMAIN monitors : j < k => monitors[j].app < monitors[k].app
  /\ \A j, k \in DOMAIN ignored : j < k => ignored[j] < ignored[k]
  /\ phase = "finished" =>
       /\ Len(reports) = Len(monitors)
       /\ { monitors[k].app : k \in DOMAIN monitors } = ActiveApps
       /\ { ignored[k] : k \in DOMAIN ignored } = DOMAIN apps \ ActiveApps

\* The mails of a run are those of its "OK" lines, in their order, one each,
\* however the earlier ones ended.
MailsFollowSuccess ==
  /\ \A j, k \in DOMAIN mails : j < k => mails[j].report < mails[k].report
  /\ { mails[j].report : j \in DOMAIN mails } =
       { k \in DOMAIN reports : reports[k].kind = "OK" }

\* The run ends, whatever the mail server does, and for every endpoint that at
\* some point finishes its answer, closes the connection or falls silent, with a
\* timeout_seconds whose milliseconds fit an int.  Not for one that goes on
\* sending for ever, a byte before each timeout or one 100 Continue after the
\* other.
RunEnds == <>(phase \in Ended)

\* The mapping to HealthReport: the apps whose results are in, the lines of
\* the report as verdicts about apps, and how the run ended.
Up == { monitors[k].app : k \in { j \in DOMAIN results : results[j].success } }
Down == { monitors[k].app : k \in { j \in DOMAIN results : ~results[j].success } }

Verdicts ==
  { [target |-> monitors[k].app, ok |-> reports[k].kind = "OK"] :
      k \in DOMAIN reports }

RunStatus ==
  IF phase = "finished" THEN "done"
  ELSE IF phase \in {"failed", "killed"} THEN "failed" ELSE "running"

Promise == INSTANCE HealthReport WITH
  targets <- ActiveApps, up <- Up, down <- Down, published <- Verdicts,
  status <- RunStatus

\* The run keeps what HealthReport promises, its fairness included.
ImplementsHealthReport == Promise!Spec

----------------------------------------------------------------------------
\* README.md, "How It Works", 6: "Sends an email to the specified
\* administrators if any health check fails after retries".
FailureIsMailed ==
  phase = "finished" =>
    \A k \in DOMAIN reports :
      reports[k].kind = "FAIL" => \E j \in DOMAIN mails : mails[j].report = k

\* README.md, "How It Works", 4: "Results are logged (status, retries,
\* latency)".
ResultsAreLogged ==
  phase \in {"finished", "failed"} => Len(reports) = Len(results)
----------------------------------------------------------------------------
\* The parts of the inductive invariant.

\* build_monitors has been through the first n apps: an active one has its
\* monitor, built with its settings, and another one its warning, in order.
BuiltFrom(n) ==
  /\ Len(monitors) + Len(ignored) = n
  /\ \A k \in DOMAIN monitors :
       /\ monitors[k].app \in 1 .. n
       /\ apps[monitors[k].app].active
       /\ monitors[k].settings = MonitorSettings(apps[monitors[k].app])
  /\ \A k \in DOMAIN ignored : ignored[k] \in 1 .. n /\ ~apps[ignored[k]].active
  /\ \A j, k \in DOMAIN monitors : j < k => monitors[j].app < monitors[k].app
  /\ \A j, k \in DOMAIN ignored : j < k => ignored[j] < ignored[k]
  /\ \A i \in 1 .. n :
       IF apps[i].active THEN \E k \in DOMAIN monitors : monitors[k].app = i
                         ELSE \E k \in DOMAIN ignored : ignored[k] = i

\* A result is what the requests made with a monitor's settings deserve.
Deserved(s, r, asked) ==
  /\ r.url = s.url
  /\ asked # <<>>
  /\ r.success <=> Healthy(s, asked[Len(asked)].reply)
  /\ ~r.success =>
       /\ Len(asked) = Budget(s)
       /\ \A i \in DOMAIN asked : ~Healthy(s, asked[i].reply)

ResultsDeserved ==
  /\ Len(results) = Len(evidence)
  /\ Len(results) <= Len(monitors)
  /\ \A k \in DOMAIN results :
       Deserved(monitors[k].settings, results[k], evidence[k])

ReportsMatch ==
  /\ Len(reports) <= Len(results)
  /\ \A k \in DOMAIN reports :
       /\ reports[k].url = results[k].url
       /\ reports[k].kind = "OK" <=> results[k].success

Building ==
  /\ BuiltFrom(next - 1)
  /\ results = <<>>
  /\ pc = "idle"
  /\ calls = 0

Checking ==
  /\ next = Len(results) + 1
  /\ calls = Len(results) + (IF pc = "idle" THEN 0 ELSE 1)
  /\ pc # "idle" => /\ next <= Len(monitors)
                    /\ settings = monitors[next].settings

Reporting ==
  /\ pc = "idle"
  /\ Len(results) = Len(monitors)
  /\ calls = Len(results)
  /\ next = Len(reports) + 1

\* Where a run stands, its monitors, results, lines and mails agree with the
\* configuration and with what was asked of the endpoints.  The invariant that
\* makes the others inductive.
RunnerInv ==
  /\ RunnerTypeOK
  /\ MonitorInv
  /\ ResultsDeserved
  /\ ReportsMatch
  /\ MailsFollowSuccess
  /\ phase \notin {"report", "finished"} => reports = <<>>
  /\ phase = "build" => Building
  /\ phase \in {"check", "report", "finished"} => BuiltFrom(Len(apps))
  /\ phase \in {"failed", "killed"} => \E n \in 0 .. Len(apps) : BuiltFrom(n)
  /\ phase = "check" => Checking
  /\ phase \in {"report", "finished"} => Reporting
  /\ phase = "finished" => Len(reports) = Len(results)
=============================================================================
