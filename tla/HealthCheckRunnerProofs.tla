----------------------- MODULE HealthCheckRunnerProofs -----------------------
(***************************************************************************)
(* What a run guarantees for every configuration, every monitor and every   *)
(* answer: RunnerInv is inductive, and the invariants follow from it.  The  *)
(* steps of a health_check are taken from EndpointMonitorProofs.            *)
(***************************************************************************)
EXTENDS HealthCheckRunner, EndpointMonitorProofs, FiniteSetTheorems

\* A configured app is active or not, and a monitor can be built from it unless
\* the factory throws.
LEMMA AppTyped ==
  ASSUME RunnerTypeOK, NEW i \in 1 .. Len(apps)
  PROVE  /\ apps[i].active \in BOOLEAN
         /\ ~FactoryThrows(apps[i]) => MonitorSettings(apps[i]) \in Settings
<1>1. apps \in Seq(Apps)
  BY AppsAssumption DEF RunnerTypeOK
<1>2. apps[i] \in Apps
  BY <1>1
<1> QED
  BY <1>2, AppsAssumption

\* The configuration is a sequence of apps.
LEMMA AppsSeq ==
  ASSUME RunnerTypeOK
  PROVE  apps \in Seq(Apps) /\ Len(apps) \in Nat /\ DOMAIN apps = 1 .. Len(apps)
BY AppsAssumption DEF RunnerTypeOK

\* What Append makes of a sequence, as the steps below need it.
LEMMA AppendFacts ==
  ASSUME NEW S, NEW s \in Seq(S), NEW e \in S
  PROVE  /\ Append(s, e) \in Seq(S)
         /\ Len(s) \in Nat
         /\ Len(Append(s, e)) = Len(s) + 1
         /\ DOMAIN s = 1 .. Len(s)
         /\ DOMAIN Append(s, e) = 1 .. Len(s) + 1
         /\ \A k \in 1 .. Len(s) : Append(s, e)[k] = s[k]
         /\ Append(s, e)[Len(s) + 1] = e
OBVIOUS

\* What an action that leaves the results, the reports and the mails alone
\* need not prove again.
LEMMA ReportFrame ==
  ASSUME RunnerInv,
         UNCHANGED <<apps, results, reports, mails, evidence>>,
         monitors' = monitors
  PROVE  ResultsDeserved' /\ ReportsMatch' /\ MailsFollowSuccess'
<1>1. ResultsDeserved /\ ReportsMatch /\ MailsFollowSuccess
  BY DEF RunnerInv
<1> QED
  BY <1>1 DEF ResultsDeserved, ReportsMatch, MailsFollowSuccess

\* BuiltFrom reads nothing but the apps, the monitors and the warnings.
LEMMA BuiltFrame ==
  ASSUME NEW n, BuiltFrom(n), UNCHANGED <<apps, monitors, ignored>>
  PROVE  BuiltFrom(n)'
BY DEF BuiltFrom

----------------------------------------------------------------------------
\* A run that has just begun satisfies the invariant.
LEMMA RunnerInitInv == RunnerInit => RunnerInv
<1> SUFFICES ASSUME RunnerInit PROVE RunnerInv
  OBVIOUS
<1> USE DEF RunnerInit
<1>1. MonitorInv /\ TypeOK
  BY InitInv DEF MonitorInv
<1>2. RunnerTypeOK
  <2>1. apps \in Seq(Apps)
    BY AppsAssumption
  <2> QED
    BY <1>1, <2>1 DEF RunnerTypeOK, Phases
<1>3. ResultsDeserved /\ ReportsMatch /\ MailsFollowSuccess
  BY DEF ResultsDeserved, ReportsMatch, MailsFollowSuccess
<1>4. Building
  BY DEF Building, BuiltFrom, MonitorInit
<1> QED
  BY <1>1, <1>2, <1>3, <1>4 DEF RunnerInv

\* An active app extends the monitors by one built with its settings.
LEMMA BuildMonitorInv ==
  ASSUME RunnerInv, BuildMonitor
  PROVE  RunnerInv'
<1> USE DEF BuildMonitor
<1>1. RunnerTypeOK /\ MonitorInv /\ Building /\ BuiltFrom(next - 1) /\ reports = <<>>
  BY DEF RunnerInv, Building
<1>2. MonitorInv' /\ TypeOK'
  BY <1>1, StutterInv DEF MonitorInv
<1>3. next \in 1 .. Len(apps)
  BY <1>1, AppsSeq DEF RunnerTypeOK
<1>4. CASE FactoryThrows(apps[next])
  <2>1. RunnerTypeOK'
    BY <1>1, <1>2, <1>4 DEF RunnerTypeOK, Phases
  <2>2. ResultsDeserved' /\ ReportsMatch' /\ MailsFollowSuccess'
    BY <1>4, ReportFrame
  <2>3. BuiltFrom(next - 1)' /\ next' - 1 \in 0 .. Len(apps)'
    BY <1>1, <1>3, <1>4, AppsSeq, BuiltFrame
  <2>4. \E n \in 0 .. Len(apps) : BuiltFrom(n)'
    BY <1>3, <1>4, <2>3, AppsSeq DEF BuiltFrom
  <2> QED
    BY <1>1, <1>2, <1>4, <2>1, <2>2, <2>4 DEF RunnerInv
<1>5. CASE ~FactoryThrows(apps[next])
  <2>1. PICK st \in Settings : st = MonitorSettings(apps[next])
    BY <1>1, <1>3, <1>5, AppTyped
  <2>2. PICK m \in Monitors : m = [app |-> next, settings |-> st]
    BY <1>3, AppsSeq, <1>1, <2>1 DEF Monitors
  <2>3. /\ monitors' = Append(monitors, m)
        /\ next' = next + 1
        /\ next' - 1 = next
        /\ UNCHANGED <<phase, apps, ignored, results, reports, mails, evidence>>
    BY <1>3, <1>5, <2>1, <2>2
  <2>4. /\ monitors' \in Seq(Monitors)
        /\ Len(monitors) \in Nat
        /\ Len(monitors') = Len(monitors) + 1
        /\ DOMAIN monitors = 1 .. Len(monitors)
        /\ DOMAIN monitors' = 1 .. Len(monitors) + 1
        /\ \A k \in 1 .. Len(monitors) : monitors'[k] = monitors[k]
        /\ monitors'[Len(monitors) + 1] = m
    BY <1>1, <2>3, AppendFacts DEF RunnerTypeOK
  <2>5. RunnerTypeOK'
    BY <1>1, <1>2, <1>3, <2>3, <2>4, AppsSeq DEF RunnerTypeOK
  <2>6. ResultsDeserved' /\ ReportsMatch' /\ MailsFollowSuccess'
    <3>1. results = <<>> /\ evidence = <<>> /\ ReportsMatch /\ MailsFollowSuccess
      BY <1>1 DEF RunnerInv, Building, ResultsDeserved, RunnerTypeOK
    <3>2. ResultsDeserved'
      BY <2>3, <2>4, <3>1 DEF ResultsDeserved
    <3>3. ReportsMatch'
      BY <2>3, <3>1 DEF ReportsMatch
    <3>4. MailsFollowSuccess'
      BY <2>3, <3>1 DEF MailsFollowSuccess
    <3> QED
      BY <3>2, <3>3, <3>4
  <2>7. BuiltFrom(next - 1)'
    <3>1. /\ m.app = next
          /\ m.settings = MonitorSettings(apps[next])
      BY <2>1, <2>2
    <3>2. DOMAIN ignored = 1 .. Len(ignored) /\ Len(ignored) \in Nat
      BY <1>1 DEF RunnerTypeOK
    <3> QED
      BY <1>1, <1>3, <2>3, <2>4, <3>1, <3>2 DEF BuiltFrom
  <2>8. Building'
    BY <1>1, <2>3, <2>7 DEF Building, monitorVars
  <2> QED
    BY <1>1, <1>2, <2>3, <2>5, <2>6, <2>8 DEF RunnerInv
<1> QED
  BY <1>4, <1>5

\* An inactive app extends the warnings and leaves the monitors alone.
LEMMA IgnoreAppInv ==
  ASSUME RunnerInv, IgnoreApp
  PROVE  RunnerInv'
<1> USE DEF IgnoreApp
<1>1. RunnerTypeOK /\ MonitorInv /\ Building /\ BuiltFrom(next - 1) /\ reports = <<>>
  BY DEF RunnerInv, Building
<1>2. MonitorInv' /\ TypeOK'
  BY <1>1, StutterInv DEF MonitorInv
<1>3. next \in 1 .. Len(apps) /\ next \in Nat \ {0}
  BY <1>1, AppsSeq DEF RunnerTypeOK
<1>4. /\ ignored' = Append(ignored, next)
      /\ next' = next + 1
      /\ next' - 1 = next
      /\ UNCHANGED <<phase, apps, monitors, results, reports, mails, evidence>>
  BY <1>3
<1>5. /\ ignored' \in Seq(Nat \ {0})
      /\ Len(ignored) \in Nat
      /\ Len(ignored') = Len(ignored) + 1
      /\ DOMAIN ignored = 1 .. Len(ignored)
      /\ DOMAIN ignored' = 1 .. Len(ignored) + 1
      /\ \A k \in 1 .. Len(ignored) : ignored'[k] = ignored[k]
      /\ ignored'[Len(ignored) + 1] = next
  BY <1>1, <1>3, <1>4, AppendFacts DEF RunnerTypeOK
<1>6. RunnerTypeOK'
  BY <1>1, <1>2, <1>3, <1>4, <1>5, AppsSeq DEF RunnerTypeOK
<1>7. ResultsDeserved' /\ ReportsMatch' /\ MailsFollowSuccess'
  BY <1>4, ReportFrame
<1>8. BuiltFrom(next - 1)'
  <2>1. DOMAIN monitors = 1 .. Len(monitors) /\ Len(monitors) \in Nat
    BY <1>1 DEF RunnerTypeOK
  <2> QED
    BY <1>1, <1>3, <1>4, <1>5, <2>1 DEF BuiltFrom
<1>9. Building'
  BY <1>1, <1>4, <1>8 DEF Building, monitorVars
<1> QED
  BY <1>1, <1>2, <1>4, <1>6, <1>7, <1>9 DEF RunnerInv

\* With every app looked at, the checks begin with no result.
LEMMA StartCheckingInv ==
  ASSUME RunnerInv, StartChecking
  PROVE  RunnerInv'
<1> USE DEF StartChecking, First
<1>1. RunnerTypeOK /\ MonitorInv /\ Building /\ BuiltFrom(next - 1) /\ reports = <<>>
  BY DEF RunnerInv, Building
<1>2. MonitorInv' /\ TypeOK'
  BY <1>1, StutterInv DEF MonitorInv
<1>3. RunnerTypeOK'
  BY <1>1, <1>2, AppsSeq DEF RunnerTypeOK, Phases
<1>4. ResultsDeserved' /\ ReportsMatch' /\ MailsFollowSuccess'
  BY ReportFrame
<1>5. next - 1 = Len(apps)
  BY <1>1, AppsSeq DEF RunnerTypeOK
<1>6. BuiltFrom(Len(apps))'
  BY <1>1, <1>5 DEF BuiltFrom
<1>7. Checking'
  BY <1>1 DEF Building, Checking, monitorVars
<1> QED
  BY <1>1, <1>2, <1>3, <1>4, <1>6, <1>7 DEF RunnerInv

\* The monitor that is asked is the one whose result is missing.
LEMMA CheckMonitorInv ==
  ASSUME RunnerInv, CheckMonitor
  PROVE  RunnerInv'
<1> USE DEF CheckMonitor, runnerVars
<1>1. /\ RunnerTypeOK /\ MonitorInv /\ Checking /\ BuiltFrom(Len(apps))
      /\ reports = <<>> /\ phase = "check" /\ pc = "idle"
  BY DEF RunnerInv
<1>2. next \in 1 .. Len(monitors) /\ monitors[next].settings \in Settings
  <2>1. next \in 1 .. Len(monitors)
    BY <1>1 DEF RunnerTypeOK
  <2>2. monitors[next] \in Monitors
    BY <1>1, <2>1 DEF RunnerTypeOK
  <2> QED
    BY <2>1, <2>2 DEF Monitors
<1>3. MonitorInv' /\ TypeOK'
  <2>1. calls \in Nat
    BY <1>1 DEF MonitorInv, TypeOK
  <2> QED
    BY <1>2, <2>1, EnterInv DEF MonitorInv
<1>4. RunnerTypeOK'
  BY <1>1, <1>3 DEF RunnerTypeOK
<1>5. ResultsDeserved' /\ ReportsMatch' /\ MailsFollowSuccess'
  BY ReportFrame
<1>6. BuiltFrom(Len(apps))'
  BY <1>1 DEF BuiltFrom
<1>7. Checking'
  <2>1. /\ pc' # "idle"
        /\ settings' = monitors[next].settings
        /\ calls' = calls + 1
    BY DEF EnterHealthCheck
  <2>2. Len(results) \in Nat
    BY <1>1 DEF RunnerTypeOK
  <2> QED
    BY <1>1, <1>2, <2>1, <2>2 DEF Checking
<1> QED
  BY <1>1, <1>3, <1>4, <1>5, <1>6, <1>7 DEF RunnerInv

\* health_check neither starts nor leaves a call on its own.
LEMMA StepBusy ==
  ASSUME HealthCheckStep
  PROVE  pc # "idle" /\ pc' # "idle"
BY DEF HealthCheckStep, BeginAttempt, ClientFails, RequestEnds, ReturnHealthy,
       ReturnUnhealthy, Return, Retry, LoopHead

\* The steps of a health_check leave the runner where it is.
LEMMA RunMonitorInv ==
  ASSUME RunnerInv, RunMonitor
  PROVE  RunnerInv'
<1> USE DEF RunMonitor, runnerVars
<1>1. /\ RunnerTypeOK /\ MonitorInv /\ Checking /\ BuiltFrom(Len(apps))
      /\ reports = <<>> /\ phase = "check"
  BY DEF RunnerInv
<1>2. MonitorInv' /\ TypeOK' /\ UNCHANGED <<settings, calls>>
  BY <1>1, StepInv DEF MonitorInv
<1>3. RunnerTypeOK'
  BY <1>1, <1>2 DEF RunnerTypeOK
<1>4. ResultsDeserved' /\ ReportsMatch' /\ MailsFollowSuccess'
  BY ReportFrame
<1>5. BuiltFrom(Len(apps))'
  BY <1>1 DEF BuiltFrom
<1>6. Checking'
  BY <1>1, <1>2, StepBusy DEF Checking
<1> QED
  BY <1>1, <1>2, <1>3, <1>4, <1>5, <1>6 DEF RunnerInv

\* What a call returned is what its requests deserve.
LEMMA ReturnedDeserved ==
  ASSUME MonitorInv, pc = "returned"
  PROVE  Deserved(settings, result, attempts)
<1>1. AtReturn /\ AfterRequest /\ TypeOK
  BY DEF MonitorInv, AtReturn
<1>2. Len(attempts) \in Nat /\ DOMAIN attempts = 1 .. Len(attempts)
  BY <1>1 DEF TypeOK
<1>3. ~result.success =>
        \A i \in DOMAIN attempts : ~Healthy(settings, attempts[i].reply)
  BY <1>1, <1>2 DEF AtReturn, AfterRequest, UnhealthyUpTo, LastAttempt
<1> QED
  BY <1>1, <1>3 DEF Deserved, AtReturn, AfterRequest, LastAttempt

\* The result that is added is deserved by the attempts that are added.
LEMMA CollectResultInv ==
  ASSUME RunnerInv, CollectResult
  PROVE  RunnerInv'
<1> USE DEF CollectResult, WithResult
<1>1. /\ RunnerTypeOK /\ MonitorInv /\ TypeOK /\ AttemptBudget /\ Checking
      /\ BuiltFrom(Len(apps)) /\ ResultsDeserved
      /\ reports = <<>> /\ phase = "check" /\ pc = "returned"
  BY DEF RunnerInv, MonitorInv
<1>2. MonitorInv' /\ TypeOK'
  <2>1. TypeOK'
    BY <1>1 DEF TypeOK, PCs, vectors
  <2>2. AttemptBudget' /\ pc' = "idle"
    BY <1>1 DEF AttemptBudget
  <2> QED
    BY <2>1, <2>2 DEF MonitorInv
<1>3. /\ results' = Append(results, result)
      /\ results' \in Seq(HealthCheckResults)
      /\ Len(results) \in Nat
      /\ Len(results') = Len(results) + 1
      /\ DOMAIN results = 1 .. Len(results)
      /\ DOMAIN results' = 1 .. Len(results) + 1
      /\ \A k \in 1 .. Len(results) : results'[k] = results[k]
      /\ results'[Len(results) + 1] = result
  BY <1>1, AppendFacts DEF RunnerTypeOK, TypeOK
<1>4. /\ evidence' = Append(evidence, attempts)
      /\ evidence' \in Seq(Seq(Attempts))
      /\ Len(evidence') = Len(evidence) + 1
      /\ \A k \in 1 .. Len(evidence) : evidence'[k] = evidence[k]
      /\ evidence'[Len(evidence) + 1] = attempts
  BY <1>1, AppendFacts DEF RunnerTypeOK, TypeOK
<1>5. /\ next = Len(results) + 1
      /\ next \in 1 .. Len(monitors)
      /\ settings = monitors[next].settings
      /\ Len(monitors) \in Nat
  BY <1>1, <1>3 DEF Checking, RunnerTypeOK
<1>6. RunnerTypeOK'
  <2>1. Len(monitors) <= Len(apps)
    BY <1>1, AppsSeq DEF BuiltFrom, RunnerTypeOK
  <2> QED
    BY <1>1, <1>2, <1>3, <1>4, <1>5, <2>1, AppsSeq DEF RunnerTypeOK
<1>7. ResultsDeserved'
  <2>1. Deserved(monitors[next].settings, result, attempts)
    BY <1>1, <1>5, ReturnedDeserved
  <2>2. ASSUME NEW k \in DOMAIN results'
        PROVE  Deserved(monitors'[k].settings, results'[k], evidence'[k])
    <3> Len(evidence) = Len(results)
      BY <1>1 DEF ResultsDeserved
    <3>1. CASE k = next
      <4>1. results'[k] = result /\ evidence'[k] = attempts /\ monitors' = monitors
        BY <1>3, <1>4, <1>5, <3>1
      <4> QED
        BY <2>1, <3>1, <4>1
    <3>2. CASE k \in 1 .. Len(results)
      <4>1. /\ results'[k] = results[k]
            /\ evidence'[k] = evidence[k]
            /\ monitors' = monitors
        BY <1>3, <1>4, <3>2
      <4>2. Deserved(monitors[k].settings, results[k], evidence[k])
        BY <1>1, <1>3, <3>2 DEF ResultsDeserved
      <4> QED
        BY <4>1, <4>2
    <3> QED
      BY <1>3, <1>5, <3>1, <3>2
  <2> QED
    BY <1>1, <1>3, <1>4, <1>5, <2>2 DEF ResultsDeserved
<1>8. ReportsMatch' /\ MailsFollowSuccess'
  <2>1. ReportsMatch'
    BY <1>1, <1>3 DEF ReportsMatch
  <2>2. MailsFollowSuccess'
    BY DEF RunnerInv, MailsFollowSuccess
  <2> QED
    BY <2>1, <2>2
<1>9. BuiltFrom(Len(apps))'
  BY <1>1 DEF BuiltFrom
<1>10. Checking'
  BY <1>1, <1>3, <1>5 DEF Checking
<1> QED
  BY <1>1, <1>2, <1>6, <1>7, <1>8, <1>9, <1>10 DEF RunnerInv

\* A run that an exception or a crash ends has no line and no mail.
LEMMA AbandonRunInv ==
  ASSUME RunnerInv, AbandonRun
  PROVE  RunnerInv'
<1> USE DEF AbandonRun
<1>1. /\ RunnerTypeOK /\ MonitorInv /\ BuiltFrom(Len(apps)) /\ reports = <<>>
  BY DEF RunnerInv
<1>2. MonitorInv' /\ TypeOK'
  BY <1>1, StutterInv DEF MonitorInv
<1>3. RunnerTypeOK'
  BY <1>1, <1>2 DEF RunnerTypeOK, Phases
<1>4. ResultsDeserved' /\ ReportsMatch' /\ MailsFollowSuccess'
  BY ReportFrame
<1>5. \E n \in 0 .. Len(apps)' : BuiltFrom(n)'
  <2>1. BuiltFrom(Len(apps))'
    BY <1>1 DEF BuiltFrom
  <2>2. Len(apps) \in 0 .. Len(apps)' /\ apps' = apps
    BY <1>1, AppsSeq
  <2> QED
    BY <2>1, <2>2 DEF BuiltFrom
<1>6. phase' \in {"failed", "killed"}
  OBVIOUS
<1> QED
  BY <1>1, <1>2, <1>3, <1>4, <1>5, <1>6 DEF RunnerInv

\* With every monitor asked, the report begins with no line.
LEMMA StartReportingInv ==
  ASSUME RunnerInv, StartReporting
  PROVE  RunnerInv'
<1> USE DEF StartReporting, AllChecked, First
<1>1. /\ RunnerTypeOK /\ MonitorInv /\ Checking /\ BuiltFrom(Len(apps))
      /\ ResultsDeserved /\ reports = <<>>
  BY DEF RunnerInv
<1>2. MonitorInv' /\ TypeOK'
  BY <1>1, StutterInv DEF MonitorInv
<1>3. RunnerTypeOK'
  BY <1>1, <1>2, AppsSeq DEF RunnerTypeOK, Phases
<1>4. ResultsDeserved' /\ ReportsMatch' /\ MailsFollowSuccess'
  BY ReportFrame
<1>5. BuiltFrom(Len(apps))'
  BY <1>1 DEF BuiltFrom
<1>6. Reporting'
  <2>1. Len(results) \in Nat /\ Len(monitors) \in Nat
    BY <1>1 DEF RunnerTypeOK
  <2> QED
    BY <1>1, <2>1 DEF Checking, ResultsDeserved, Reporting, monitorVars
<1> QED
  BY <1>1, <1>2, <1>3, <1>4, <1>5, <1>6 DEF RunnerInv

\* Either kind of line: what it adds to the report matches its result.
LEMMA LineInv ==
  ASSUME RunnerInv, phase = "report", next <= Len(results),
         NEW kind \in {"OK", "FAIL"},
         kind = "OK" <=> results[next].success,
         reports' = Line(kind),
         next' = next + 1,
         UNCHANGED <<monitorVars, apps, phase, monitors, results, ignored,
                     evidence>>
  PROVE  /\ reports' \in Seq(ReportLines)
         /\ next = Len(reports) + 1
         /\ DOMAIN reports = 1 .. Len(reports) /\ Len(reports) \in Nat
         /\ DOMAIN reports' = 1 .. Len(reports) + 1
         /\ \A k \in 1 .. Len(reports) : reports'[k] = reports[k]
         /\ reports'[next].kind = kind
         /\ ReportsMatch'
         /\ Reporting'
         /\ next' \in 1 .. Len(apps) + 1
         /\ BuiltFrom(Len(apps))'
         /\ ResultsDeserved'
         /\ MonitorInv' /\ TypeOK'
<1>1. /\ RunnerTypeOK /\ MonitorInv /\ Reporting /\ BuiltFrom(Len(apps))
      /\ ResultsDeserved /\ ReportsMatch
  BY DEF RunnerInv
<1>2. next = Len(reports) + 1 /\ Len(reports) \in Nat /\ Len(results) \in Nat
  BY <1>1 DEF Reporting, RunnerTypeOK
<1>3. results[next].url \in Urls
  <2>1. results[next] \in HealthCheckResults
    BY <1>1, <1>2 DEF RunnerTypeOK
  <2> QED
    BY <2>1 DEF HealthCheckResults
<1>4. PICK line \in ReportLines :
        line = [kind |-> kind, url |-> results[next].url]
  BY <1>3 DEF ReportLines
<1>5. line.kind = kind /\ line.url = results[next].url
  BY <1>4
<1>6. /\ reports' = Append(reports, line)
      /\ reports' \in Seq(ReportLines)
      /\ DOMAIN reports = 1 .. Len(reports)
      /\ DOMAIN reports' = 1 .. Len(reports) + 1
      /\ Len(reports') = Len(reports) + 1
      /\ \A k \in 1 .. Len(reports) : reports'[k] = reports[k]
      /\ reports'[Len(reports) + 1] = line
  BY <1>1, <1>4, AppendFacts DEF RunnerTypeOK, Line
<1>7. ReportsMatch'
  BY <1>1, <1>2, <1>5, <1>6 DEF ReportsMatch
<1>8. Reporting'
  BY <1>1, <1>2, <1>6 DEF Reporting, monitorVars
<1>9. next' \in 1 .. Len(apps) + 1
  BY <1>1, <1>2, AppsSeq DEF BuiltFrom, Reporting, RunnerTypeOK
<1>10. BuiltFrom(Len(apps))' /\ ResultsDeserved'
  BY <1>1 DEF BuiltFrom, ResultsDeserved
<1>11. MonitorInv' /\ TypeOK'
  BY <1>1, StutterInv DEF MonitorInv
<1> QED
  BY <1>2, <1>5, <1>6, <1>7, <1>8, <1>9, <1>10, <1>11

\* An "OK" line comes with its mail, however that ends.
LEMMA ReportSuccessInv ==
  ASSUME RunnerInv, NEW outcome \in MailOutcomes, ReportSuccess(outcome)
  PROVE  RunnerInv'
<1>1. /\ reports' \in Seq(ReportLines)
      /\ next = Len(reports) + 1
      /\ DOMAIN reports = 1 .. Len(reports) /\ Len(reports) \in Nat
      /\ DOMAIN reports' = 1 .. Len(reports) + 1
      /\ \A k \in 1 .. Len(reports) : reports'[k] = reports[k]
      /\ reports'[next].kind = "OK"
      /\ ReportsMatch' /\ Reporting' /\ BuiltFrom(Len(apps))' /\ ResultsDeserved'
      /\ MonitorInv' /\ TypeOK' /\ next' \in 1 .. Len(apps) + 1
  BY LineInv DEF ReportSuccess
<1>2. RunnerTypeOK /\ MailsFollowSuccess
  BY DEF RunnerInv
<1>3. PICK m \in Mails :
        /\ m = [to |-> TestRecipient, report |-> next, outcome |-> outcome]
        /\ m.report = next
  <2> DEFINE mail == [to |-> TestRecipient, report |-> next, outcome |-> outcome]
  <2>1. mail \in Mails
    BY <1>1 DEF Mails
  <2>2. mail.report = next
    OBVIOUS
  <2> QED
    BY <2>1, <2>2
<1>4. /\ mails' = Append(mails, m)
      /\ mails' \in Seq(Mails)
      /\ Len(mails) \in Nat
      /\ DOMAIN mails = 1 .. Len(mails)
      /\ DOMAIN mails' = 1 .. Len(mails) + 1
      /\ \A j \in 1 .. Len(mails) : mails'[j] = mails[j]
      /\ mails'[Len(mails) + 1] = m
  BY <1>2, <1>3, AppendFacts DEF ReportSuccess, RunnerTypeOK
<1>5. RunnerTypeOK'
  BY <1>1, <1>2, <1>4 DEF ReportSuccess, RunnerTypeOK
<1>6. MailsFollowSuccess'
  <2>1. \A j \in DOMAIN mails : mails[j].report \in 1 .. Len(reports)
    BY <1>1, <1>2 DEF MailsFollowSuccess
  <2>2. \A j, k \in DOMAIN mails' : j < k => mails'[j].report < mails'[k].report
    BY <1>1, <1>2, <1>3, <1>4, <2>1 DEF MailsFollowSuccess
  <2>3. { mails'[j].report : j \in DOMAIN mails' } =
          { mails[j].report : j \in DOMAIN mails } \cup {next}
    BY <1>3, <1>4
  <2>4. { k \in DOMAIN reports' : reports'[k].kind = "OK" } =
          { k \in DOMAIN reports : reports[k].kind = "OK" } \cup {next}
    BY <1>1
  <2> QED
    BY <1>2, <2>2, <2>3, <2>4 DEF MailsFollowSuccess
<1>7. phase' = "report"
  BY DEF ReportSuccess
<1> QED
  BY <1>1, <1>5, <1>6, <1>7 DEF RunnerInv, ReportSuccess

\* A "FAIL" line comes without a mail.
LEMMA ReportFailureInv ==
  ASSUME RunnerInv, ReportFailure
  PROVE  RunnerInv'
<1>1. /\ reports' \in Seq(ReportLines)
      /\ next = Len(reports) + 1
      /\ DOMAIN reports = 1 .. Len(reports) /\ Len(reports) \in Nat
      /\ DOMAIN reports' = 1 .. Len(reports) + 1
      /\ \A k \in 1 .. Len(reports) : reports'[k] = reports[k]
      /\ reports'[next].kind = "FAIL"
      /\ ReportsMatch' /\ Reporting' /\ BuiltFrom(Len(apps))' /\ ResultsDeserved'
      /\ MonitorInv' /\ TypeOK' /\ next' \in 1 .. Len(apps) + 1
  BY LineInv DEF ReportFailure
<1>2. RunnerTypeOK /\ MailsFollowSuccess
  BY DEF RunnerInv
<1>3. RunnerTypeOK'
  BY <1>1, <1>2 DEF ReportFailure, RunnerTypeOK
<1>4. MailsFollowSuccess'
  <2>1. { k \in DOMAIN reports' : reports'[k].kind = "OK" } =
          { k \in DOMAIN reports : reports[k].kind = "OK" }
    BY <1>1
  <2> QED
    BY <1>2, <2>1 DEF MailsFollowSuccess, ReportFailure
<1>5. phase' = "report"
  BY DEF ReportFailure
<1> QED
  BY <1>1, <1>3, <1>4, <1>5 DEF RunnerInv, ReportFailure

\* With every result reported, the run is over.
LEMMA FinishInv ==
  ASSUME RunnerInv, Finish
  PROVE  RunnerInv'
<1> USE DEF Finish
<1>1. /\ RunnerTypeOK /\ MonitorInv /\ Reporting /\ BuiltFrom(Len(apps))
      /\ ReportsMatch
  BY DEF RunnerInv
<1>2. MonitorInv' /\ TypeOK'
  BY <1>1, StutterInv DEF MonitorInv
<1>3. RunnerTypeOK'
  BY <1>1, <1>2 DEF RunnerTypeOK, Phases
<1>4. ResultsDeserved' /\ ReportsMatch' /\ MailsFollowSuccess'
  BY ReportFrame
<1>5. BuiltFrom(Len(apps))' /\ Reporting'
  BY <1>1 DEF BuiltFrom, Reporting, monitorVars
<1>6. Len(reports') = Len(results')
  BY <1>1 DEF Reporting, ReportsMatch, RunnerTypeOK
<1> QED
  BY <1>1, <1>2, <1>3, <1>4, <1>5, <1>6 DEF RunnerInv

\* The invariant reads nothing but the variables of the run.
LEMMA RunnerStutterInv ==
  ASSUME RunnerInv, UNCHANGED vars
  PROVE  RunnerInv'
<1> USE DEF vars, runnerVars
<1>1. MonitorInv' /\ TypeOK'
  BY StutterInv DEF RunnerInv, MonitorInv
<1>2. RunnerTypeOK' /\ ResultsDeserved' /\ ReportsMatch' /\ MailsFollowSuccess'
  BY <1>1, ReportFrame DEF RunnerInv, RunnerTypeOK
<1>3. \A n : BuiltFrom(n) => BuiltFrom(n)'
  BY DEF BuiltFrom
<1>4. pc' = pc /\ calls' = calls /\ settings' = settings
  BY DEF monitorVars
<1> QED
  BY <1>1, <1>2, <1>3, <1>4 DEF RunnerInv, Building, Checking, Reporting

\* Every step of a run keeps the invariant.
LEMMA NextInv ==
  ASSUME RunnerInv, [RunnerNext]_vars
  PROVE  RunnerInv'
<1>1. CASE BuildMonitor
  BY <1>1, BuildMonitorInv
<1>2. CASE IgnoreApp
  BY <1>2, IgnoreAppInv
<1>3. CASE StartChecking
  BY <1>3, StartCheckingInv
<1>4. CASE CheckMonitor
  BY <1>4, CheckMonitorInv
<1>5. CASE RunMonitor
  BY <1>5, RunMonitorInv
<1>6. CASE CollectResult
  BY <1>6, CollectResultInv
<1>7. CASE AbandonRun
  BY <1>7, AbandonRunInv
<1>8. CASE StartReporting
  BY <1>8, StartReportingInv
<1>9. ASSUME NEW outcome \in MailOutcomes, ReportSuccess(outcome)
      PROVE  RunnerInv'
  BY <1>9, ReportSuccessInv
<1>10. CASE ReportFailure
  BY <1>10, ReportFailureInv
<1>11. CASE Finish
  BY <1>11, FinishInv
<1>12. CASE UNCHANGED vars
  BY <1>12, RunnerStutterInv
<1> QED
  BY <1>1, <1>2, <1>3, <1>4, <1>5, <1>6, <1>7, <1>8, <1>9, <1>10, <1>11, <1>12
  DEF RunnerNext

----------------------------------------------------------------------------
\* The invariant of a run: at every step the monitors, results, lines and
\* mails agree with the configuration and with what the endpoints answered.
THEOREM RunnerInvariantHolds == RunnerSpec => []RunnerInv
BY RunnerInitInv, NextInv, PTL DEF RunnerSpec

\* Type correctness of a run, its loops inside their bounds.
THEOREM RunnerTypeCorrect == RunnerSpec => []RunnerTypeOK
<1>1. RunnerInv => RunnerTypeOK
  BY DEF RunnerInv
<1> QED
  BY <1>1, RunnerInvariantHolds, PTL

\* One mail for each "OK" line, in order, and for no other, however the
\* earlier transfers ended.
THEOREM MailsAreOfSuccess == RunnerSpec => []MailsFollowSuccess
<1>1. RunnerInv => MailsFollowSuccess
  BY DEF RunnerInv
<1> QED
  BY <1>1, RunnerInvariantHolds, PTL

\* Lines exist only in the two phases in which everything is built, checked
\* and matched.
LEMMA LinesMeanReporting ==
  ASSUME RunnerInv, reports # <<>>
  PROVE  /\ phase \in {"report", "finished"}
         /\ BuiltFrom(Len(apps)) /\ Reporting
BY DEF RunnerInv

\* A line names the endpoint of its app, and tells the truth about it.
THEOREM ReportsAreTruthful == RunnerSpec => []ReportTruthful
<1>1. RunnerInv => ReportTruthful
  <2> SUFFICES ASSUME RunnerInv, NEW k \in DOMAIN reports
               PROVE  LET app == apps[monitors[k].app]
                          asked == evidence[k]
                      IN  /\ app.active
                          /\ reports[k].url = app.url
                          /\ asked # <<>>
                          /\ reports[k].kind = "OK" <=>
                               Healthy(MonitorSettings(app), asked[Len(asked)].reply)
                          /\ reports[k].kind = "FAIL" =>
                               /\ Len(asked) = Budget(MonitorSettings(app))
                               /\ \A i \in DOMAIN asked :
                                    ~Healthy(MonitorSettings(app), asked[i].reply)
    BY DEF ReportTruthful
  <2>1. RunnerTypeOK /\ ResultsDeserved /\ ReportsMatch
    BY DEF RunnerInv
  <2>2. reports[k] \in ReportLines /\ k \in 1 .. Len(reports)
    BY <2>1 DEF RunnerTypeOK
  <2>3. BuiltFrom(Len(apps))
    BY <2>2, LinesMeanReporting
  <2>4. k \in DOMAIN results /\ k \in DOMAIN monitors
    BY <2>1, <2>2 DEF ResultsDeserved, ReportsMatch, RunnerTypeOK
  <2>5. Deserved(monitors[k].settings, results[k], evidence[k])
    BY <2>1, <2>4 DEF ResultsDeserved
  <2>6. /\ apps[monitors[k].app].active
        /\ monitors[k].settings = MonitorSettings(apps[monitors[k].app])
    BY <2>3, <2>4 DEF BuiltFrom
  <2>7. /\ reports[k].url = results[k].url
        /\ reports[k].kind = "OK" <=> results[k].success
        /\ reports[k].kind \in {"OK", "FAIL"}
    BY <2>1, <2>2 DEF ReportsMatch, ReportLines
  <2>8. MonitorSettings(apps[monitors[k].app]).url = apps[monitors[k].app].url
    BY DEF MonitorSettings
  <2> QED
    BY <2>5, <2>6, <2>7, <2>8 DEF Deserved
<1> QED
  BY <1>1, RunnerInvariantHolds, PTL

\* build_monitors makes exactly one monitor for each active app.
LEMMA OneMonitorPerActiveApp ==
  ASSUME RunnerTypeOK, BuiltFrom(Len(apps))
  PROVE  /\ { monitors[k].app : k \in DOMAIN monitors } = ActiveApps
         /\ { ignored[k] : k \in DOMAIN ignored } = DOMAIN apps \ ActiveApps
         /\ Cardinality(ActiveApps) = Len(monitors)
<1>1. /\ DOMAIN monitors = 1 .. Len(monitors) /\ Len(monitors) \in Nat
      /\ DOMAIN ignored = 1 .. Len(ignored)
      /\ DOMAIN apps = 1 .. Len(apps)
  BY AppsSeq DEF RunnerTypeOK
<1>2. { monitors[k].app : k \in DOMAIN monitors } = ActiveApps
  BY <1>1 DEF BuiltFrom, ActiveApps
<1>3. { ignored[k] : k \in DOMAIN ignored } = DOMAIN apps \ ActiveApps
  BY <1>1 DEF BuiltFrom, ActiveApps
<1>4. Cardinality(ActiveApps) = Len(monitors)
  <2> DEFINE f == [k \in 1 .. Len(monitors) |-> monitors[k].app]
  <2>1. f \in [1 .. Len(monitors) -> ActiveApps]
    BY <1>1, <1>2
  <2>2. ASSUME NEW j \in 1 .. Len(monitors), NEW k \in 1 .. Len(monitors), f[j] = f[k]
        PROVE  j = k
    <3>1. monitors[j].app = monitors[k].app
      BY <2>2
    <3>2. monitors[j].app \in Nat
      BY <1>1, AppsSeq DEF BuiltFrom
    <3>3. /\ j < k => monitors[j].app < monitors[k].app
          /\ k < j => monitors[k].app < monitors[j].app
      BY <1>1 DEF BuiltFrom
    <3>4. PICK a \in Nat : a = monitors[j].app
      BY <3>2
    <3>5. ~(a < a)
      BY <3>4
    <3>6. ~(j < k) /\ ~(k < j)
      BY <3>1, <3>3, <3>4, <3>5
    <3> QED
      BY <1>1, <3>6
  <2>3. \A i \in ActiveApps : \E k \in 1 .. Len(monitors) : f[k] = i
    BY <1>1, <1>2
  <2>4. f \in Bijection(1 .. Len(monitors), ActiveApps)
    BY <2>1, <2>2, <2>3 DEF Bijection, Injection, Surjection, IsInjective
  <2>5. ExistsBijection(1 .. Len(monitors), ActiveApps)
    BY <2>4 DEF ExistsBijection
  <2>6. /\ IsFiniteSet(1 .. Len(monitors))
        /\ Cardinality(1 .. Len(monitors)) = Len(monitors)
    <3>1. \A n \in Int : /\ IsFiniteSet(1 .. n)
                         /\ Cardinality(1 .. n) = IF 1 > n THEN 0 ELSE n - 1 + 1
      BY FS_Interval
    <3>2. PICK n \in Nat : n = Len(monitors)
      BY <1>1
    <3>3. IsFiniteSet(1 .. n) /\ Cardinality(1 .. n) = n
      BY <3>1
    <3> QED
      BY <3>2, <3>3
  <2> QED
    BY <2>5, <2>6, FS_Bijection
<1> QED
  BY <1>2, <1>3, <1>4

\* Nothing is reported before every active app was asked, once.
THEOREM ReportsWait == RunnerSpec => []ReportsAfterAllChecks
<1>1. RunnerInv => ReportsAfterAllChecks
  BY LinesMeanReporting, OneMonitorPerActiveApp
  DEF RunnerInv, Reporting, ReportsAfterAllChecks
<1> QED
  BY <1>1, RunnerInvariantHolds, PTL

\* A finished run has accounted for every app of the configuration, in order.
THEOREM EveryAppIsReported == RunnerSpec => []EveryAppReportedOnce
<1>1. RunnerInv => EveryAppReportedOnce
  <2> SUFFICES ASSUME RunnerInv PROVE EveryAppReportedOnce
    OBVIOUS
  <2>1. \E n : BuiltFrom(n)
    BY DEF RunnerInv, Building, RunnerTypeOK, Phases
  <2>2. phase = "finished" =>
          /\ BuiltFrom(Len(apps)) /\ RunnerTypeOK
          /\ Len(reports) = Len(monitors)
    BY DEF RunnerInv, Reporting
  <2> QED
    BY <2>1, <2>2, OneMonitorPerActiveApp DEF BuiltFrom, EveryAppReportedOnce
<1> QED
  BY <1>1, RunnerInvariantHolds, PTL
----------------------------------------------------------------------------
\* A run of HealthCheckRunner is, step by step, a run of HealthReport: for every
\* configuration and whatever the endpoints answer, the initial states map to
\* an initial state and every step to a step or a stutter.

\* Before the first line, and before the first result, the mapped state is
\* bare.
LEMMA NothingYet ==
  /\ reports = <<>> => Verdicts = {}
  /\ results = <<>> => Up = {} /\ Down = {}
BY DEF Verdicts, Up, Down

\* A run that has just begun maps to the initial state of the promise.
LEMMA InitMaps == RunnerInit => Promise!Init
<1> SUFFICES ASSUME RunnerInit PROVE Promise!Init
  OBVIOUS
<1>1. ActiveApps \subseteq Nat
  <2>1. apps \in Seq(Apps)
    BY AppsAssumption DEF RunnerInit
  <2> QED
    BY <2>1 DEF ActiveApps
<1>2. Verdicts = {} /\ Up = {} /\ Down = {} /\ RunStatus = "running"
  BY NothingYet DEF RunnerInit, RunStatus
<1> QED
  BY <1>1, <1>2 DEF Promise!Init

\* A step of the phases before the report that only prepares or asks.
LEMMA QuietStep ==
  ASSUME UNCHANGED <<apps, results, reports>>,
         monitors' = monitors \/ (results = <<>> /\ reports = <<>>),
         RunStatus' = RunStatus
  PROVE  UNCHANGED Promise!vars
<1>1. ActiveApps' = ActiveApps
  BY DEF ActiveApps
<1>2. Up' = Up /\ Down' = Down /\ Verdicts' = Verdicts
  BY DEF Up, Down, Verdicts
<1> QED
  BY <1>1, <1>2 DEF Promise!vars

\* An exception or a crash.
LEMMA FailStep ==
  ASSUME reports = <<>>, RunStatus = "running", RunStatus' = "failed",
         UNCHANGED <<apps, monitors, results, reports>>
  PROVE  Promise!Fail
BY NothingYet DEF Promise!Fail, ActiveApps, Up, Down, Verdicts

\* Monitors of different positions are those of different apps.
LEMMA AppsDiffer ==
  ASSUME RunnerTypeOK, BuiltFrom(Len(apps)),
         NEW j \in DOMAIN monitors, NEW k \in DOMAIN monitors
  PROVE  /\ monitors[j].app \in ActiveApps
         /\ monitors[j].app \in Nat
         /\ monitors[j].app = monitors[k].app => j = k
         /\ j <= k => monitors[j].app <= monitors[k].app
<1>1. DOMAIN monitors = 1 .. Len(monitors) /\ Len(monitors) \in Nat
  BY DEF RunnerTypeOK
<1>2. monitors[j].app \in ActiveApps /\ monitors[k].app \in ActiveApps
  BY AppsSeq DEF BuiltFrom, ActiveApps
<1>3. ActiveApps \subseteq Nat
  BY AppsSeq DEF ActiveApps
<1>4. PICK a \in Nat, b \in Nat : a = monitors[j].app /\ b = monitors[k].app
  BY <1>2, <1>3
<1>5. (j < k => a < b) /\ (k < j => b < a)
  BY <1>4 DEF BuiltFrom
<1>6. j \in Nat /\ k \in Nat
  BY <1>1
<1>7. (a = b => j = k) /\ (j <= k => a <= b)
  BY <1>4, <1>5, <1>6
<1> QED
  BY <1>2, <1>4, <1>7

\* CollectResult: the app of the monitor at hand gets its verdict.
LEMMA DecideStep ==
  ASSUME RunnerInv, CollectResult
  PROVE  Promise!Next
<1> DEFINE t == monitors[next].app
<1>1. /\ RunnerTypeOK /\ Checking /\ BuiltFrom(Len(apps)) /\ ResultsDeserved
      /\ reports = <<>> /\ phase = "check" /\ pc = "returned" /\ TypeOK
  BY DEF RunnerInv, MonitorInv, CollectResult
<1>2. /\ next = Len(results) + 1
      /\ next \in DOMAIN monitors
      /\ DOMAIN monitors = 1 .. Len(monitors)
      /\ DOMAIN results = 1 .. Len(results)
      /\ Len(results) \in Nat
      /\ DOMAIN results \subseteq DOMAIN monitors
  BY <1>1 DEF Checking, ResultsDeserved, RunnerTypeOK
<1>3. /\ t \in ActiveApps
      /\ \A k \in DOMAIN results : monitors[k].app # t
  BY <1>1, <1>2, AppsDiffer
<1>4. t \notin Up \cup Down
  BY <1>3 DEF Up, Down
<1>5. /\ UNCHANGED <<apps, monitors, reports, phase>>
      /\ DOMAIN results' = DOMAIN results \cup {next}
      /\ \A k \in DOMAIN results : results'[k] = results[k]
      /\ results'[next] = result
  <2>1. results \in Seq(HealthCheckResults) /\ result \in HealthCheckResults
    BY <1>1 DEF RunnerTypeOK, TypeOK
  <2>2. results' = Append(results, result)
    BY DEF CollectResult, WithResult
  <2>3. /\ DOMAIN results' = 1 .. Len(results) + 1
        /\ \A k \in 1 .. Len(results) : results'[k] = results[k]
        /\ results'[Len(results) + 1] = result
    BY <2>1, <2>2, AppendFacts
  <2>4. 1 .. Len(results) + 1 = (1 .. Len(results)) \cup {Len(results) + 1}
    BY <1>2
  <2>5. UNCHANGED <<apps, monitors, reports, phase>>
    BY DEF CollectResult
  <2> QED
    BY <1>2, <2>3, <2>4, <2>5
<1>6. \/ Up' = Up \cup {t} /\ Down' = Down
      \/ Down' = Down \cup {t} /\ Up' = Up
  <2>1. CASE result.success
    BY <1>2, <1>5, <2>1 DEF Up, Down
  <2>2. CASE ~result.success
    BY <1>2, <1>5, <2>2 DEF Up, Down
  <2> QED
    BY <2>1, <2>2
<1>7. /\ ActiveApps' = ActiveApps /\ Verdicts' = Verdicts
      /\ RunStatus = "running" /\ RunStatus' = "running"
  BY <1>1, <1>5 DEF ActiveApps, Verdicts, RunStatus
<1>8. Promise!Decide(t)
  BY <1>3, <1>4, <1>6, <1>7 DEF Promise!Decide
<1> QED
  BY <1>3, <1>8 DEF Promise!Next

\* Once every result is in, every app of the configuration has its verdict.
LEMMA AllDecided ==
  ASSUME RunnerInv, phase \in {"report", "finished"}
  PROVE  /\ Up \cup Down = ActiveApps
         /\ DOMAIN results = DOMAIN monitors
         /\ Promise!Published = { monitors[k].app : k \in DOMAIN reports }
<1>1. /\ RunnerTypeOK /\ Reporting /\ BuiltFrom(Len(apps))
  BY DEF RunnerInv
<1>2. DOMAIN results = DOMAIN monitors
  BY <1>1 DEF Reporting, RunnerTypeOK
<1>3. Up \cup Down = { monitors[k].app : k \in DOMAIN monitors }
  BY <1>2 DEF Up, Down
<1>4. Promise!Published = { monitors[k].app : k \in DOMAIN reports }
  <2>1. ASSUME NEW k \in DOMAIN reports
        PROVE  \E p \in Verdicts : p.target = monitors[k].app
    <3> DEFINE p == [target |-> monitors[k].app, ok |-> reports[k].kind = "OK"]
    <3>1. p \in Verdicts
      BY DEF Verdicts
    <3>2. p.target = monitors[k].app
      OBVIOUS
    <3> QED
      BY <3>1, <3>2
  <2>2. ASSUME NEW p \in Verdicts
        PROVE  \E k \in DOMAIN reports : p.target = monitors[k].app
    BY DEF Verdicts
  <2> QED
    BY <2>1, <2>2 DEF Promise!Published
<1> QED
  BY <1>1, <1>2, <1>3, <1>4, OneMonitorPerActiveApp

\* Either kind of line: the next app, in the order of the configuration, is
\* published with the verdict it got.
LEMMA PublishStep ==
  ASSUME RunnerInv, phase = "report", next <= Len(results),
         NEW kind \in {"OK", "FAIL"},
         kind = "OK" <=> results[next].success,
         reports' = Line(kind),
         next' = next + 1,
         UNCHANGED <<monitorVars, apps, phase, monitors, results, ignored,
                     evidence>>
  PROVE  Promise!Next
<1> DEFINE t == monitors[next].app
<1>1. /\ RunnerTypeOK /\ Reporting /\ BuiltFrom(Len(apps)) /\ ReportsMatch
  BY DEF RunnerInv
<1>2. /\ next = Len(reports) + 1
      /\ DOMAIN reports = 1 .. Len(reports) /\ Len(reports) \in Nat
      /\ DOMAIN reports' = 1 .. Len(reports) + 1
      /\ \A k \in 1 .. Len(reports) : reports'[k] = reports[k]
      /\ reports'[next].kind = kind
  BY LineInv
<1>3. /\ DOMAIN monitors = 1 .. Len(monitors) /\ Len(monitors) \in Nat
      /\ DOMAIN results = DOMAIN monitors
      /\ next \in DOMAIN monitors
      /\ DOMAIN reports \subseteq DOMAIN monitors
  BY <1>1, <1>2, AllDecided DEF Reporting, ReportsMatch, RunnerTypeOK
<1>4. Up \cup Down = ActiveApps
  BY AllDecided
<1>5. Promise!Published = { monitors[k].app : k \in DOMAIN reports }
  BY AllDecided
<1>6. t \in ActiveApps \ Promise!Published
  <2>1. \A k \in DOMAIN reports : k # next /\ k \in DOMAIN monitors
    BY <1>2, <1>3
  <2> QED
    BY <1>1, <1>3, <1>5, <2>1, AppsDiffer
<1>7. \A u \in ActiveApps \ Promise!Published : t <= u
  <2> SUFFICES ASSUME NEW u \in ActiveApps \ Promise!Published
               PROVE  t <= u
    OBVIOUS
  <2>1. PICK k \in DOMAIN monitors : monitors[k].app = u
    BY <1>1, OneMonitorPerActiveApp
  <2>2. k \notin DOMAIN reports
    BY <1>5, <2>1
  <2>3. next <= k
    BY <1>2, <1>3, <2>2
  <2> QED
    BY <1>1, <1>3, <2>1, <2>3, AppsDiffer
<1>8. t \in Up <=> results[next].success
  BY <1>1, <1>3, AppsDiffer DEF Up
<1>9. Verdicts' = Verdicts \cup {[target |-> t, ok |-> kind = "OK"]}
  BY <1>2 DEF Verdicts
<1>10. (kind = "OK") = (t \in Up)
  BY <1>8
<1>11. /\ ActiveApps' = ActiveApps /\ Up' = Up /\ Down' = Down
       /\ RunStatus = "running" /\ RunStatus' = "running"
  BY DEF ActiveApps, Up, Down, RunStatus
<1>12. Promise!Publish(t)
  BY <1>4, <1>6, <1>7, <1>9, <1>10, <1>11 DEF Promise!Publish
<1> QED
  BY <1>6, <1>12 DEF Promise!Next

\* A run ends when every target is published.
LEMMA FinishStep ==
  ASSUME RunnerInv, Finish
  PROVE  Promise!Next
<1>1. /\ RunnerTypeOK /\ Reporting /\ ReportsMatch /\ phase = "report"
      /\ BuiltFrom(Len(apps))
  BY DEF RunnerInv, Finish
<1>2. DOMAIN reports = DOMAIN monitors
  BY <1>1 DEF Finish, Reporting, ReportsMatch, RunnerTypeOK
<1>3. Promise!Published = ActiveApps
  BY <1>1, <1>2, AllDecided, OneMonitorPerActiveApp
<1>4. /\ RunStatus = "running" /\ RunStatus' = "done"
      /\ ActiveApps' = ActiveApps /\ Up' = Up /\ Down' = Down
      /\ Verdicts' = Verdicts
  BY DEF Finish, RunStatus, ActiveApps, Up, Down, Verdicts
<1> QED
  BY <1>3, <1>4 DEF Promise!Finish, Promise!Next

----------------------------------------------------------------------------
\* Every step of a run is one of the promise, or none.
LEMMA StepMaps ==
  ASSUME RunnerInv, [RunnerNext]_vars
  PROVE  [Promise!Next]_(Promise!vars)
<1>1. CASE BuildMonitor
  <2>1. results = <<>> /\ reports = <<>> /\ phase = "build"
    BY <1>1 DEF RunnerInv, Building, BuildMonitor
  <2>2. CASE FactoryThrows(apps[next])
    BY <1>1, <2>1, <2>2, FailStep DEF BuildMonitor, RunStatus, Promise!Next
  <2>3. CASE ~FactoryThrows(apps[next])
    BY <1>1, <2>1, <2>3, QuietStep DEF BuildMonitor, RunStatus
  <2> QED
    BY <2>2, <2>3
<1>2. CASE IgnoreApp
  BY <1>2, QuietStep DEF IgnoreApp, RunStatus
<1>3. CASE StartChecking
  BY <1>3, QuietStep DEF StartChecking, RunStatus
<1>4. CASE CheckMonitor
  BY <1>4, QuietStep DEF CheckMonitor, runnerVars, RunStatus
<1>5. CASE RunMonitor
  BY <1>5, QuietStep DEF RunMonitor, runnerVars, RunStatus
<1>6. CASE CollectResult
  BY <1>6, DecideStep
<1>7. CASE AbandonRun
  <2>1. reports = <<>>
    BY <1>7 DEF RunnerInv, AbandonRun
  <2> QED
    BY <1>7, <2>1, FailStep DEF AbandonRun, RunStatus, Promise!Next
<1>8. CASE StartReporting
  BY <1>8, QuietStep DEF StartReporting, RunStatus
<1>9. ASSUME NEW outcome \in MailOutcomes, ReportSuccess(outcome)
      PROVE  Promise!Next
  BY <1>9, PublishStep DEF ReportSuccess
<1>10. CASE ReportFailure
  BY <1>10, PublishStep DEF ReportFailure
<1>11. CASE Finish
  BY <1>11, FinishStep
<1>12. CASE UNCHANGED vars
  BY <1>12, QuietStep DEF vars, runnerVars, RunStatus
<1> QED
  BY <1>1, <1>2, <1>3, <1>4, <1>5, <1>6, <1>7, <1>8, <1>9, <1>10, <1>11, <1>12
  DEF RunnerNext

\* HealthCheckRunner implements the safety part of HealthReport: every active
\* app gets one verdict, none is published before all have theirs, they are
\* published in order and as reached, and a run that fails publishes nothing.
THEOREM RunnerImplementsHealthReport == RunnerSpec => Promise!Safety
<1>1. RunnerInit => Promise!Init
  BY InitMaps
<1>2. RunnerInv /\ [RunnerNext]_vars => [Promise!Next]_(Promise!vars)
  BY StepMaps
<1> QED
  BY <1>1, <1>2, RunnerInvariantHolds, PTL DEF RunnerSpec, Promise!Safety
=============================================================================
