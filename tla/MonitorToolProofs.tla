-------------------------- MODULE MonitorToolProofs --------------------------
(***************************************************************************)
(* What the whole program guarantees, for every document and whatever the   *)
(* endpoints, the mail server and the signals do.  The loading takes over   *)
(* the theorems of ConfigLoaderProofs, and what it loads are apps that a    *)
(* run can work on; the run takes over the invariant of                     *)
(* HealthCheckRunnerProofs; and the lines it logs get to the disk in their  *)
(* order, but for those a crash loses, and those a rotation drops while      *)
(* later ones fill the rotated files.                                       *)
(***************************************************************************)
EXTENDS MonitorTool, HealthCheckRunnerProofs, SequenceTheorems

\* The theorems about loadConfig, of the tool's variables.  LP has definitions
\* of its own, equal to those of Loader.
LP == INSTANCE ConfigLoaderProofs WITH pc <- loader_pc, next <- loader_next

----------------------------------------------------------------------------
\* Loader and LP read a document in the same way,
LEMMA SameReads ==
  /\ \A fields, bad : Loader!FirstIn(fields, bad) = LP!FirstIn(fields, bad)
  /\ \A v, fields : Loader!MissingFields(v, fields) = LP!MissingFields(v, fields)
  /\ \A v, fields : Loader!UngettableFields(v, fields) = LP!UngettableFields(v, fields)
  /\ \A v, fields : Loader!ReadProblem(v, fields) = LP!ReadProblem(v, fields)
<1>1. \A fields, bad : Loader!FirstIn(fields, bad) = LP!FirstIn(fields, bad)
  BY DEF Loader!FirstIn, LP!FirstIn, Loader!SelectInSeq, LP!SelectInSeq,
         Loader!Min, LP!Min
<1>2. \A v, fields : Loader!MissingFields(v, fields) = LP!MissingFields(v, fields)
  BY DEF Loader!MissingFields, LP!MissingFields, Loader!HasField, LP!HasField,
         Loader!ToSet, LP!ToSet
<1>3. \A v, fields : Loader!UngettableFields(v, fields) = LP!UngettableFields(v, fields)
  BY DEF Loader!UngettableFields, LP!UngettableFields, Loader!HasField, LP!HasField,
         Loader!Gettable, LP!Gettable, Loader!AppInts, LP!AppInts,
         Loader!ToSet, LP!ToSet
<1> QED
  BY <1>1, <1>2, <1>3 DEF Loader!ReadProblem, LP!ReadProblem, Loader!NoProblem,
     LP!NoProblem

\* make the same apps of it,
LEMMA SameApps ==
  /\ \A v : Loader!GetInt(v) = LP!GetInt(v)
  /\ \A fields : Loader!ParsedApps(fields) = LP!ParsedApps(fields)
<1>1. \A v : Loader!GetInt(v) = LP!GetInt(v)
  BY DEF Loader!GetInt, LP!GetInt, Loader!Narrow, LP!Narrow, Loader!Truncate,
         LP!Truncate, Loader!Ints, LP!Ints, Loader!Half, LP!Half
<1>2. \A fields : Loader!ParsedApps(fields) = LP!ParsedApps(fields)
  BY <1>1 DEF Loader!ParsedApps, LP!ParsedApps
<1> QED
  BY <1>1, <1>2

\* check them in the same way,
LEMMA SameChecks == \A app : Loader!FailedChecks(app) = LP!FailedChecks(app)
BY DEF Loader!Checks, LP!Checks, Loader!FailedChecks, LP!FailedChecks,
       Loader!IsValidRequestType, LP!IsValidRequestType, Loader!ToSet, LP!ToSet

\* and take the same steps.
LEMMA SameSteps ==
  /\ Loader!Init => LP!Init
  /\ Loader!Next => LP!Next
<1> USE SameReads, SameApps, SameChecks
    DEF Loader!NoProblem, LP!NoProblem, Loader!HasField, LP!HasField,
        Loader!ToSet, LP!ToSet, Loader!Items, LP!Items
<1>1. Loader!Init => LP!Init
  BY DEF Loader!Init, LP!Init
<1>2. \A where : Loader!Continue(where) <=> LP!Continue(where)
  BY DEF Loader!Continue, LP!Continue
<1>3. \A p : Loader!Throw(p) <=> LP!Throw(p)
  BY DEF Loader!Throw, LP!Throw
<1>4. Loader!OpenFile => LP!OpenFile
  BY <1>2, <1>3 DEF Loader!OpenFile, LP!OpenFile
<1>5. Loader!ParseText => LP!ParseText
  BY <1>2, <1>3 DEF Loader!ParseText, LP!ParseText
<1>6. Loader!ReadLimits => LP!ReadLimits
  BY <1>2, <1>3
  DEF Loader!ReadLimits, LP!ReadLimits, Loader!IntValue, LP!IntValue,
      Loader!Limits, LP!Limits, Loader!DEFAULT_LOGS_PATH, LP!DEFAULT_LOGS_PATH,
      Loader!DEFAULT_MAX_LOG_FILESIZE_BYTE, LP!DEFAULT_MAX_LOG_FILESIZE_BYTE
<1>7. Loader!ParseSmtp => LP!ParseSmtp
  BY <1>2, <1>3 DEF Loader!ParseSmtp, LP!ParseSmtp, Loader!SmtpFields, LP!SmtpFields
<1>8. Loader!BeginApps => LP!BeginApps
  BY <1>2, <1>3 DEF Loader!BeginApps, LP!BeginApps
<1>9. Loader!ParseApp => LP!ParseApp
  BY <1>2, <1>3 DEF Loader!ParseApp, LP!ParseApp, Loader!AppFields, LP!AppFields
<1>10. Loader!BeginValidation => LP!BeginValidation
  BY <1>2 DEF Loader!BeginValidation, LP!BeginValidation, Loader!AppsParsed,
     LP!AppsParsed
<1>11. Loader!ValidateSmtp => LP!ValidateSmtp
  BY <1>2, <1>3 DEF Loader!ValidateSmtp, LP!ValidateSmtp, Loader!SmtpFields,
     LP!SmtpFields
<1>12. Loader!ValidateApp => LP!ValidateApp
  BY <1>2, <1>3 DEF Loader!ValidateApp, LP!ValidateApp, Loader!Checks, LP!Checks
<1>13. Loader!Finish => LP!Finish
  BY <1>2 DEF Loader!Finish, LP!Finish, Loader!AllValidated, LP!AllValidated
<1> QED
  BY <1>1, <1>4, <1>5, <1>6, <1>7, <1>8, <1>9, <1>10, <1>11, <1>12, <1>13
  DEF Loader!Next, LP!Next

\* The assumptions that ConfigLoaderProofs makes of its constants.
LEMMA LoaderAssumptions ==
  LP!LoaderAssumption /\ LP!EmailAssumption /\ LP!DocumentsAssumption
BY ToolAssumption
DEF Loader!LoaderAssumption, LP!LoaderAssumption, Loader!EmailAssumption,
    LP!EmailAssumption, Loader!DocumentsAssumption, LP!DocumentsAssumption,
    Loader!FieldsWellFormed, LP!FieldsWellFormed, Loader!WellFormed, LP!WellFormed,
    Loader!HasField, LP!HasField

----------------------------------------------------------------------------
\* Every step of the program is a step of loadConfig or leaves it alone.
THEOREM ToolImplementsLoader == ToolSpec => Loader!Spec
<1>1. ToolInit => Loader!Init
  BY DEF ToolInit
<1>2. [ToolNext]_toolVars => [Loader!Next]_(Loader!loaderVars)
  BY DEF ToolNext, ThreadStep, Load, InitFails, StartRun, Run, WriteLine, FlushLine,
         Return0or1, Killed, toolVars, loadingVars, Loader!loaderVars
<1> QED
  BY <1>1, <1>2, PTL DEF ToolSpec, Loader!Spec

\* The invariant of loadConfig holds all through the program.
LEMMA LoaderInvHolds == ToolSpec => []LP!LoaderInv
<1>1. Loader!Init => LP!LoaderInv
  BY SameSteps, LoaderAssumptions, LP!LoaderInitInv DEF LP!LoaderInitInv
<1>2. LP!LoaderInv /\ [Loader!Next]_(Loader!loaderVars) => LP!LoaderInv'
  <2>1. [Loader!Next]_(Loader!loaderVars) => [LP!Next]_(LP!loaderVars)
    BY SameSteps DEF Loader!loaderVars, LP!loaderVars
  <2> QED
    BY <2>1, LoaderAssumptions, LP!LoaderNextInv DEF LP!LoaderNextInv
<1> QED
  BY <1>1, <1>2, ToolImplementsLoader, PTL DEF Loader!Spec

\* What the rest of the program needs of a loaded configuration: apps that
\* HealthCheckRunner takes, those of the file.
LoadedInv ==
  /\ Loader!LoaderTypeOK
  /\ Loader!LoadedIsBuildable
  /\ loader_pc = "loaded" =>
       /\ config.apps \in Seq(Apps)
       /\ config.apps # <<>>
       /\ DOMAIN FileApps = 1 .. Len(config.apps)
       /\ \A i \in 1 .. Len(config.apps) :
            /\ ~FactoryThrows(config.apps[i])
            /\ config.apps[i].active = FileApps[i].fields.active.bool

\* A loaded app is one of Apps: it was read from an item of a document, and
\* passed its checks.
LEMMA LoadedAreApps ==
  ASSUME LP!LoaderInv, loader_pc = "loaded"
  PROVE  /\ config.apps \in Seq(Apps)
         /\ DOMAIN FileApps = 1 .. Len(config.apps)
         /\ \A i \in 1 .. Len(config.apps) : ~FactoryThrows(config.apps[i])
<1>1. /\ document \in Documents /\ LP!AppsAreListed
      /\ DOMAIN LP!Items = 1 .. Len(config.apps)
      /\ Len(config.apps) \in Nat
      /\ config.apps = [i \in 1 .. Len(config.apps) |-> config.apps[i]]
      /\ \A i \in 1 .. Len(config.apps) :
           /\ LP!ReadProblem(LP!Items[i], LP!AppFields) = LP!NoProblem
           /\ config.apps[i] \in LP!ParsedApps(LP!Items[i].fields)
           /\ LP!FailedChecks(config.apps[i]) = {}
  BY LoaderAssumptions, LP!LoadedFromItems DEF LP!LoadedFromItems
<1>2. LP!Items = FileApps /\ FileApps = document.root.fields.apps.items
  BY DEF LP!Items, FileApps
<1>3. ASSUME NEW i \in 1 .. Len(config.apps)
      PROVE  /\ Loader!ReadProblem(FileApps[i], Loader!AppFields) = Loader!NoProblem
             /\ config.apps[i] \in Loader!ParsedApps(FileApps[i].fields)
             /\ Loader!FailedChecks(config.apps[i]) = {}
  BY <1>1, <1>2, SameReads, SameApps, SameChecks
  DEF Loader!AppFields, LP!AppFields, Loader!NoProblem, LP!NoProblem
<1>4. /\ Loader!HasField(document.root, "apps")
      /\ document.root.fields.apps.type = "array"
  BY <1>1 DEF LP!AppsAreListed, LP!HasField, Loader!HasField
<1>5. ASSUME NEW i \in 1 .. Len(config.apps) PROVE config.apps[i] \in Apps
  <2>1. i \in DOMAIN document.root.fields.apps.items
    BY <1>1, <1>2
  <2> QED
    BY <1>1, <1>2, <1>3, <1>4, <2>1, ToolAssumption
<1>6. config.apps \in Seq(Apps)
  BY <1>1, <1>5
<1>7. ASSUME NEW i \in 1 .. Len(config.apps) PROVE ~FactoryThrows(config.apps[i])
  <2>1. Loader!IsValidRequestType(config.apps[i].request_type)
    <3>1. "request_type" \in Loader!ToSet(Loader!Checks)
      BY DEF Loader!Checks, Loader!ToSet
    <3>2. Loader!FailedChecks(config.apps[i]) = {}
      BY <1>3
    <3> QED
      BY <3>1, <3>2 DEF Loader!FailedChecks
  <2> QED
    BY <2>1 DEF Loader!IsValidRequestType, FactoryThrows, RequestTypes
<1> QED
  BY <1>1, <1>2, <1>6, <1>7

\* All through the program, a loaded configuration is fit for a run.
THEOREM LoadedIsFit == ToolSpec => []LoadedInv
<1>1. LP!LoaderInv => Loader!LoaderTypeOK
  BY DEF LP!LoaderInv, LP!LoaderTypeOK, Loader!LoaderTypeOK, LP!Ints, Loader!Ints,
         LP!Half, Loader!Half, LP!Problems, Loader!Problems, LP!NoProblem,
         Loader!NoProblem
<1>2. LP!LoaderInv /\ loader_pc = "loaded" => config.apps # <<>>
  BY DEF LP!LoaderInv
<1>3. ASSUME LP!LoaderInv, loader_pc = "loaded", NEW i \in 1 .. Len(config.apps)
      PROVE  config.apps[i].active = FileApps[i].fields.active.bool
  <2>1. config.apps[i] \in LP!ParsedApps(LP!Items[i].fields)
    BY <1>3, LoaderAssumptions, LP!LoadedFromItems DEF LP!LoadedFromItems
  <2>2. PICK fields : fields = FileApps[i].fields
    OBVIOUS
  <2>3. \A app \in LP!ParsedApps(fields) : app.active = fields.active.bool
    BY DEF LP!ParsedApps
  <2>4. config.apps[i] \in LP!ParsedApps(fields)
    BY <2>1, <2>2 DEF LP!Items, FileApps
  <2> QED
    BY <2>2, <2>3, <2>4
<1>4. ToolSpec => []LP!LoadedIsBuildable
  <2>1. LP!Spec => []LP!LoadedIsBuildable
    BY LoaderAssumptions, LP!LoadedCanBeBuilt, PTL DEF LP!LoadedCanBeBuilt
  <2>2. [Loader!Next]_(Loader!loaderVars) => [LP!Next]_(LP!loaderVars)
    BY SameSteps DEF Loader!loaderVars, LP!loaderVars
  <2> QED
    BY <2>1, <2>2, SameSteps, ToolImplementsLoader, PTL DEF Loader!Spec, LP!Spec
<1>5. LP!LoadedIsBuildable => Loader!LoadedIsBuildable
  BY DEF LP!LoadedIsBuildable, Loader!LoadedIsBuildable, LP!IsValidRequestType,
         Loader!IsValidRequestType
<1>6. LP!LoaderInv /\ LP!LoadedIsBuildable => LoadedInv
  BY <1>1, <1>2, <1>3, <1>5, LoadedAreApps DEF LoadedInv
<1> QED
  BY <1>4, <1>6, LoaderInvHolds, PTL

----------------------------------------------------------------------------
\* Before the run, there is nothing of it.
Fresh ==
  /\ apps = <<>> /\ phase = "build" /\ next = 1
  /\ monitors = <<>> /\ results = <<>> /\ ignored = <<>>
  /\ reports = <<>> /\ mails = <<>> /\ evidence = <<>>
  /\ disk = <<>> /\ pending = <<>> /\ todo = <<>> /\ must_flush = FALSE
  /\ dropped = <<>> /\ files = [k \in 0 .. MAX_LOG_FILES |-> NoFile]

\* Where main is, what is loaded and what run has come to agree.
MainInv ==
  /\ main \in {"load", "run", "0", "1", "killed"}
  /\ main = "load" => Fresh
  /\ main \in {"run", "0"} => /\ loader_pc = "loaded" /\ apps = config.apps
                              /\ config.max_logs_filesize_byte >= 1
  /\ apps = <<>> \/ (loader_pc = "loaded" /\ apps = config.apps)
  /\ main = "0" => phase = "finished" /\ todo = <<>> /\ pending = <<>>
                   /\ must_flush = FALSE
  /\ main = "1" => reports = <<>>
  /\ phase = "failed" => pc = "thrown"

\* The lines on their way to the disk; one that is written but not yet flushed
\* is the last that the sink has.
LinesInv ==
  /\ disk \in Seq(LogLines) /\ pending \in Seq(LogLines) /\ damaged = FALSE
  /\ dropped \in Seq(LogLines)
  /\ todo \in Seq(LogLines) /\ must_flush \in BOOLEAN
  /\ must_flush => todo # <<>>
  /\ (main = "run" /\ must_flush) => /\ disk \o pending # <<>>
                                     /\ Head(todo) = Last(disk \o pending)

\* The files hold the lines that the sink has taken and not dropped; and a
\* rotated file and the one begun after it are together over the limit, since
\* the first line of the one did not fit the other.  So lines are dropped only
\* when the rotated files are full of later ones.
FilesInv ==
  /\ files \in [0 .. 3 -> [bytes : Nat, lines : Nat]]
  /\ main = "run" =>
       files[0].lines + files[1].lines + files[2].lines + files[3].lines
         = Len(disk \o pending)
  /\ \A k \in 0 .. 3 : files[k].lines > 0 => files[k].bytes > 0
  /\ \A k \in 1 .. 3 : files[k].bytes > 0 =>
       /\ files[k - 1].bytes > 0
       /\ files[k - 1].bytes + files[k].bytes > config.max_logs_filesize_byte
  /\ dropped # <<>> => files[3].bytes > 0

\* A step of run that logs nothing, ...
Silent ==
  /\ Logged = <<>> /\ UNCHANGED <<ignored, reports, mails>>
  /\ monitors' = monitors \/ reports = <<>>

\* ... one that warns of an inactive app, ...
Warns ==
  /\ Logged = <<[kind |-> "ignored", app |-> next]>>
  /\ ignored' = Append(ignored, next)
  /\ next \in Nat \ {0}
  /\ \A k \in DOMAIN ignored : ignored[k] < next
  /\ UNCHANGED <<monitors, reports, mails>>

\* ... and one that reports on the next monitor, the mail included, if any.
Tells(line, mail) ==
  /\ next = Len(reports) + 1
  /\ next \in DOMAIN monitors
  /\ monitors[next].app \in Nat
  /\ line = [kind |-> line.kind, app |-> monitors[next].app]
  /\ line.kind \in {"OK", "FAIL"}
  /\ \E r : reports' = Append(reports, r) /\ r.kind = line.kind
  /\ \/ mail = <<>> /\ mails' = mails
     \/ \E m \in Mails :
          m.report = next /\ mails' = Append(mails, m) /\ mail = MailLine(m)
  /\ Logged = <<line>> \o mail
  /\ UNCHANGED <<monitors, ignored>>

\* Where run reports, there is a monitor for the next line.
LEMMA NextReported ==
  ASSUME RunnerInv, phase = "report", next <= Len(results)
  PROVE  /\ next = Len(reports) + 1 /\ Len(reports) \in Nat
         /\ next \in DOMAIN monitors
         /\ monitors[next].app \in Nat
<1>1. RunnerTypeOK /\ Reporting /\ ResultsDeserved
  BY DEF RunnerInv
<1>2. next = Len(reports) + 1 /\ Len(reports) \in Nat /\ next \in DOMAIN monitors
  <2>1. /\ Len(reports) \in Nat /\ Len(monitors) \in Nat
        /\ DOMAIN monitors = 1 .. Len(monitors)
    BY <1>1 DEF RunnerTypeOK
  <2>2. next = Len(reports) + 1 /\ next <= Len(monitors)
    BY <1>1 DEF Reporting
  <2> QED
    BY <2>1, <2>2
<1>3. monitors[next] \in Monitors
  BY <1>1, <1>2 DEF RunnerTypeOK
<1> QED
  BY <1>2, <1>3 DEF Monitors

\* What Append adds is the last element, and makes another sequence.
LEMMA AppendLast ==
  ASSUME NEW S, NEW s \in Seq(S), NEW e
  PROVE  Last(Append(s, e)) = e /\ Append(s, e) # s
BY DEF Last

\* An "OK" line, with its mail.
LEMMA SuccessTells ==
  ASSUME RunnerInv, NEW outcome \in MailOutcomes, ReportSuccess(outcome)
  PROVE  \E line, mail : Tells(line, mail)
<1> DEFINE line == [kind |-> "OK", app |-> monitors[next].app]
           r == [kind |-> "OK", url |-> results[next].url]
           m == [to |-> TestRecipient, report |-> next, outcome |-> outcome]
<1>1. RunnerTypeOK
  BY DEF RunnerInv
<1>2. /\ next = Len(reports) + 1 /\ Len(reports) \in Nat
      /\ next \in DOMAIN monitors /\ monitors[next].app \in Nat
  BY NextReported DEF ReportSuccess
<1>3. m \in Mails
  BY <1>2 DEF Mails
<1>4. /\ reports' = Append(reports, r) /\ mails' = Append(mails, m)
      /\ UNCHANGED <<monitors, ignored>>
  BY DEF ReportSuccess, Line
<1>5. /\ Last(reports') = r /\ reports' # reports
      /\ Last(mails') = m /\ mails' # mails
  BY <1>1, <1>4, AppendLast DEF RunnerTypeOK
<1>6. Logged = <<line>> \o MailLine(m)
  BY <1>4, <1>5 DEF Logged
<1>7. \E x \in Mails :
        x.report = next /\ mails' = Append(mails, x) /\ MailLine(m) = MailLine(x)
  <2>1. m.report = next
    OBVIOUS
  <2> HIDE DEF m
  <2> QED
    BY <1>3, <1>4, <2>1
<1>8. \E x : reports' = Append(reports, x) /\ x.kind = line.kind
  BY <1>4
<1>9. line = [kind |-> line.kind, app |-> monitors[next].app] /\ line.kind = "OK"
  OBVIOUS
<1> HIDE DEF line, m, r
<1>10. Tells(line, MailLine(m))
  BY <1>2, <1>4, <1>6, <1>7, <1>8, <1>9 DEF Tells
<1> QED
  BY <1>10

\* A "FAIL" line.
LEMMA FailureTells ==
  ASSUME RunnerInv, ReportFailure
  PROVE  \E line, mail : Tells(line, mail)
<1> DEFINE line == [kind |-> "FAIL", app |-> monitors[next].app]
           r == [kind |-> "FAIL", url |-> results[next].url]
<1>1. RunnerTypeOK
  BY DEF RunnerInv
<1>2. /\ next = Len(reports) + 1 /\ Len(reports) \in Nat
      /\ next \in DOMAIN monitors /\ monitors[next].app \in Nat
  BY NextReported DEF ReportFailure
<1>3. /\ reports' = Append(reports, r)
      /\ UNCHANGED <<monitors, ignored, mails>>
  BY DEF ReportFailure, Line
<1>4. Last(reports') = r /\ reports' # reports
  BY <1>1, <1>3, AppendLast DEF RunnerTypeOK
<1>5. Logged = <<line>> \o <<>>
  BY <1>3, <1>4 DEF Logged
<1>6. Tells(line, <<>>)
  BY <1>2, <1>3, <1>5 DEF Tells
<1> QED
  BY <1>6

\* Every step of run is one of the three.
LEMMA RunTells ==
  ASSUME RunnerInv, RunnerNext
  PROVE  Silent \/ Warns \/ \E line, mail : Tells(line, mail)
<1>1. RunnerTypeOK
  BY DEF RunnerInv
<1>2. CASE IgnoreApp
  <2>1. /\ ignored' = Append(ignored, next) /\ UNCHANGED <<monitors, reports, mails>>
        /\ phase = "build"
    BY <1>2 DEF IgnoreApp
  <2>2. ignored' # ignored
    BY <1>1, <2>1, AppendLast DEF RunnerTypeOK
  <2>3. BuiltFrom(next - 1) /\ next \in Nat \ {0}
    BY <1>1, <2>1, AppsSeq DEF RunnerInv, Building, RunnerTypeOK
  <2>4. \A k \in DOMAIN ignored : ignored[k] < next
    BY <2>3 DEF BuiltFrom
  <2> QED
    BY <2>1, <2>2, <2>3, <2>4 DEF Warns, Logged
<1>3. ASSUME NEW outcome \in MailOutcomes, ReportSuccess(outcome)
      PROVE  \E line, mail : Tells(line, mail)
  BY <1>3, SuccessTells
<1>4. CASE ReportFailure
  BY <1>4, FailureTells
<1>5. CASE BuildMonitor
  BY <1>5 DEF BuildMonitor, RunnerInv, Silent, Logged
<1>6. CASE StartChecking \/ CheckMonitor \/ RunMonitor \/ CollectResult \/ AbandonRun
             \/ StartReporting \/ Finish
  BY <1>6 DEF StartChecking, CheckMonitor, RunMonitor, CollectResult, AbandonRun,
     StartReporting, Finish, runnerVars, Silent, Logged
<1> QED
  BY <1>2, <1>3, <1>4, <1>5, <1>6 DEF RunnerNext

\* A run that dies has nothing more to say.
LEMMA KillIsSilent ==
  ASSUME RunnerNext, phase' = "killed"
  PROVE  Silent
<1>1. AbandonRun
  BY DEF RunnerNext, BuildMonitor, IgnoreApp, StartChecking, CheckMonitor, RunMonitor,
     CollectResult, AbandonRun, StartReporting, ReportSuccess, ReportFailure, Finish,
     runnerVars
<1> QED
  BY <1>1 DEF AbandonRun, Silent, Logged

----------------------------------------------------------------------------
\* Before it starts, the run is one over no apps that has done nothing yet.
LEMMA ToolInitRunner == ToolInit => RunnerInv
<1> SUFFICES ASSUME ToolInit PROVE RunnerInv
  OBVIOUS
<1> USE DEF ToolInit
<1>1. MonitorInv /\ TypeOK
  BY InitInv DEF MonitorInv
<1>2. apps \in Seq(Apps) /\ Len(apps) = 0
  OBVIOUS
<1>3. RunnerTypeOK
  BY <1>1, <1>2 DEF RunnerTypeOK, Phases
<1>4. ResultsDeserved /\ ReportsMatch /\ MailsFollowSuccess
  BY DEF ResultsDeserved, ReportsMatch, MailsFollowSuccess
<1>5. Building
  BY DEF Building, BuiltFrom, MonitorInit
<1> QED
  BY <1>1, <1>3, <1>4, <1>5 DEF RunnerInv

\* The loaded apps are those that the run begins with.
LEMMA StartRunRunner ==
  ASSUME RunnerInv, LoadedInv, MainInv, StartRun
  PROVE  RunnerInv'
<1>1. /\ Fresh /\ loader_pc = "loaded"
      /\ config.apps \in Seq(Apps) /\ apps' = config.apps
      /\ UNCHANGED <<monitorVars, phase, next, monitors, results, ignored, reports,
                     mails, evidence>>
  BY DEF StartRun, MainInv, LoadedInv
<1>2. RunnerTypeOK /\ MonitorInv /\ Building
  BY <1>1 DEF RunnerInv, Fresh
<1>3. MonitorInv' /\ TypeOK'
  BY <1>1, <1>2, StutterInv DEF MonitorInv
<1>4. Len(apps') \in Nat
  BY <1>1
<1>5. RunnerTypeOK'
  BY <1>1, <1>2, <1>3, <1>4 DEF RunnerTypeOK, Fresh
<1>6. ResultsDeserved' /\ ReportsMatch' /\ MailsFollowSuccess'
  BY <1>1 DEF ResultsDeserved, ReportsMatch, MailsFollowSuccess, Fresh
<1>7. Building'
  BY <1>1, <1>2 DEF Building, BuiltFrom, Fresh, monitorVars
<1> QED
  BY <1>1, <1>3, <1>5, <1>6, <1>7 DEF RunnerInv, Fresh

\* No step of the program disturbs what holds of the run.
LEMMA ToolStepRunner ==
  ASSUME RunnerInv, LoadedInv, MainInv, [ToolNext]_toolVars
  PROVE  RunnerInv'
<1>1. CASE StartRun
  BY <1>1, StartRunRunner
<1>2. CASE Run
  BY <1>2, NextInv DEF Run
<1>3. CASE Load \/ InitFails \/ WriteLine \/ FlushLine \/ Return0or1
             \/ Killed \/ UNCHANGED toolVars
  <2>1. UNCHANGED vars
    BY <1>3 DEF Load, InitFails, WriteLine, FlushLine, Return0or1, Killed,
       toolVars
  <2> QED
    BY <2>1, NextInv
<1> QED
  BY <1>1, <1>2, <1>3 DEF ToolNext, ThreadStep

\* The program begins where MainInv, LinesInv and FilesInv say.
LEMMA ToolInitMain == ToolInit => MainInv /\ LinesInv /\ FilesInv
<1> SUFFICES ASSUME ToolInit PROVE MainInv /\ LinesInv /\ FilesInv
  OBVIOUS
<1>1. Fresh /\ main = "load" /\ damaged = FALSE
  BY DEF ToolInit, Fresh, Log!Init
<1>2. MainInv
  BY <1>1 DEF MainInv, Fresh
<1>3. LinesInv
  <2>1. <<>> \in Seq(LogLines)
    OBVIOUS
  <2>2. ~must_flush
    BY <1>1 DEF Fresh
  <2> QED
    BY <1>1, <2>1, <2>2, Zenon DEF LinesInv, Fresh
<1>4. FilesInv
  <2>1. main # "run" /\ dropped = <<>>
    BY <1>1 DEF Fresh
  <2>2. files \in [0 .. 3 -> [bytes : Nat, lines : Nat]]
        /\ \A k \in 0 .. 3 : files[k].bytes = 0 /\ files[k].lines = 0
    BY <1>1 DEF Fresh, NoFile, MAX_LOG_FILES
  <2> QED
    BY <2>1, <2>2 DEF FilesInv
<1> QED
  BY <1>2, <1>3, <1>4

\* What a step does to the log leaves it a sequence of lines.
LEMMA SinkTyped ==
  ASSUME disk \in Seq(LogLines), pending \in Seq(LogLines),
         \/ \E line \in LogLines : Log!Write(line)
         \/ Log!Flush
         \/ Log!Crash
         \/ UNCHANGED diskVars
  PROVE  /\ disk' \in Seq(LogLines) /\ pending' \in Seq(LogLines)
         /\ damaged' = damaged
<1>1. ASSUME NEW q \in Seq(LogLines), NEW i \in Nat \ {0}, NEW j \in Nat, j <= Len(q)
      PROVE  SubSeq(q, i, j) \in Seq(LogLines)
  BY <1>1
<1>2. ASSUME NEW q \in Seq(LogLines), NEW k \in 0 .. Len(q), Log!Settle(q, k)
      PROVE  /\ disk' \in Seq(LogLines) /\ pending' \in Seq(LogLines)
             /\ damaged' = damaged
  <2>1. SubSeq(q, 1, k) \in Seq(LogLines) /\ SubSeq(q, k + 1, Len(q)) \in Seq(LogLines)
    BY <1>1, <1>2
  <2> QED
    BY <1>2, <2>1 DEF Log!Settle
<1>3. CASE \E line \in LogLines : Log!Write(line)
  <2>1. PICK line \in LogLines, k \in 0 .. Len(pending) + 1 :
          Log!Settle(Append(pending, line), k)
    BY <1>3 DEF Log!Write
  <2>2. /\ Append(pending, line) \in Seq(LogLines)
        /\ Len(Append(pending, line)) = Len(pending) + 1
    BY AppendFacts
  <2> QED
    BY <1>2, <2>1, <2>2
<1>4. CASE Log!Flush
  <2>1. Len(pending) \in 0 .. Len(pending)
    OBVIOUS
  <2> QED
    BY <1>2, <1>4, <2>1 DEF Log!Flush
<1>5. CASE Log!Crash
  <2>1. pending' = <<>> /\ disk' = disk /\ damaged' = damaged
    BY <1>5 DEF Log!Crash
  <2> QED
    BY <2>1
<1>6. CASE UNCHANGED diskVars
  BY <1>6 DEF diskVars
<1> QED
  BY <1>3, <1>4, <1>5, <1>6

----------------------------------------------------------------------------
\* Everything the sink of this run has taken and neither lost nor dropped.
Sunk == disk \o pending

\* The same with what it has dropped.
Taken == Reached \o pending

\* The elements of two sequences, one behind the other.
LEMMA ConcatFacts ==
  ASSUME NEW S, NEW q \in Seq(S), NEW r \in Seq(S)
  PROVE  /\ q \o r \in Seq(S)
         /\ Len(q \o r) = Len(q) + Len(r)
         /\ \A i \in 1 .. Len(q) : (q \o r)[i] = q[i]
         /\ \A i \in 1 .. Len(r) : (q \o r)[Len(q) + i] = r[i]
OBVIOUS

\* Lines can be put together in any order of steps.
LEMMA ToolAssociative ==
  \A s, t, u \in Seq(LogLines) : (s \o t) \o u = s \o (t \o u)
<1> TAKE s, t, u \in Seq(LogLines)
<1> QED
  BY ConcatAssociative

\* A sequence is its first lines and the others.
LEMMA TwoParts ==
  ASSUME NEW q \in Seq(LogLines), NEW k \in 0 .. Len(q)
  PROVE  /\ SubSeq(q, 1, k) \in Seq(LogLines)
         /\ SubSeq(q, k + 1, Len(q)) \in Seq(LogLines)
         /\ SubSeq(q, 1, k) \o SubSeq(q, k + 1, Len(q)) = q
<1>1. SubSeq(q, 1, k) \in Seq(LogLines) /\ SubSeq(q, k + 1, Len(q)) \in Seq(LogLines)
  OBVIOUS
<1>2. SubSeq(q, 1, k) \o SubSeq(q, k + 1, Len(q)) = SubSeq(q, 1, Len(q))
  <2>1. 1 \in 1 .. Len(q) + 1 /\ k \in 1 - 1 .. Len(q) /\ Len(q) \in k .. Len(q)
    OBVIOUS
  <2> QED
    BY <2>1, ConcatAdjacentSubSeq
<1>3. SubSeq(q, 1, Len(q)) = q
  OBVIOUS
<1> QED
  BY <1>1, <1>2, <1>3

\* Whatever part of it gets to the disk, what settles stays.
LEMMA SettledStays ==
  ASSUME disk \in Seq(LogLines), NEW q \in Seq(LogLines),
         NEW k \in 0 .. Len(q), Log!Settle(q, k)
  PROVE  Sunk' = disk \o q
<1> DEFINE front == SubSeq(q, 1, k)
           rest == SubSeq(q, k + 1, Len(q))
<1>1. disk' = disk \o front /\ pending' = rest
  BY DEF Log!Settle
<1>2. front \in Seq(LogLines) /\ rest \in Seq(LogLines) /\ front \o rest = q
  BY TwoParts
<1> HIDE DEF front, rest
<1> QED
  BY <1>1, <1>2, ToolAssociative DEF Sunk

\* A log call adds its line, a flush nothing.
LEMMA SinkTakes ==
  ASSUME disk \in Seq(LogLines), pending \in Seq(LogLines)
  PROVE  /\ \A line \in LogLines : Log!Write(line) => Sunk' = Append(Sunk, line)
         /\ Log!Flush => Sunk' = Sunk /\ pending' = <<>> /\ disk' = Sunk
<1>1. ASSUME NEW line \in LogLines, Log!Write(line) PROVE Sunk' = Append(Sunk, line)
  <2>1. PICK k \in 0 .. Len(pending) + 1 : Log!Settle(Append(pending, line), k)
    BY <1>1 DEF Log!Write
  <2>2. /\ Append(pending, line) \in Seq(LogLines)
        /\ Len(Append(pending, line)) = Len(pending) + 1
    BY AppendFacts
  <2>3. Sunk' = disk \o Append(pending, line)
    BY <2>1, <2>2, SettledStays
  <2>4. <<line>> \in Seq(LogLines) /\ Append(pending, line) = pending \o <<line>>
    OBVIOUS
  <2>5. disk \o (pending \o <<line>>) = (disk \o pending) \o <<line>>
    BY <2>4, ToolAssociative
  <2>6. (disk \o pending) \o <<line>> = Append(disk \o pending, line)
    OBVIOUS
  <2> QED
    BY <2>3, <2>4, <2>5, <2>6 DEF Sunk
<1>2. ASSUME Log!Flush PROVE Sunk' = Sunk /\ pending' = <<>> /\ disk' = Sunk
  <2>1. Log!Settle(pending, Len(pending)) /\ Len(pending) \in 0 .. Len(pending)
    BY <1>2 DEF Log!Flush
  <2>2. Sunk' = disk \o pending
    BY <2>1, SettledStays
  <2>3. SubSeq(pending, 1, Len(pending)) = pending
        /\ SubSeq(pending, Len(pending) + 1, Len(pending)) = <<>>
    OBVIOUS
  <2> QED
    BY <2>1, <2>2, <2>3 DEF Sunk, Log!Settle
<1> QED
  BY <1>1, <1>2

\* A line to be logged is one.
LEMMA HeadTyped ==
  ASSUME NEW q \in Seq(LogLines), q # <<>>
  PROVE  /\ Head(q) \in LogLines /\ Tail(q) \in Seq(LogLines)
         /\ q = <<Head(q)>> \o Tail(q)
OBVIOUS

\* What was dropped, is on disk and is pending can be cut in two ways.
LEMMA TakenIs ==
  ASSUME disk \in Seq(LogLines), pending \in Seq(LogLines), dropped \in Seq(LogLines)
  PROVE  /\ Taken = dropped \o Sunk
         /\ Taken \in Seq(LogLines) /\ Sunk \in Seq(LogLines) /\ Reached \in Seq(LogLines)
<1>1. (dropped \o disk) \o pending = dropped \o (disk \o pending)
  BY ToolAssociative
<1>2. dropped \o disk \in Seq(LogLines) /\ disk \o pending \in Seq(LogLines)
  BY ConcatFacts
<1>3. (dropped \o disk) \o pending \in Seq(LogLines)
  BY <1>2, ConcatFacts
<1> QED
  BY <1>1, <1>2, <1>3 DEF Taken, Sunk, Reached

\* A log call that rotates adds its line as well; what the sink no longer has,
\* it has dropped.
LEMMA RotatingTakes ==
  ASSUME disk \in Seq(LogLines), pending \in Seq(LogLines), dropped \in Seq(LogLines),
         NEW line \in LogLines, line = Head(todo),
         NEW size, Rotating(size), files[3].lines \in 0 .. Len(Sunk)
  PROVE  /\ disk' \in Seq(LogLines) /\ pending' \in Seq(LogLines)
         /\ dropped' \in Seq(LogLines) /\ damaged' = damaged
         /\ dropped' \o Sunk' = Append(dropped \o Sunk, line)
         /\ Len(Sunk') = Len(Sunk) - files[3].lines + 1
         /\ Sunk' # <<>> /\ Last(Sunk') = line
         /\ Len(dropped') = Len(dropped) + files[3].lines
<1> DEFINE old == SubSeq(Sunk, 1, files[3].lines)
           kept == SubSeq(Sunk, files[3].lines + 1, Len(Sunk))
           one == <<line>>
<1>1. Sunk \in Seq(LogLines) /\ one \in Seq(LogLines) /\ <<>> \in Seq(LogLines)
  BY ConcatFacts DEF Sunk
<1>2. /\ old \in Seq(LogLines) /\ kept \in Seq(LogLines) /\ old \o kept = Sunk
  BY <1>1, TwoParts
<1>3. Len(old) = files[3].lines /\ Len(kept) = Len(Sunk) - files[3].lines
  BY <1>1
<1>4. /\ dropped' = dropped \o old /\ damaged' = damaged
      /\ \/ disk' = kept \o one /\ pending' = <<>>
         \/ disk' = kept \o <<>> /\ pending' = one
  BY DEF Rotating, Sunk, MAX_LOG_FILES
<1> HIDE DEF old, kept
<1>5. /\ disk' \in Seq(LogLines) /\ pending' \in Seq(LogLines)
      /\ dropped' \in Seq(LogLines)
  BY <1>1, <1>2, <1>4, ConcatFacts
<1>6. Sunk' = kept \o one
  <2>1. kept \o <<>> = kept /\ (kept \o one) \o <<>> = kept \o one
    BY <1>1, <1>2
  <2> QED
    BY <1>4, <2>1 DEF Sunk
<1>7. (dropped \o old) \o (kept \o one) = Append(dropped \o Sunk, line)
  <2>1. /\ dropped \o old \in Seq(LogLines) /\ dropped \o Sunk \in Seq(LogLines)
    BY <1>1, <1>2, ConcatFacts
  <2>2. (dropped \o old) \o (kept \o one) = ((dropped \o old) \o kept) \o one
    BY <1>1, <1>2, <2>1, ToolAssociative
  <2>3. (dropped \o old) \o kept = dropped \o (old \o kept)
    BY <1>2, ToolAssociative
  <2>4. (dropped \o Sunk) \o one = Append(dropped \o Sunk, line)
    BY <2>1
  <2> QED
    BY <1>2, <2>2, <2>3, <2>4
<1>8. kept \o one = Append(kept, line)
  BY <1>2
<1>9. /\ Len(Sunk') = Len(kept) + 1 /\ Sunk' # <<>> /\ Last(Sunk') = line
  <2>1. Len(Append(kept, line)) = Len(kept) + 1 /\ Append(kept, line) # <<>>
    <3>1. PICK q : q = Append(kept, line)
      OBVIOUS
    <3>2. q \in Seq(LogLines) /\ Len(kept) \in Nat /\ Len(q) = Len(kept) + 1
      BY <1>2, <3>1, AppendFacts
    <3>3. Len(q) # 0
      BY <3>2
    <3>4. q # <<>>
      BY <3>2, <3>3
    <3> QED
      BY <3>1, <3>2, <3>4
  <2>2. Last(Append(kept, line)) = line
    BY <1>2, AppendLast
  <2> QED
    BY <1>6, <1>8, <2>1, <2>2
<1>10. Len(dropped') = Len(dropped) + Len(old)
  BY <1>2, <1>4, ConcatFacts
<1> QED
  BY <1>3, <1>4, <1>5, <1>6, <1>7, <1>9, <1>10

\* The files together hold at least what the oldest of them does.
LEMMA OldestFits ==
  ASSUME LinesInv, FilesInv, main = "run"
  PROVE  /\ files[3].lines \in 0 .. Len(Sunk)
         /\ \A k \in 0 .. 3 : files[k].lines \in Nat /\ files[k].bytes \in Nat
<1>1. \A k \in 0 .. 3 : files[k] \in [bytes : Nat, lines : Nat]
  BY DEF FilesInv
<1>2. \A k \in 0 .. 3 : files[k].lines \in Nat /\ files[k].bytes \in Nat
  BY <1>1
<1>3. /\ files[0].lines \in Nat /\ files[1].lines \in Nat
      /\ files[2].lines \in Nat /\ files[3].lines \in Nat
  BY <1>2
<1>4. files[0].lines + files[1].lines + files[2].lines + files[3].lines = Len(Sunk)
  BY DEF FilesInv, Sunk
<1> QED
  BY <1>2, <1>3, <1>4

\* A log call adds its line, behind all others, whether or not it rotates.
LEMMA LineTaken ==
  ASSUME LinesInv, FilesInv, WriteLine
  PROVE  /\ Head(todo) \in LogLines
         /\ disk' \in Seq(LogLines) /\ pending' \in Seq(LogLines)
         /\ dropped' \in Seq(LogLines) /\ damaged' = damaged
         /\ Taken' = Append(Taken, Head(todo))
         /\ Sunk' # <<>> /\ Last(Sunk') = Head(todo)
<1> DEFINE line == Head(todo)
<1>1. /\ disk \in Seq(LogLines) /\ pending \in Seq(LogLines) /\ dropped \in Seq(LogLines)
      /\ line \in LogLines /\ main = "run"
  BY HeadTyped DEF LinesInv, WriteLine
<1>2. /\ Taken = dropped \o Sunk /\ Sunk \in Seq(LogLines)
  BY <1>1, TakenIs
<1>3. PICK size \in LineSizes : Fitting(size) \/ Rotating(size)
  BY DEF WriteLine
<1> HIDE DEF line
<1>4. CASE Fitting(size)
  <2>1. Log!Write(line) /\ dropped' = dropped
    BY <1>4 DEF Fitting, line
  <2>2. Sunk' = Append(Sunk, line)
    BY <1>1, <2>1, SinkTakes
  <2>3. disk' \in Seq(LogLines) /\ pending' \in Seq(LogLines) /\ damaged' = damaged
    BY <1>1, <2>1, SinkTyped
  <2>4. Taken' = dropped' \o Sunk'
    <3>1. (disk \in Seq(LogLines) /\ pending \in Seq(LogLines) /\ dropped \in Seq(LogLines)
           => Taken = dropped \o Sunk)'
      BY TakenIs, PTL
    <3> QED
      BY <1>1, <2>1, <2>3, <3>1
  <2>5. dropped \o Append(Sunk, line) = Append(dropped \o Sunk, line)
    <3>1. <<line>> \in Seq(LogLines) /\ Append(Sunk, line) = Sunk \o <<line>>
      BY <1>1, <1>2
    <3>2. dropped \o (Sunk \o <<line>>) = (dropped \o Sunk) \o <<line>>
      BY <1>1, <1>2, <3>1, ToolAssociative
    <3>3. dropped \o Sunk \in Seq(LogLines)
      BY <1>1, <1>2, ConcatFacts
    <3>4. (dropped \o Sunk) \o <<line>> = Append(dropped \o Sunk, line)
      BY <3>3
    <3> QED
      BY <3>1, <3>2, <3>4
  <2>6. Last(Sunk') = line /\ Sunk' # <<>>
    BY <1>1, <1>2, <2>2, AppendLast
  <2> QED
    BY <1>1, <1>2, <2>1, <2>2, <2>3, <2>4, <2>5, <2>6 DEF line
<1>5. CASE Rotating(size)
  <2>1. /\ disk' \in Seq(LogLines) /\ pending' \in Seq(LogLines)
        /\ dropped' \in Seq(LogLines) /\ damaged' = damaged
        /\ dropped' \o Sunk' = Append(dropped \o Sunk, line)
        /\ Sunk' # <<>> /\ Last(Sunk') = line
    BY <1>1, <1>5, OldestFits, RotatingTakes DEF line
  <2>2. Taken' = dropped' \o Sunk'
    <3>1. (disk \in Seq(LogLines) /\ pending \in Seq(LogLines) /\ dropped \in Seq(LogLines)
           => Taken = dropped \o Sunk)'
      BY TakenIs, PTL
    <3> QED
      BY <2>1, <3>1
  <2> QED
    BY <1>1, <1>2, <2>1, <2>2 DEF line
<1> QED
  BY <1>3, <1>4, <1>5

\* A report and what follows it are lines.
LEMMA TellsTyped ==
  ASSUME NEW line, NEW mail, Tells(line, mail)
  PROVE  line \in LogLines /\ mail \in Seq(LogLines)
<1>1. line \in LogLines
  <2>1. monitors[next].app \in Nat /\ line.kind \in {"OK", "FAIL"}
        /\ line = [kind |-> line.kind, app |-> monitors[next].app]
    BY DEF Tells
  <2> QED
    BY <2>1 DEF LogLines
<1>2. mail \in Seq(LogLines)
  <2>1. CASE mail = <<>>
    BY <2>1
  <2>2. ASSUME NEW m \in Mails, m.report = next, mail = MailLine(m)
        PROVE  mail \in Seq(LogLines)
    <3>1. monitors[m.report].app \in Nat
      BY <2>2 DEF Tells
    <3>2. \A kind \in {"mail_sent", "mail_failed"} :
            [kind |-> kind, app |-> monitors[m.report].app] \in LogLines
      BY <3>1 DEF LogLines
    <3> QED
      BY <2>2, <3>2 DEF MailLine
  <2> QED
    BY <2>1, <2>2 DEF Tells
<1> QED
  BY <1>1, <1>2

\* What a step of run logs are lines.
LEMMA LoggedTyped ==
  ASSUME RunnerInv, RunnerNext
  PROVE  Logged \in Seq(LogLines)
<1>1. CASE Silent
  BY <1>1 DEF Silent
<1>2. CASE Warns
  <2>1. [kind |-> "ignored", app |-> next] \in LogLines
    BY <1>2 DEF Warns, LogLines
  <2> QED
    BY <1>2, <2>1 DEF Warns
<1>3. ASSUME NEW line, NEW mail, Tells(line, mail) PROVE Logged \in Seq(LogLines)
  <2>1. <<line>> \in Seq(LogLines) /\ mail \in Seq(LogLines)
    BY <1>3, TellsTyped
  <2>2. <<line>> \o mail \in Seq(LogLines)
    BY <2>1, ConcatFacts
  <2> QED
    BY <1>3, <2>2 DEF Tells
<1> QED
  BY <1>1, <1>2, <1>3, RunTells

\* An app that the run works on never makes the factory throw.
LEMMA RunFails ==
  ASSUME RunnerInv, LoadedInv, MainInv, Run
  PROVE  phase' = "failed" => pc' = "thrown"
<1>1. /\ loader_pc = "loaded" /\ apps = config.apps /\ RunnerNext
      /\ phase = "failed" => pc = "thrown"
  BY DEF Run, MainInv
<1>2. CASE BuildMonitor
  <2>1. phase = "build" /\ next \in Nat \ {0} /\ next <= Len(apps)
    BY <1>2, AppsSeq DEF BuildMonitor, RunnerInv, RunnerTypeOK
  <2>2. next \in 1 .. Len(config.apps)
    BY <1>1, <2>1, AppsSeq DEF RunnerInv
  <2>3. ~FactoryThrows(apps[next])
    BY <1>1, <2>2 DEF LoadedInv
  <2>4. phase' = "build"
    BY <1>2, <2>1, <2>3 DEF BuildMonitor
  <2> QED
    BY <2>4
<1>3. CASE ~BuildMonitor
  BY <1>1, <1>3 DEF RunnerNext, IgnoreApp, StartChecking, CheckMonitor,
     RunMonitor, CollectResult, AbandonRun, StartReporting, ReportSuccess,
     ReportFailure, Finish, runnerVars, monitorVars
<1> QED
  BY <1>2, <1>3

\* The apps of a run are those it began with.
LEMMA RunKeepsApps == ASSUME RunnerNext PROVE apps' = apps
BY DEF RunnerNext, BuildMonitor, IgnoreApp, StartChecking, CheckMonitor, RunMonitor,
       CollectResult, AbandonRun, StartReporting, ReportSuccess, ReportFailure,
       Finish, runnerVars

\* No step takes main where its configuration, its log or its run are not what
\* they have to be there.
LEMMA ToolStepMain ==
  ASSUME RunnerInv, LoadedInv, MainInv, LinesInv, [ToolNext]_toolVars
  PROVE  MainInv'
<1> USE DEF vars, monitorVars, runnerVars, loadingVars, diskVars
<1>1. CASE Load
  BY <1>1 DEF Load, MainInv, Fresh
<1>2. CASE InitFails
  <2>1. Fresh
    BY <1>2 DEF InitFails, MainInv
  <2> QED
    BY <1>2, <2>1 DEF InitFails, MainInv, Fresh
<1>3. CASE StartRun
  <2>1. Fresh /\ loader_pc = "loaded" /\ ~LimitRejected
    BY <1>3 DEF StartRun, MainInv, LoggerThrows
  <2>2. config.max_logs_filesize_byte \in Int
    <3>1. Modulus \in Nat
      BY ToolAssumption DEF Loader!LoaderAssumption
    <3>2. Loader!Ints \subseteq Int
      BY <3>1 DEF Loader!Ints, Loader!Half
    <3> QED
      BY <3>2 DEF LoadedInv, Loader!LoaderTypeOK
  <2>3. config.max_logs_filesize_byte >= 1
    BY <2>1, <2>2 DEF LimitRejected
  <2> QED
    BY <1>3, <2>1, <2>3 DEF StartRun, MainInv, Fresh
<1>4. CASE Run
  <2>1. /\ main' \in {"run", "killed"}
        /\ loader_pc = "loaded" /\ apps = config.apps
        /\ config.max_logs_filesize_byte >= 1
        /\ UNCHANGED <<loader_pc, config>> /\ apps' = apps
    BY <1>4, RunKeepsApps DEF Run, MainInv
  <2> QED
    BY <1>4, <2>1, RunFails DEF MainInv
<1>5. CASE WriteLine \/ FlushLine
  BY <1>5 DEF WriteLine, FlushLine, MainInv
<1>6. CASE Return0or1
  <2>1. must_flush = FALSE /\ todo = <<>>
    BY <1>6 DEF Return0or1, LinesInv
  <2>2. pending' = <<>>
    BY <1>6, SinkTakes DEF Return0or1, CloseLog, Flush, LinesInv
  <2>3. phase = "failed" => reports = <<>>
    BY DEF RunnerInv
  <2> QED
    BY <1>6, <2>1, <2>2, <2>3 DEF Return0or1, MainInv
<1>7. CASE Killed
  BY <1>7 DEF Killed, MainInv
<1>8. CASE UNCHANGED toolVars
  BY <1>8 DEF toolVars, MainInv, Fresh
<1> QED
  BY <1>1, <1>2, <1>3, <1>4, <1>5, <1>6, <1>7, <1>8 DEF ToolNext, ThreadStep

\* No step leaves a line half logged.
LEMMA ToolStepLines ==
  ASSUME RunnerInv, LoadedInv, MainInv, LinesInv, FilesInv, [ToolNext]_toolVars
  PROVE  LinesInv'
<1> USE DEF diskVars
<1>0. /\ disk \in Seq(LogLines) /\ pending \in Seq(LogLines) /\ damaged = FALSE
      /\ dropped \in Seq(LogLines)
      /\ todo \in Seq(LogLines) /\ must_flush \in BOOLEAN
  BY DEF LinesInv
<1>1. CASE Load \/ InitFails \/ UNCHANGED toolVars
  BY <1>1 DEF Load, InitFails, toolVars, LinesInv
<1>2. CASE StartRun
  <2>1. Fresh
    BY <1>2 DEF StartRun, MainInv
  <2>2. \A kind \in {"config_loaded", "runner_created"} :
          [kind |-> kind, app |-> 0] \in LogLines
    BY DEF LogLines
  <2>3. todo' \in Seq(LogLines)
    BY <1>2, <2>2 DEF StartRun
  <2>4. UNCHANGED <<disk, pending, damaged, dropped, must_flush>> /\ must_flush = FALSE
    BY <1>2, <2>1 DEF StartRun, Fresh
  <2> QED
    BY <1>0, <2>3, <2>4 DEF LinesInv
<1>3. CASE Run
  <2>1. todo = <<>> /\ main = "run" /\ must_flush = FALSE
    BY <1>3 DEF Run, LinesInv
  <2>2. todo' \in Seq(LogLines) /\ must_flush' = FALSE
    BY <1>3, <2>1, LoggedTyped DEF Run
  <2>3. /\ disk' \in Seq(LogLines) /\ pending' \in Seq(LogLines) /\ damaged' = damaged
        /\ dropped' = dropped
    BY <1>0, <1>3, SinkTyped DEF Run, Crash
  <2> QED
    BY <1>0, <2>2, <2>3 DEF LinesInv
<1>4. CASE WriteLine
  <2>1. /\ Tail(todo) \in Seq(LogLines)
        /\ disk' \in Seq(LogLines) /\ pending' \in Seq(LogLines)
        /\ dropped' \in Seq(LogLines) /\ damaged' = damaged
        /\ Last(Sunk') = Head(todo) /\ Sunk' # <<>>
    BY <1>0, <1>4, HeadTyped, LineTaken DEF WriteLine
  <2>2. /\ todo # <<>> /\ todo' \in {todo, Tail(todo)}
        /\ must_flush' \in BOOLEAN
        /\ must_flush' => todo' = todo
    BY <1>4 DEF WriteLine, Severe
  <2> QED
    BY <1>0, <2>1, <2>2 DEF LinesInv, Sunk
<1>5. CASE FlushLine
  <2>1. todo # <<>>
    BY <1>5 DEF FlushLine, LinesInv
  <2>2. todo' \in Seq(LogLines) /\ must_flush' = FALSE
    BY <1>0, <1>5, <2>1, HeadTyped DEF FlushLine
  <2>3. /\ disk' \in Seq(LogLines) /\ pending' \in Seq(LogLines) /\ damaged' = damaged
        /\ dropped' = dropped
    BY <1>0, <1>5, SinkTyped DEF FlushLine, Flush
  <2> QED
    BY <1>0, <2>2, <2>3 DEF LinesInv
<1>6. CASE Return0or1 \/ Killed
  <2>1. /\ disk' \in Seq(LogLines) /\ pending' \in Seq(LogLines) /\ damaged' = damaged
        /\ dropped' = dropped
    BY <1>0, <1>6, SinkTyped DEF Return0or1, CloseLog, Flush, Killed, Crash
  <2>2. UNCHANGED <<todo, must_flush>> /\ main' # "run"
    BY <1>6 DEF Return0or1, Killed
  <2> QED
    BY <1>0, <2>1, <2>2 DEF LinesInv
<1> QED
  BY <1>1, <1>2, <1>3, <1>4, <1>5, <1>6 DEF ToolNext, ThreadStep

\* The limit of the log is a number.
LEMMA LimitIsInt == ASSUME LoadedInv PROVE config.max_logs_filesize_byte \in Int
<1>1. Modulus \in Nat
  BY ToolAssumption DEF Loader!LoaderAssumption
<1>2. Loader!Ints \subseteq Int
  BY <1>1 DEF Loader!Ints, Loader!Half
<1> QED
  BY <1>2 DEF LoadedInv, Loader!LoaderTypeOK

\* A line that fits makes the log file longer, and leaves the others alone.
LEMMA FittingFiles ==
  ASSUME LoadedInv, LinesInv, FilesInv, main = "run", todo # <<>>,
         NEW size \in LineSizes, Fitting(size), config' = config
  PROVE  FilesInv'
<1> DEFINE file == [bytes |-> files[0].bytes + size, lines |-> files[0].lines + 1]
           limit == config.max_logs_filesize_byte
<1>1. /\ files \in [0 .. 3 -> [bytes : Nat, lines : Nat]]
      /\ files' = [files EXCEPT ![0] = file] /\ dropped' = dropped
      /\ \A k \in 0 .. 3 : files[k].lines \in Nat /\ files[k].bytes \in Nat
  BY OldestFits DEF FilesInv, Fitting
<1>2. size \in Nat \ {0} /\ limit \in Int
  BY ToolAssumption, LimitIsInt
<1>3. /\ file.bytes = files[0].bytes + size /\ file.lines = files[0].lines + 1
      /\ file \in [bytes : Nat, lines : Nat]
      /\ file.bytes > files[0].bytes
  BY <1>1, <1>2
<1> HIDE DEF file
<1>4. /\ files'[0] = file /\ files'[1] = files[1]
      /\ files'[2] = files[2] /\ files'[3] = files[3]
      /\ files' \in [0 .. 3 -> [bytes : Nat, lines : Nat]]
  BY <1>1, <1>3
<1>5. Len(Sunk') = Len(Sunk) + 1
  <2>1. Head(todo) \in LogLines /\ disk \in Seq(LogLines) /\ pending \in Seq(LogLines)
    BY HeadTyped DEF LinesInv
  <2>2. Sunk' = Append(Sunk, Head(todo)) /\ Sunk \in Seq(LogLines)
    BY <2>1, SinkTakes, ConcatFacts DEF Fitting, Sunk
  <2> QED
    BY <2>1, <2>2, AppendFacts
<1>6. files[0].lines + files[1].lines + files[2].lines + files[3].lines = Len(Sunk)
  BY DEF FilesInv, Sunk
<1>7. files'[0].lines + files'[1].lines + files'[2].lines + files'[3].lines = Len(Sunk')
  <2>1. /\ files[0].lines \in Nat /\ files[1].lines \in Nat
        /\ files[2].lines \in Nat /\ files[3].lines \in Nat
    BY <1>1
  <2>2. /\ files'[0].lines = files[0].lines + 1 /\ files'[1].lines = files[1].lines
        /\ files'[2].lines = files[2].lines /\ files'[3].lines = files[3].lines
    BY <1>3, <1>4
  <2>3. PICK a, b, c, d \in Nat :
          /\ a = files[0].lines /\ b = files[1].lines
          /\ c = files[2].lines /\ d = files[3].lines
    BY <2>1
  <2>4. /\ Len(Sunk') = (a + b + c + d) + 1
        /\ files'[0].lines = a + 1 /\ files'[1].lines = b
        /\ files'[2].lines = c /\ files'[3].lines = d
    BY <1>5, <1>6, <2>2, <2>3
  <2>5. (a + 1) + b + c + d = (a + b + c + d) + 1
    OBVIOUS
  <2> QED
    BY <2>4, <2>5
<1>8. \A k \in 0 .. 3 : files'[k].lines > 0 => files'[k].bytes > 0
  <2>1. files'[0].bytes > 0
    BY <1>1, <1>2, <1>3, <1>4
  <2>2. /\ files[1].lines > 0 => files[1].bytes > 0
        /\ files[2].lines > 0 => files[2].bytes > 0
        /\ files[3].lines > 0 => files[3].bytes > 0
    BY DEF FilesInv
  <2> QED
    BY <1>4, <2>1, <2>2
<1>9. \A k \in 1 .. 3 : files'[k].bytes > 0 =>
        files'[k - 1].bytes > 0 /\ files'[k - 1].bytes + files'[k].bytes > limit
  <2>1. /\ files[1].bytes > 0 => files[0].bytes > 0 /\ files[0].bytes + files[1].bytes > limit
        /\ files[2].bytes > 0 => files[1].bytes > 0 /\ files[1].bytes + files[2].bytes > limit
        /\ files[3].bytes > 0 => files[2].bytes > 0 /\ files[2].bytes + files[3].bytes > limit
    BY DEF FilesInv
  <2> HIDE DEF limit
  <2>2. PICK a, b, c, d \in Nat :
          /\ a = files[0].bytes /\ b = files[1].bytes
          /\ c = files[2].bytes /\ d = files[3].bytes
    BY <1>1
  <2>3. /\ files'[0].bytes = a + size /\ files'[1].bytes = b
        /\ files'[2].bytes = c /\ files'[3].bytes = d
    BY <1>3, <1>4, <2>2
  <2>4. /\ b > 0 => a + size > 0 /\ (a + size) + b > limit
        /\ c > 0 => b > 0 /\ b + c > limit
        /\ d > 0 => c > 0 /\ c + d > limit
    BY <1>2, <2>1, <2>2
  <2>5. /\ files'[1].bytes > 0 =>
             files'[0].bytes > 0 /\ files'[0].bytes + files'[1].bytes > limit
        /\ files'[2].bytes > 0 =>
             files'[1].bytes > 0 /\ files'[1].bytes + files'[2].bytes > limit
        /\ files'[3].bytes > 0 =>
             files'[2].bytes > 0 /\ files'[2].bytes + files'[3].bytes > limit
    BY <2>3, <2>4
  <2>6. \A k \in 1 .. 3 : (k = 1 /\ k - 1 = 0) \/ (k = 2 /\ k - 1 = 1) \/ (k = 3 /\ k - 1 = 2)
    OBVIOUS
  <2> QED
    BY <2>5, <2>6
<1>10. dropped' # <<>> => files'[3].bytes > 0
  BY <1>1, <1>4 DEF FilesInv
<1> QED
  BY <1>4, <1>7, <1>8, <1>9, <1>10 DEF FilesInv, Sunk

\* A line that does not fit is the first of a new file; with the one before it,
\* that is over the limit.
LEMMA RotatingFiles ==
  ASSUME LoadedInv, LinesInv, FilesInv, main = "run", todo # <<>>,
         NEW size \in LineSizes, Rotating(size), config' = config
  PROVE  FilesInv'
<1> DEFINE file == [bytes |-> size, lines |-> 1]
           limit == config.max_logs_filesize_byte
<1>1. /\ files \in [0 .. 3 -> [bytes : Nat, lines : Nat]]
      /\ files' = [k \in DOMAIN files |-> IF k = 0 THEN file ELSE files[k - 1]]
      /\ \A k \in 0 .. 3 : files[k].lines \in Nat /\ files[k].bytes \in Nat
      /\ files[0].bytes + size > limit /\ files[0].bytes > 0
  BY OldestFits DEF FilesInv, Rotating, Shifted, Full
<1>2. size \in Nat \ {0} /\ limit \in Int
  BY ToolAssumption, LimitIsInt
<1>3. file.bytes = size /\ file.lines = 1 /\ file \in [bytes : Nat, lines : Nat]
  BY <1>2
<1> HIDE DEF file
<1>4. /\ files'[0] = file /\ files'[1] = files[0]
      /\ files'[2] = files[1] /\ files'[3] = files[2]
      /\ files' \in [0 .. 3 -> [bytes : Nat, lines : Nat]]
  BY <1>1, <1>3
<1>5. /\ Len(Sunk') = Len(Sunk) - files[3].lines + 1
      /\ Len(dropped') = Len(dropped) + files[3].lines
      /\ dropped' \in Seq(LogLines)
  <2>1. Head(todo) \in LogLines /\ disk \in Seq(LogLines) /\ pending \in Seq(LogLines)
        /\ dropped \in Seq(LogLines)
    BY HeadTyped DEF LinesInv
  <2> QED
    BY <2>1, OldestFits, RotatingTakes
<1>6. files[0].lines + files[1].lines + files[2].lines + files[3].lines = Len(Sunk)
  BY DEF FilesInv, Sunk
<1>7. files'[0].lines + files'[1].lines + files'[2].lines + files'[3].lines = Len(Sunk')
  <2>1. /\ files[0].lines \in Nat /\ files[1].lines \in Nat
        /\ files[2].lines \in Nat /\ files[3].lines \in Nat
    BY <1>1
  <2>2. /\ files'[0].lines = 1 /\ files'[1].lines = files[0].lines
        /\ files'[2].lines = files[1].lines /\ files'[3].lines = files[2].lines
    BY <1>3, <1>4
  <2>3. PICK a, b, c, d \in Nat :
          /\ a = files[0].lines /\ b = files[1].lines
          /\ c = files[2].lines /\ d = files[3].lines
    BY <2>1
  <2>4. /\ Len(Sunk') = (a + b + c + d) - d + 1
        /\ files'[0].lines = 1 /\ files'[1].lines = a
        /\ files'[2].lines = b /\ files'[3].lines = c
    BY <1>5, <1>6, <2>2, <2>3
  <2>5. 1 + a + b + c = (a + b + c + d) - d + 1
    OBVIOUS
  <2> QED
    BY <2>4, <2>5
<1>8. \A k \in 0 .. 3 : files'[k].lines > 0 => files'[k].bytes > 0
  <2>1. files'[0].bytes > 0
    BY <1>2, <1>3, <1>4
  <2>2. /\ files[0].lines > 0 => files[0].bytes > 0
        /\ files[1].lines > 0 => files[1].bytes > 0
        /\ files[2].lines > 0 => files[2].bytes > 0
    BY DEF FilesInv
  <2> QED
    BY <1>4, <2>1, <2>2
<1>9. \A k \in 1 .. 3 : files'[k].bytes > 0 =>
        files'[k - 1].bytes > 0 /\ files'[k - 1].bytes + files'[k].bytes > limit
  <2>1. /\ files[1].bytes > 0 => files[0].bytes > 0 /\ files[0].bytes + files[1].bytes > limit
        /\ files[2].bytes > 0 => files[1].bytes > 0 /\ files[1].bytes + files[2].bytes > limit
    BY DEF FilesInv
  <2> HIDE DEF limit
  <2>2. PICK a, b, c \in Nat :
          /\ a = files[0].bytes /\ b = files[1].bytes
          /\ c = files[2].bytes
    BY <1>1
  <2>3. /\ files'[0].bytes = size /\ files'[1].bytes = a
        /\ files'[2].bytes = b /\ files'[3].bytes = c
    BY <1>3, <1>4, <2>2
  <2>4. /\ a > 0 => size > 0 /\ size + a > limit
        /\ b > 0 => a > 0 /\ a + b > limit
        /\ c > 0 => b > 0 /\ b + c > limit
    BY <1>1, <1>2, <2>1, <2>2
  <2>5. /\ files'[1].bytes > 0 =>
             files'[0].bytes > 0 /\ files'[0].bytes + files'[1].bytes > limit
        /\ files'[2].bytes > 0 =>
             files'[1].bytes > 0 /\ files'[1].bytes + files'[2].bytes > limit
        /\ files'[3].bytes > 0 =>
             files'[2].bytes > 0 /\ files'[2].bytes + files'[3].bytes > limit
    BY <2>3, <2>4
  <2>6. \A k \in 1 .. 3 : (k = 1 /\ k - 1 = 0) \/ (k = 2 /\ k - 1 = 1) \/ (k = 3 /\ k - 1 = 2)
    OBVIOUS
  <2> QED
    BY <2>5, <2>6
<1>10. ASSUME dropped' # <<>> PROVE files'[3].bytes > 0
  <2>1. CASE dropped # <<>>
    <3>1. files[3].bytes > 0
      BY <2>1 DEF FilesInv
    <3>2. files[2].bytes > 0
      BY <3>1 DEF FilesInv
    <3> QED
      BY <1>4, <3>2
  <2>2. CASE dropped = <<>>
    <3>1. Len(dropped) = 0 /\ Len(dropped') # 0
      BY <1>5, <1>10, <2>2
    <3>2. files[3].lines > 0
      BY <1>1, <1>5, <3>1
    <3>3. files[3].bytes > 0
      BY <3>2 DEF FilesInv
    <3>4. files[2].bytes > 0
      BY <3>3 DEF FilesInv
    <3> QED
      BY <1>4, <3>4
  <2> QED
    BY <2>1, <2>2
<1> QED
  BY <1>4, <1>7, <1>8, <1>9, <1>10 DEF FilesInv, Sunk

\* No step makes the files hold anything else.
LEMMA ToolStepFiles ==
  ASSUME LoadedInv, MainInv, LinesInv, FilesInv, [ToolNext]_toolVars
  PROVE  FilesInv'
<1>1. CASE Load \/ StartRun
  <2>1. /\ Fresh
        /\ files[0] = NoFile /\ files[1] = NoFile
        /\ files[2] = NoFile /\ files[3] = NoFile
    BY <1>1 DEF Load, StartRun, MainInv, Fresh, MAX_LOG_FILES
  <2>2. dropped' = <<>> /\ disk' = <<>> /\ pending' = <<>>
    BY <1>1, <2>1 DEF Load, StartRun, Fresh, diskVars
  <2>3. PICK bytes \in Nat : files' = [files EXCEPT ![0].bytes = bytes]
    <3>1. CASE Load
      <4>1. files' = files /\ files[0].bytes = 0
        BY <2>1, <3>1 DEF Load, diskVars, NoFile
      <4>2. files = [files EXCEPT ![0].bytes = 0]
        BY <2>1, <4>1 DEF FilesInv, NoFile
      <4> QED
        BY <4>1, <4>2
    <3>2. CASE StartRun
      BY <3>2, ToolAssumption DEF StartRun
    <3> QED
      BY <1>1, <3>1, <3>2
  <2>4. /\ files' \in [0 .. 3 -> [bytes : Nat, lines : Nat]]
        /\ files'[0].lines = 0
        /\ \A k \in 1 .. 3 : files'[k].lines = 0 /\ files'[k].bytes = 0
    BY <2>1, <2>3 DEF FilesInv, NoFile
  <2>5. disk' \o pending' = <<>> /\ Len(<<>>) = 0
    BY <2>2
  <2> QED
    BY <2>2, <2>4, <2>5 DEF FilesInv
<1>2. CASE InitFails \/ Run \/ FlushLine \/ Return0or1 \/ Killed \/ UNCHANGED toolVars
  <2>1. /\ UNCHANGED <<files, dropped, config>>
        /\ main' = "run" => main = "run" /\ (UNCHANGED <<disk, pending>> \/ Log!Flush)
    BY <1>2 DEF InitFails, Run, FlushLine, Return0or1, Killed, CloseLog, Flush, Crash,
       toolVars, diskVars, loadingVars
  <2>2. main' = "run" => main = "run" /\ Sunk' = Sunk
    BY <2>1, SinkTakes DEF Sunk, LinesInv
  <2> QED
    BY <2>1, <2>2 DEF FilesInv, Sunk
<1>3. CASE WriteLine
  <2>1. main = "run" /\ todo # <<>> /\ config' = config
        /\ \E size \in LineSizes : Fitting(size) \/ Rotating(size)
    BY <1>3 DEF WriteLine, loadingVars
  <2> QED
    BY <2>1, FittingFiles, RotatingFiles
<1> QED
  BY <1>1, <1>2, <1>3 DEF ToolNext, ThreadStep

\* The invariant of a run holds of the one that the program makes, whatever was
\* loaded; and main, the log, its files and the run agree.
THEOREM ToolRunIsSound ==
  ToolSpec => [](RunnerInv /\ MainInv /\ LinesInv /\ FilesInv)
<1>1. ToolInit => RunnerInv /\ MainInv /\ LinesInv /\ FilesInv
  BY ToolInitRunner, ToolInitMain
<1>2. /\ RunnerInv /\ MainInv /\ LinesInv /\ FilesInv
      /\ LoadedInv
      /\ [ToolNext]_toolVars
      => (RunnerInv /\ MainInv /\ LinesInv /\ FilesInv)'
  BY ToolStepRunner, ToolStepMain, ToolStepLines, ToolStepFiles
<1> QED
  BY <1>1, <1>2, LoadedIsFit, PTL DEF ToolSpec

\* The whole program keeps its types, its limit positive, and the line it
\* flushes the one it wrote last.
THEOREM ToolTypeCorrect == ToolSpec => []ToolTypeOK
<1>1. RunnerInv /\ MainInv /\ LinesInv /\ FilesInv /\ LoadedInv => ToolTypeOK
  BY DEF RunnerInv, MainInv, LinesInv, FilesInv, LoadedInv, ToolTypeOK, MAX_LOG_FILES
<1> QED
  BY <1>1, ToolRunIsSound, LoadedIsFit, PTL

\* A run gives its monitors a wait, a budget and a request type that make sense,
\* and no run fails but by an exception of a health check, whatever was in the
\* file.
THEOREM LoadedIsRun == ToolSpec => []LoadedConfigRuns
<1>1. ASSUME RunnerInv, MainInv, LoadedInv, NEW k \in DOMAIN monitors
      PROVE  /\ monitors[k].settings.timeout_seconds >= 1
             /\ monitors[k].settings.max_retries >= 0
             /\ monitors[k].settings.request_type \in RequestTypes
  <2>1. PICK n \in 0 .. Len(apps) : BuiltFrom(n)
    <3>1. next - 1 \in 0 .. Len(apps) \/ phase # "build"
      BY <1>1, AppsSeq DEF RunnerInv, RunnerTypeOK
    <3>2. Len(apps) \in 0 .. Len(apps)
      BY <1>1, AppsSeq DEF RunnerInv
    <3> QED
      BY <1>1, <3>1, <3>2 DEF RunnerInv, Building, RunnerTypeOK, Phases
  <2>2. PICK i \in 1 .. Len(apps) : monitors[k].settings = MonitorSettings(apps[i])
    <3>1. Len(apps) \in Nat
      BY <1>1, AppsSeq DEF RunnerInv
    <3>2. /\ monitors[k].app \in 1 .. n
          /\ monitors[k].settings = MonitorSettings(apps[monitors[k].app])
      BY <1>1, <2>1 DEF BuiltFrom
    <3>3. monitors[k].app \in 1 .. Len(apps)
      BY <2>1, <3>1, <3>2
    <3> QED
      BY <3>2, <3>3
  <2>3. loader_pc = "loaded" /\ apps = config.apps
    BY <1>1, <2>2 DEF MainInv
  <2>4. i \in DOMAIN config.apps
    BY <1>1, <2>2, <2>3, AppsSeq DEF RunnerInv
  <2>5. /\ apps[i].timeout_seconds >= 1 /\ apps[i].max_retries >= 0
        /\ Loader!IsValidRequestType(apps[i].request_type)
    BY <1>1, <2>3, <2>4 DEF LoadedInv, Loader!LoadedIsBuildable
  <2> QED
    BY <2>2, <2>5 DEF MonitorSettings, Loader!IsValidRequestType, RequestTypes
<1>2. MainInv /\ LoadedInv => /\ phase = "failed" => pc = "thrown"
                              /\ main = "run" => apps # <<>>
  BY DEF MainInv, LoadedInv
<1>3. RunnerInv /\ MainInv /\ LoadedInv => LoadedConfigRuns
  BY <1>1, <1>2 DEF LoadedConfigRuns
<1> QED
  BY <1>3, ToolRunIsSound, LoadedIsFit, PTL

----------------------------------------------------------------------------
\* What of the lines to be logged the sink has not seen yet.
Rest == IF must_flush THEN Tail(todo) ELSE todo

\* Every line of this run that no crash has taken, in its order.
Told == Taken \o Rest

SameSort(l, m) ==
  \/ Verdict(l) /\ Verdict(m)
  \/ l.kind = "ignored" /\ m.kind = "ignored"

\* The verdicts are in the order of the file, and so are the warnings: no app
\* has two of them.
Ordered(q) ==
  \A j, k \in DOMAIN q : (j < k /\ SameSort(q[j], q[k])) => q[j].app < q[k].app

\* There is no line but of what run has done.
SourceOf(line) ==
  /\ line.kind = "ignored" => \E k \in DOMAIN ignored : ignored[k] = line.app
  /\ Verdict(line) => \E k \in DOMAIN reports : monitors[k].app = line.app

Sourced(q) == \A j \in DOMAIN q : SourceOf(q[j])

IgnoredLine(k) == [kind |-> "ignored", app |-> ignored[k]]

ReportLine(k) == [kind |-> reports[k].kind, app |-> monitors[k].app]

\* What run has done has its line.
Complete(q) ==
  /\ \A k \in DOMAIN ignored : IgnoredLine(k) \in ToSet(q)
  /\ \A k \in DOMAIN reports : ReportLine(k) \in ToSet(q)

\* The log tells of the run, and of everything it has done while no crash has
\* taken lines.
TellInv ==
  /\ Ordered(Told)
  /\ Sourced(Told)
  /\ main # "killed" => Complete(Told)

\* Lines that are some of those of another log, in their order, are no worse.
LEMMA SomeOfThem ==
  ASSUME NEW q \in Seq(LogLines), NEW r \in Seq(LogLines),
         NEW f \in [DOMAIN r -> DOMAIN q],
         \A j, k \in DOMAIN r : j < k => f[j] < f[k],
         \A j \in DOMAIN r : r[j] = q[f[j]]
  PROVE  /\ Ordered(q) => Ordered(r)
         /\ Sourced(q) => Sourced(r)
<1>1. ASSUME Ordered(q), NEW j \in DOMAIN r, NEW k \in DOMAIN r, j < k,
             SameSort(r[j], r[k])
      PROVE  r[j].app < r[k].app
  <2>1. f[j] \in DOMAIN q /\ f[k] \in DOMAIN q /\ f[j] < f[k]
    BY <1>1
  <2>2. r[j] = q[f[j]] /\ r[k] = q[f[k]]
    BY <1>1
  <2> QED
    BY <1>1, <2>1, <2>2 DEF Ordered
<1>2. ASSUME Sourced(q), NEW j \in DOMAIN r PROVE SourceOf(r[j])
  <2>1. f[j] \in DOMAIN q /\ r[j] = q[f[j]]
    BY <1>2
  <2> QED
    BY <1>2, <2>1 DEF Sourced
<1> QED
  BY <1>1, <1>2 DEF Ordered, Sourced

\* A log and what comes behind it are in order together,
LEMMA BothOrdered ==
  ASSUME NEW q \in Seq(LogLines), NEW r \in Seq(LogLines), Ordered(q), Ordered(r),
         \A j \in DOMAIN q, k \in DOMAIN r :
           SameSort(q[j], r[k]) => q[j].app < r[k].app
  PROVE  Ordered(q \o r)
<1> SUFFICES ASSUME NEW j \in DOMAIN (q \o r), NEW k \in DOMAIN (q \o r), j < k,
                    SameSort((q \o r)[j], (q \o r)[k])
             PROVE  (q \o r)[j].app < (q \o r)[k].app
  BY DEF Ordered
<1> DEFINE n == Len(q)
           At(i) == IF i <= n THEN q[i] ELSE r[i - n]
<1>1. /\ n \in Nat /\ DOMAIN q = 1 .. n
      /\ DOMAIN (q \o r) = 1 .. n + Len(r) /\ Len(r) \in Nat /\ DOMAIN r = 1 .. Len(r)
      /\ (q \o r)[j] = At(j) /\ (q \o r)[k] = At(k)
  OBVIOUS
<1>2. CASE k <= n
  <2>1. j \in DOMAIN q /\ k \in DOMAIN q /\ (q \o r)[j] = q[j] /\ (q \o r)[k] = q[k]
    BY <1>1, <1>2
  <2> QED
    BY <2>1 DEF Ordered
<1>3. CASE j > n
  <2>1. /\ j - n \in DOMAIN r /\ k - n \in DOMAIN r /\ j - n < k - n
        /\ (q \o r)[j] = r[j - n] /\ (q \o r)[k] = r[k - n]
    BY <1>1, <1>3
  <2> QED
    BY <2>1 DEF Ordered
<1>4. CASE j <= n /\ k > n
  <2>1. j \in DOMAIN q /\ k - n \in DOMAIN r
        /\ (q \o r)[j] = q[j] /\ (q \o r)[k] = r[k - n]
    BY <1>1, <1>4
  <2> QED
    BY <2>1
<1> QED
  BY <1>1, <1>2, <1>3, <1>4

\* and have each its lines.
LEMMA BothSets ==
  ASSUME NEW q \in Seq(LogLines), NEW r \in Seq(LogLines)
  PROVE  ToSet(q \o r) = ToSet(q) \cup ToSet(r)
<1>1. /\ Len(q) \in Nat /\ DOMAIN q = 1 .. Len(q)
      /\ Len(r) \in Nat /\ DOMAIN r = 1 .. Len(r)
      /\ DOMAIN (q \o r) = 1 .. Len(q) + Len(r)
      /\ \A i \in 1 .. Len(q) : (q \o r)[i] = q[i]
      /\ \A i \in 1 .. Len(r) : (q \o r)[Len(q) + i] = r[i]
  OBVIOUS
<1>2. ASSUME NEW i \in DOMAIN (q \o r) PROVE (q \o r)[i] \in ToSet(q) \cup ToSet(r)
  <2>1. i \in DOMAIN q \/ (i - Len(q) \in DOMAIN r /\ i = Len(q) + (i - Len(q)))
    BY <1>1
  <2> QED
    BY <1>1, <2>1 DEF ToSet
<1>3. ASSUME NEW i \in DOMAIN q PROVE q[i] \in ToSet(q \o r)
  <2>1. i \in DOMAIN (q \o r) /\ (q \o r)[i] = q[i]
    BY <1>1
  <2> QED
    BY <2>1 DEF ToSet
<1>4. ASSUME NEW i \in DOMAIN r PROVE r[i] \in ToSet(q \o r)
  <2>1. Len(q) + i \in DOMAIN (q \o r) /\ (q \o r)[Len(q) + i] = r[i]
    BY <1>1
  <2> QED
    BY <2>1 DEF ToSet
<1> QED
  BY <1>2, <1>3, <1>4 DEF ToSet

\* They are lines.
LEMMA ToldTyped ==
  ASSUME LinesInv
  PROVE  /\ disk \in Seq(LogLines) /\ pending \in Seq(LogLines)
         /\ dropped \in Seq(LogLines) /\ Reached \in Seq(LogLines)
         /\ Taken \in Seq(LogLines) /\ Rest \in Seq(LogLines)
         /\ Told \in Seq(LogLines)
<1>1. /\ disk \in Seq(LogLines) /\ pending \in Seq(LogLines)
      /\ dropped \in Seq(LogLines)
      /\ todo \in Seq(LogLines) /\ must_flush \in BOOLEAN
      /\ must_flush => todo # <<>>
  BY DEF LinesInv
<1>2. Taken \in Seq(LogLines) /\ Reached \in Seq(LogLines)
  BY <1>1, TakenIs
<1>3. Rest \in Seq(LogLines)
  BY <1>1, HeadTyped DEF Rest
<1>4. Told \in Seq(LogLines)
  BY <1>2, <1>3, ConcatFacts DEF Told
<1> QED
  BY <1>1, <1>2, <1>3, <1>4

\* A log call moves its line from one side of Told to the other.
LEMMA WritingTells == ASSUME LinesInv, FilesInv, WriteLine PROVE Told' = Told
<1> DEFINE line == Head(todo)
           tail == Tail(todo)
<1>1. todo \in Seq(LogLines) /\ todo # <<>> /\ must_flush = FALSE
  BY DEF WriteLine, LinesInv
<1>2. line \in LogLines /\ tail \in Seq(LogLines) /\ todo = <<line>> \o tail
  BY <1>1, HeadTyped
<1>3. Taken' = Append(Taken, line) /\ Taken \in Seq(LogLines)
  BY LineTaken, ToldTyped
<1>4. Rest' = tail
  BY DEF WriteLine, Rest
<1>5. Rest = todo
  BY <1>1 DEF Rest
<1> HIDE DEF line, tail
<1>6. Append(Taken, line) = Taken \o <<line>> /\ <<line>> \in Seq(LogLines)
  BY <1>2, <1>3
<1>7. (Taken \o <<line>>) \o tail = Taken \o (<<line>> \o tail)
  BY <1>2, <1>3, <1>6, ToolAssociative
<1> QED
  BY <1>2, <1>3, <1>4, <1>5, <1>6, <1>7 DEF Told

\* A flush takes nothing: it is on disk then.
LEMMA FlushTaken ==
  ASSUME LinesInv, Flush
  PROVE  Taken' = Taken /\ Reached' = Taken /\ pending' = <<>>
<1>1. /\ disk \in Seq(LogLines) /\ pending \in Seq(LogLines)
      /\ dropped \in Seq(LogLines) /\ Taken \in Seq(LogLines)
  BY ToldTyped
<1>2. disk' = Sunk /\ pending' = <<>> /\ dropped' = dropped
  BY <1>1, SinkTakes DEF Flush
<1>3. Taken = dropped \o Sunk
  BY <1>1, TakenIs
<1>4. Reached' = Taken
  BY <1>2, <1>3 DEF Reached
<1>5. Taken \o <<>> = Taken
  BY <1>1
<1> QED
  BY <1>2, <1>4, <1>5 DEF Taken

\* A flush, and the end of main, take nothing from it.
LEMMA FlushTells == ASSUME LinesInv, FlushLine \/ Return0or1 PROVE Told' = Told
<1>1. Taken' = Taken
  BY FlushTaken DEF FlushLine, Return0or1, CloseLog
<1>2. CASE FlushLine
  <2>1. Rest = Tail(todo) /\ Rest' = Tail(todo)
    BY <1>2 DEF FlushLine, Rest
  <2> QED
    BY <1>1, <2>1 DEF Told
<1>3. CASE Return0or1
  <2>1. Rest' = Rest
    BY <1>3 DEF Return0or1, Rest
  <2> QED
    BY <1>1, <2>1 DEF Told
<1> QED
  BY <1>2, <1>3

\* The lines of q without those from m + 1 to n.
LEMMA WithoutSome ==
  ASSUME NEW q \in Seq(LogLines), NEW r \in Seq(LogLines), NEW m \in Nat, NEW n \in Nat,
         m <= n, Len(r) + n - m = Len(q),
         \A j \in 1 .. Len(r) : r[j] = IF j <= m THEN q[j] ELSE q[j + n - m]
  PROVE  /\ Ordered(q) => Ordered(r)
         /\ Sourced(q) => Sourced(r)
<1> DEFINE f == [j \in DOMAIN r |-> IF j <= m THEN j ELSE j + n - m]
<1>1. DOMAIN q = 1 .. Len(q) /\ DOMAIN r = 1 .. Len(r) /\ Len(q) \in Nat /\ Len(r) \in Nat
  OBVIOUS
<1>2. \A j \in DOMAIN r : f[j] \in DOMAIN q
  BY <1>1
<1>3. f \in [DOMAIN r -> DOMAIN q]
  BY <1>2
<1>4. \A j, k \in DOMAIN r : j < k => f[j] < f[k]
  BY <1>1
<1>5. \A j \in DOMAIN r : r[j] = q[f[j]]
  BY <1>1
<1> HIDE DEF f
<1> QED
  BY <1>3, <1>4, <1>5, SomeOfThem

\* What a crash leaves of what there is to tell.
LEMMA LessTold ==
  ASSUME LinesInv, Ordered(Told), Sourced(Told), Crash, UNCHANGED <<todo, must_flush>>
  PROVE  Ordered(Told') /\ Sourced(Told')
<1> DEFINE d == Len(Reached)
           p == Len(pending)
           n == d + p
           r == Reached \o Rest
<1>1. /\ Reached \in Seq(LogLines) /\ pending \in Seq(LogLines)
      /\ Rest \in Seq(LogLines) /\ Taken \in Seq(LogLines) /\ Told \in Seq(LogLines)
      /\ d \in Nat /\ p \in Nat
  BY ToldTyped
<1>2. Told' = r
  <2>1. /\ disk' = disk /\ pending' = <<>> /\ dropped' = dropped /\ Rest' = Rest
    BY DEF Crash, Log!Crash, Rest
  <2>2. Reached' = Reached /\ Reached \o <<>> = Reached
    BY <1>1, <2>1 DEF Reached
  <2> QED
    BY <2>1, <2>2 DEF Told, Taken
<1>3. /\ Len(Taken) = d + p /\ Len(Told) = d + p + Len(Rest) /\ Len(Rest) \in Nat
      /\ \A j \in 1 .. d : Told[j] = Reached[j]
      /\ \A j \in 1 .. Len(Rest) : Told[d + p + j] = Rest[j]
  BY <1>1 DEF Told, Taken
<1>4. r \in Seq(LogLines) /\ Len(r) = d + Len(Rest)
  BY <1>1
<1>5. ASSUME NEW j \in 1 .. Len(r) PROVE r[j] = IF j <= d THEN Told[j] ELSE Told[j + n - d]
  <2>1. CASE j <= d
    BY <1>1, <1>3, <1>4, <2>1
  <2>2. CASE j > d
    <3>1. r[j] = Rest[j - d] /\ j - d \in 1 .. Len(Rest)
      BY <1>1, <1>3, <1>4, <2>2
    <3>2. j + n - d = d + p + (j - d)
      BY <1>1, <1>4, <2>2
    <3>3. ~(j <= d)
      BY <1>1, <1>4, <2>2
    <3> QED
      BY <1>3, <3>1, <3>2, <3>3
  <2> QED
    BY <1>1, <1>4, <2>1, <2>2
<1> HIDE DEF r
<1>6. d <= n /\ n \in Nat /\ Len(r) + n - d = Len(Told)
  BY <1>1, <1>3, <1>4
<1> HIDE DEF n, d
<1> QED
  BY <1>1, <1>2, <1>4, <1>5, <1>6, WithoutSome

\* Before the run there is nothing to tell.
LEMMA FreshTells ==
  ASSUME Fresh
  PROVE  Told = <<>> /\ Complete(Told) /\ TellInv
<1>1. /\ disk = <<>> /\ pending = <<>> /\ dropped = <<>>
      /\ todo = <<>> /\ must_flush = FALSE
      /\ ignored = <<>> /\ reports = <<>>
  BY DEF Fresh
<1>2. Told = <<>>
  BY <1>1 DEF Told, Taken, Reached, Rest
<1>3. Ordered(<<>>) /\ Sourced(<<>>)
  BY DEF Ordered, Sourced
<1>4. Complete(<<>>)
  BY <1>1 DEF Complete
<1> QED
  BY <1>2, <1>3, <1>4 DEF TellInv

\* The monitors are in the order of the file.
LEMMA MonitorsOrdered ==
  ASSUME RunnerInv, NEW j \in DOMAIN monitors, NEW k \in DOMAIN monitors, j < k
  PROVE  monitors[j].app < monitors[k].app
<1>1. \E n : BuiltFrom(n)
  BY DEF RunnerInv, Building, RunnerTypeOK, Phases
<1> QED
  BY <1>1 DEF BuiltFrom

\* What a step of run appends to its records leaves the earlier ones.
LEMMA AppendKeeps ==
  ASSUME NEW S, NEW s \in Seq(S), NEW e
  PROVE  /\ DOMAIN s \subseteq DOMAIN Append(s, e)
         /\ \A k \in DOMAIN s : Append(s, e)[k] = s[k]
         /\ Len(s) + 1 \in DOMAIN Append(s, e) /\ Append(s, e)[Len(s) + 1] = e
         /\ \A k \in DOMAIN Append(s, e) : k \in DOMAIN s \/ k = Len(s) + 1
         /\ DOMAIN s = 1 .. Len(s) /\ Len(s) \in Nat
OBVIOUS

\* The records that a step of run adds to, if it does, and the others.
LEMMA RecordsGrow ==
  ASSUME RunnerInv, Silent \/ Warns \/ \E line, mail : Tells(line, mail)
  PROVE  /\ monitors' = monitors \/ reports' = <<>>
         /\ \A k \in DOMAIN ignored : k \in DOMAIN ignored' /\ ignored'[k] = ignored[k]
         /\ \A k \in DOMAIN reports :
              k \in DOMAIN reports' /\ reports'[k].kind = reports[k].kind
<1>1. RunnerTypeOK
  BY DEF RunnerInv
<1>2. CASE Silent
  BY <1>2 DEF Silent
<1>3. CASE Warns
  <2>1. ignored' = Append(ignored, next) /\ UNCHANGED <<monitors, reports>>
    BY <1>3 DEF Warns
  <2> QED
    BY <1>1, <2>1, AppendKeeps DEF RunnerTypeOK
<1>4. ASSUME NEW line, NEW mail, Tells(line, mail)
      PROVE  /\ UNCHANGED <<monitors, ignored>>
             /\ \A k \in DOMAIN reports :
                  k \in DOMAIN reports' /\ reports'[k].kind = reports[k].kind
  <2>1. PICK r : reports' = Append(reports, r)
    BY <1>4 DEF Tells
  <2>2. UNCHANGED <<monitors, ignored>>
    BY <1>4 DEF Tells
  <2> QED
    BY <1>1, <2>1, <2>2, AppendKeeps DEF RunnerTypeOK
<1> QED
  BY <1>2, <1>3, <1>4

\* The lines of what run has done before a step are still those after it.
LEMMA SourcesStay ==
  ASSUME RunnerInv, Silent \/ Warns \/ \E line, mail : Tells(line, mail),
         NEW q, Sourced(q)
  PROVE  Sourced(q)'
<1> SUFFICES ASSUME NEW j \in DOMAIN q PROVE SourceOf(q[j])'
  BY DEF Sourced
<1>1. SourceOf(q[j])
  BY DEF Sourced
<1>2. reports' = <<>> => reports = <<>>
  <2>1. ASSUME reports # <<>> PROVE reports' # <<>>
    <3>1. 1 \in DOMAIN reports
      BY <2>1 DEF RunnerInv, RunnerTypeOK
    <3>2. 1 \in DOMAIN reports'
      BY <3>1, RecordsGrow
    <3> QED
      BY <3>2
  <2> QED
    BY <2>1
<1>3. q[j].kind = "ignored" => \E k \in DOMAIN ignored' : ignored'[k] = q[j].app
  BY <1>1, RecordsGrow DEF SourceOf
<1>4. Verdict(q[j]) => \E k \in DOMAIN reports' : monitors'[k].app = q[j].app
  <2>1. ASSUME Verdict(q[j]) PROVE \E k \in DOMAIN reports' : monitors'[k].app = q[j].app
    <3>1. PICK k \in DOMAIN reports : monitors[k].app = q[j].app
      BY <1>1, <2>1 DEF SourceOf
    <3>2. reports # <<>>
      BY <3>1
    <3>3. k \in DOMAIN reports' /\ monitors' = monitors
      BY <1>2, <3>1, <3>2, RecordsGrow
    <3> QED
      BY <3>1, <3>3
  <2> QED
    BY <2>1
<1>5. Verdict(q[j])' <=> Verdict(q[j])
  BY DEF Verdict
<1> QED
  BY <1>3, <1>4, <1>5 DEF SourceOf

\* A line of two sequences is one of either.
LEMMA BothIndices ==
  ASSUME NEW q \in Seq(LogLines), NEW r \in Seq(LogLines), NEW j \in DOMAIN (q \o r)
  PROVE  \/ \E i \in DOMAIN q : (q \o r)[j] = q[i]
         \/ \E i \in DOMAIN r : (q \o r)[j] = r[i]
<1>1. \/ j \in DOMAIN q /\ (q \o r)[j] = q[j]
      \/ j - Len(q) \in DOMAIN r /\ (q \o r)[j] = r[j - Len(q)]
  OBVIOUS
<1> QED
  BY <1>1

\* The line of a warning comes behind those of the earlier ones.
LEMMA WarningTold ==
  ASSUME RunnerInv, Warns, NEW q \in Seq(LogLines), Ordered(q), Sourced(q),
         NEW r \in Seq(LogLines), r = Logged
  PROVE  /\ Ordered(q \o r)
         /\ Sourced(q \o r)'
         /\ Complete(q) => Complete(q \o r)'
<1>0. PICK line, n : line = [kind |-> "ignored", app |-> n] /\ n = next
  OBVIOUS
<1>1. RunnerTypeOK
  BY DEF RunnerInv
<1>2. /\ r = <<line>> /\ ignored' = Append(ignored, next)
      /\ \A k \in DOMAIN ignored : ignored[k] < next
      /\ UNCHANGED <<monitors, reports>>
  BY <1>0 DEF Warns
<1>3. line.kind = "ignored" /\ line.app = n /\ ~Verdict(line)
  BY <1>0 DEF Verdict
<1>4. /\ \A k \in DOMAIN ignored : k \in DOMAIN ignored' /\ ignored'[k] = ignored[k]
      /\ Len(ignored) + 1 \in DOMAIN ignored' /\ ignored'[Len(ignored) + 1] = n
      /\ \A k \in DOMAIN ignored' : k \in DOMAIN ignored \/ ignored'[k] = n
  BY <1>0, <1>1, <1>2, AppendKeeps DEF RunnerTypeOK
<1>5. DOMAIN r = {1} /\ r[1] = line
  BY <1>2
<1>6. Ordered(r)
  BY <1>5 DEF Ordered
<1>7. ASSUME NEW j \in DOMAIN q, NEW k \in DOMAIN r, SameSort(q[j], r[k])
      PROVE  q[j].app < r[k].app
  <2>1. r[k] = line
    BY <1>5
  <2>2. q[j].kind = "ignored"
    BY <1>3, <1>7, <2>1 DEF SameSort
  <2>3. PICK i \in DOMAIN ignored : ignored[i] = q[j].app
    BY <2>2 DEF Sourced, SourceOf
  <2> QED
    BY <1>0, <1>2, <1>3, <2>1, <2>3
<1>8. Sourced(q)'
  BY SourcesStay
<1>9. SourceOf(line)'
  BY <1>3, <1>4 DEF SourceOf, Verdict
<1>10. Sourced(q \o r)'
  <2>1. ASSUME NEW j \in DOMAIN (q \o r) PROVE SourceOf((q \o r)[j])'
    <3>1. (\E i \in DOMAIN q : (q \o r)[j] = q[i]) \/ (\E i \in DOMAIN r : (q \o r)[j] = r[i])
      BY BothIndices
    <3> QED
      BY <1>5, <1>8, <1>9, <3>1 DEF Sourced
  <2> QED
    BY <2>1 DEF Sourced
<1>11. ASSUME Complete(q) PROVE Complete(q \o r)'
  <2>1. ToSet(q \o r) = ToSet(q) \cup ToSet(r) /\ line \in ToSet(r)
    BY <1>5, BothSets DEF ToSet
  <2> QED
    BY <1>0, <1>2, <1>4, <1>11, <2>1 DEF Complete, IgnoredLine, ReportLine
<1> QED
  BY <1>6, <1>7, <1>10, <1>11, BothOrdered

\* What follows an "OK" line is about its mail.
LEMMA MailLines ==
  ASSUME NEW line, NEW mail, Tells(line, mail), NEW j \in DOMAIN mail
  PROVE  j = 1 /\ mail[j].kind \in {"mail_sent", "mail_failed"}
<1>1. CASE mail = <<>>
  BY <1>1
<1>2. ASSUME NEW m, mail = MailLine(m)
      PROVE  j = 1 /\ mail[j].kind \in {"mail_sent", "mail_failed"}
  <2>1. \A kind, app : DOMAIN <<[kind |-> kind, app |-> app]>> = {1}
    OBVIOUS
  <2> QED
    BY <1>2, <2>1 DEF MailLine
<1> QED
  BY <1>1, <1>2 DEF Tells

\* The line of a report comes behind those of the earlier ones.
LEMMA ReportTold ==
  ASSUME RunnerInv, NEW line, NEW mail, Tells(line, mail),
         NEW q \in Seq(LogLines), Ordered(q), Sourced(q),
         NEW r \in Seq(LogLines), r = Logged
  PROVE  /\ Ordered(q \o r)
         /\ Sourced(q \o r)'
         /\ Complete(q) => Complete(q \o r)'
<1>1. RunnerTypeOK
  BY DEF RunnerInv
<1>2. PICK n, x : n = next /\ reports' = Append(reports, x) /\ x.kind = line.kind
  BY DEF Tells
<1>3. /\ r = <<line>> \o mail
      /\ line = [kind |-> line.kind, app |-> monitors[n].app]
      /\ line.kind \in {"OK", "FAIL"}
      /\ n = Len(reports) + 1 /\ n \in DOMAIN monitors
      /\ UNCHANGED <<monitors, ignored>>
  BY <1>2 DEF Tells
<1>4. /\ n \in DOMAIN reports' /\ reports'[n] = x
      /\ \A k \in DOMAIN reports : k \in DOMAIN reports' /\ reports'[k] = reports[k]
      /\ \A k \in DOMAIN reports' : k \in DOMAIN reports \/ k = n
      /\ \A k \in DOMAIN reports : k \in Nat /\ k < n
      /\ DOMAIN reports \subseteq DOMAIN monitors
  <2>1. /\ n \in DOMAIN reports' /\ reports'[n] = x
        /\ \A k \in DOMAIN reports : k \in DOMAIN reports' /\ reports'[k] = reports[k]
        /\ \A k \in DOMAIN reports' : k \in DOMAIN reports \/ k = n
        /\ DOMAIN reports = 1 .. Len(reports) /\ Len(reports) \in Nat
    BY <1>1, <1>2, <1>3, AppendKeeps DEF RunnerTypeOK
  <2>2. \A k \in DOMAIN reports : k \in Nat /\ k < n
    BY <1>3, <2>1
  <2>3. DOMAIN monitors = 1 .. Len(monitors) /\ Len(monitors) \in Nat
    BY <1>1 DEF RunnerTypeOK
  <2>4. DOMAIN reports \subseteq DOMAIN monitors
    BY <1>3, <2>1, <2>3
  <2> QED
    BY <2>1, <2>2, <2>4
<1>5. Verdict(line) /\ line.kind # "ignored" /\ line.app = monitors[n].app
  BY <1>3 DEF Verdict
<1>6. /\ r # <<>> /\ DOMAIN r = 1 .. Len(r) /\ Len(r) \in Nat
      /\ r[1] = line
      /\ \A j \in DOMAIN r : j = 1 \/ r[j].kind \in {"mail_sent", "mail_failed"}
  <2>1. line \in LogLines /\ mail \in Seq(LogLines)
    BY <1>3, TellsTyped
  <2>2. <<line>> \in Seq(LogLines) /\ Len(<<line>>) = 1 /\ <<line>>[1] = line
    BY <2>1
  <2>3. \A j \in DOMAIN mail : mail[j].kind \in {"mail_sent", "mail_failed"}
    BY MailLines
  <2> DEFINE head == <<line>>
  <2> HIDE DEF head
  <2>4. /\ Len(head \o mail) = 1 + Len(mail) /\ Len(mail) \in Nat
        /\ DOMAIN mail = 1 .. Len(mail)
        /\ (head \o mail)[1] = line
        /\ \A j \in 1 .. Len(mail) : (head \o mail)[1 + j] = mail[j]
    <3>1. head \in Seq(LogLines) /\ Len(head) = 1 /\ head[1] = line
      BY <2>2 DEF head
    <3>2. /\ Len(head \o mail) = Len(head) + Len(mail)
          /\ \A j \in 1 .. Len(head) : (head \o mail)[j] = head[j]
          /\ \A j \in 1 .. Len(mail) : (head \o mail)[Len(head) + j] = mail[j]
      <4>1. head \in Seq(LogLines)
        BY <3>1
      <4> QED
        BY <2>1, <4>1, ConcatFacts
    <3>3. Len(mail) \in Nat /\ DOMAIN mail = 1 .. Len(mail)
      BY <2>1
    <3>4. 1 \in 1 .. Len(head)
      BY <3>1
    <3> QED
      BY <3>1, <3>2, <3>3, <3>4
  <2>5. ASSUME NEW j \in DOMAIN r, j # 1 PROVE r[j].kind \in {"mail_sent", "mail_failed"}
    <3>1. j - 1 \in DOMAIN mail /\ j = 1 + (j - 1)
      BY <1>3, <2>4, <2>5 DEF head
    <3>2. r[j] = mail[j - 1]
      BY <1>3, <2>4, <3>1 DEF head
    <3> QED
      BY <2>3, <3>1, <3>2
  <2> QED
    BY <1>3, <2>4, <2>5 DEF head
<1>7. \A j \in DOMAIN r :
        \/ j = 1 /\ r[j] = line
        \/ j # 1 /\ \A l : ~SameSort(r[j], l) /\ ~SameSort(l, r[j])
  BY <1>6 DEF SameSort, Verdict
<1>8. Ordered(r)
  BY <1>6, <1>7 DEF Ordered
<1>9. ASSUME NEW j \in DOMAIN q, NEW k \in DOMAIN r, SameSort(q[j], r[k])
      PROVE  q[j].app < r[k].app
  <2>1. r[k] = line
    BY <1>7, <1>9
  <2>2. Verdict(q[j])
    BY <1>5, <1>9, <2>1 DEF SameSort
  <2>3. PICK i \in DOMAIN reports : monitors[i].app = q[j].app
    BY <2>2 DEF Sourced, SourceOf
  <2>4. monitors[i].app < monitors[n].app
    BY <1>3, <1>4, <2>3, MonitorsOrdered
  <2> QED
    BY <1>5, <2>1, <2>3, <2>4
<1>10. Sourced(q)'
  BY SourcesStay
<1>11. SourceOf(line)'
  BY <1>3, <1>4, <1>5 DEF SourceOf
<1>12. Sourced(q \o r)'
  <2>1. ASSUME NEW j \in DOMAIN (q \o r) PROVE SourceOf((q \o r)[j])'
    <3>1. (\E i \in DOMAIN q : (q \o r)[j] = q[i]) \/ (\E i \in DOMAIN r : (q \o r)[j] = r[i])
      BY BothIndices
    <3>2. \A i \in DOMAIN r : SourceOf(r[i])'
      BY <1>6, <1>11 DEF SourceOf, Verdict
    <3> QED
      BY <1>10, <3>1, <3>2 DEF Sourced
  <2> QED
    BY <2>1 DEF Sourced
<1>13. ASSUME Complete(q) PROVE Complete(q \o r)'
  <2>1. ToSet(q \o r) = ToSet(q) \cup ToSet(r)
    BY BothSets
  <2>2. line \in ToSet(r)
    BY <1>6 DEF ToSet
  <2>3. ASSUME NEW k \in DOMAIN reports' PROVE ReportLine(k)' \in ToSet(q \o r)
    <3>1. CASE k = n
      BY <1>2, <1>3, <1>4, <2>1, <2>2, <3>1 DEF ReportLine
    <3>2. CASE k \in DOMAIN reports
      BY <1>3, <1>4, <1>13, <2>1, <3>2 DEF ReportLine, Complete
    <3> QED
      BY <1>4, <3>1, <3>2
  <2>4. \A k \in DOMAIN ignored' : IgnoredLine(k)' \in ToSet(q \o r)
    BY <1>3, <1>13, <2>1 DEF IgnoredLine, Complete
  <2> QED
    BY <2>3, <2>4 DEF Complete
<1> QED
  BY <1>8, <1>9, <1>12, <1>13, BothOrdered

\* What run logs comes behind what there is to tell, and a crash of run itself
\* takes only from that.
LEMMA RunTellInv ==
  ASSUME RunnerInv, LinesInv, TellInv, Run
  PROVE  TellInv'
<1>1. /\ todo = <<>> /\ must_flush = FALSE /\ must_flush' = FALSE /\ main = "run"
      /\ RunnerNext /\ todo' = Logged
  BY DEF Run, LinesInv
<1>2. Silent \/ Warns \/ \E line, mail : Tells(line, mail)
  BY <1>1, RunTells
<1>3. Taken \in Seq(LogLines) /\ Told = Taken
  <2>1. Taken \in Seq(LogLines) /\ Rest = <<>>
    BY <1>1, ToldTyped DEF Rest
  <2> QED
    BY <2>1 DEF Told
<1>4. CASE phase' = "killed"
  <2>1. main' = "killed" /\ Crash
    BY <1>4 DEF Run
  <2>2. Silent
    BY <1>1, <1>4, KillIsSilent
  <2>3. UNCHANGED <<todo, must_flush>>
    BY <1>1, <2>2 DEF Silent
  <2>4. Ordered(Told') /\ Sourced(Told')
    BY <2>1, <2>3, LessTold DEF TellInv
  <2>5. PICK q : q = Told'
    OBVIOUS
  <2>6. Sourced(q)'
    BY <2>2, <2>4, <2>5, SourcesStay
  <2>7. Sourced(Told)'
    BY <2>5, <2>6 DEF Sourced
  <2>8. Ordered(Told)'
    BY <2>4 DEF Ordered, SameSort, Verdict
  <2> QED
    BY <2>1, <2>7, <2>8 DEF TellInv
<1>5. CASE phase' # "killed"
  <2>1. UNCHANGED <<main, diskVars>>
    BY <1>5 DEF Run
  <2>2. PICK q, r : q = Taken /\ r = Logged
    OBVIOUS
  <2>3. q \in Seq(LogLines) /\ r \in Seq(LogLines)
    BY <1>1, <1>3, <2>2, LoggedTyped
  <2>4. Told' = q \o r
    BY <1>1, <2>1, <2>2 DEF Told, Taken, Reached, Rest, diskVars
  <2>5. Ordered(q) /\ Sourced(q) /\ Complete(q)
    BY <1>1, <1>3, <2>2 DEF TellInv
  <2>7. /\ Ordered(q \o r)
        /\ Sourced(q \o r)'
        /\ Complete(q) => Complete(q \o r)'
    <3>1. CASE Silent
      <4>1. q \o r = q
        BY <2>2, <2>3, <3>1 DEF Silent
      <4>2. Sourced(q)'
        BY <2>5, <3>1, SourcesStay
      <4>3. Complete(q) => Complete(q)'
        BY <3>1 DEF Silent, Complete, IgnoredLine, ReportLine
      <4> QED
        BY <2>5, <4>1, <4>2, <4>3 DEF Sourced, Complete
    <3>2. CASE Warns
      BY <2>2, <2>3, <2>5, <3>2, WarningTold
    <3>3. ASSUME NEW line, NEW mail, Tells(line, mail)
          PROVE  /\ Ordered(q \o r)
                 /\ Sourced(q \o r)'
                 /\ Complete(q) => Complete(q \o r)'
      BY <2>2, <2>3, <2>5, <3>3, ReportTold
    <3> QED
      BY <1>2, <3>1, <3>2, <3>3
  <2>8. Ordered(Told)'
    BY <2>4, <2>7 DEF Ordered, SameSort, Verdict
  <2>9. Sourced(Told)'
    BY <2>4, <2>7 DEF Sourced
  <2>10. Complete(q) => Complete(Told)'
    BY <2>4, <2>7 DEF Complete
  <2> QED
    BY <2>5, <2>8, <2>9, <2>10 DEF TellInv
<1> QED
  BY <1>4, <1>5

\* A step that leaves Told, and what run has done, alone.
LEMMA SameTold ==
  ASSUME TellInv, Told' = Told, UNCHANGED <<ignored, reports, monitors>>,
         main' # "killed" => Complete(Told)
  PROVE  TellInv'
<1>1. Ordered(Told)' /\ Sourced(Told)' /\ (Complete(Told) => Complete(Told)')
  BY DEF TellInv, Ordered, SameSort, Verdict, Sourced, SourceOf, Complete, IgnoredLine,
     ReportLine
<1> QED
  BY <1>1 DEF TellInv

\* What has got to the disk counts as such from then on.
LEMMA ReachedGrows ==
  ASSUME LinesInv, FilesInv, WriteLine \/ Flush \/ Crash
  PROVE  ToSet(Reached) \subseteq ToSet(Reached')
<1>1. /\ disk \in Seq(LogLines) /\ pending \in Seq(LogLines)
      /\ dropped \in Seq(LogLines) /\ Reached \in Seq(LogLines)
  BY ToldTyped
<1>2. ToSet(Reached) = ToSet(dropped) \cup ToSet(disk)
  BY <1>1, BothSets DEF Reached
<1>3. CASE Flush
  <2>1. Reached' = Reached \o pending
    BY <1>3, FlushTaken DEF Taken
  <2> QED
    BY <1>1, <2>1, BothSets
<1>4. CASE Crash
  BY <1>4 DEF Crash, Log!Crash, Reached
<1>5. CASE WriteLine
  <2>1. PICK size \in LineSizes : Fitting(size) \/ Rotating(size)
    BY <1>5 DEF WriteLine
  <2>2. Head(todo) \in LogLines /\ main = "run"
    BY <1>5, HeadTyped DEF WriteLine, LinesInv
  <2>3. CASE Fitting(size)
    <3>1. PICK k \in 0 .. Len(pending) + 1 :
            Log!Settle(Append(pending, Head(todo)), k)
      BY <2>3 DEF Fitting, Log!Write
    <3>2. /\ Append(pending, Head(todo)) \in Seq(LogLines)
          /\ Len(Append(pending, Head(todo))) = Len(pending) + 1
      BY <1>1, <2>2, AppendFacts
    <3>3. PICK front \in Seq(LogLines) : disk' = disk \o front
      BY <3>1, <3>2, TwoParts DEF Log!Settle
    <3>4. dropped' = dropped /\ ToSet(disk') = ToSet(disk) \cup ToSet(front)
      BY <1>1, <2>3, <3>3, BothSets DEF Fitting
    <3>5. disk' \in Seq(LogLines)
      BY <1>1, <3>3, ConcatFacts
    <3>6. ToSet(dropped \o disk') = ToSet(dropped) \cup ToSet(disk')
      BY <1>1, <3>5, BothSets
    <3> QED
      BY <1>2, <3>4, <3>6 DEF Reached
  <2>4. CASE Rotating(size)
    <3> DEFINE oldest == files[3].lines
               old == SubSeq(Sunk, 1, oldest)
               kept == SubSeq(Sunk, oldest + 1, Len(Sunk))
    <3>1. oldest \in 0 .. Len(Sunk) /\ Sunk \in Seq(LogLines)
      BY <1>1, <2>2, OldestFits, TakenIs
    <3>2. /\ old \in Seq(LogLines) /\ kept \in Seq(LogLines) /\ old \o kept = Sunk
      BY <3>1, TwoParts
    <3>3. PICK q \in Seq(LogLines) : disk' = kept \o q /\ dropped' = dropped \o old
      <4>1. <<>> \in Seq(LogLines) /\ <<Head(todo)>> \in Seq(LogLines)
        BY <2>2
      <4> QED
        BY <2>4, <4>1 DEF Rotating, Sunk, MAX_LOG_FILES
    <3> HIDE DEF old, kept, oldest
    <3>4. /\ ToSet(disk') = ToSet(kept) \cup ToSet(q)
          /\ ToSet(dropped') = ToSet(dropped) \cup ToSet(old)
          /\ ToSet(Sunk) = ToSet(old) \cup ToSet(kept)
      BY <1>1, <3>2, <3>3, BothSets
    <3>5. ToSet(Sunk) = ToSet(disk) \cup ToSet(pending)
      BY <1>1, BothSets DEF Sunk
    <3>6. disk' \in Seq(LogLines) /\ dropped' \in Seq(LogLines)
      BY <1>1, <3>2, <3>3, ConcatFacts
    <3>7. ToSet(dropped' \o disk') = ToSet(dropped') \cup ToSet(disk')
      BY <3>6, BothSets
    <3> QED
      BY <1>2, <3>4, <3>5, <3>7 DEF Reached
  <2> QED
    BY <2>1, <2>3, <2>4
<1> QED
  BY <1>3, <1>4, <1>5

\* When lines have been dropped, the rotated files are over the limit.
LEMMA RotatedFull ==
  ASSUME LoadedInv, FilesInv, dropped # <<>>
  PROVE  RotatedBytes > config.max_logs_filesize_byte
<1>1. \A k \in 0 .. 3 : files[k] \in [bytes : Nat, lines : Nat]
  BY DEF FilesInv
<1>2. files[1].bytes \in Nat /\ files[2].bytes \in Nat /\ files[3].bytes \in Nat
  BY <1>1
<1>3. files[3].bytes > 0
  BY DEF FilesInv
<1>4. files[2].bytes + files[3].bytes > config.max_logs_filesize_byte
  BY <1>3 DEF FilesInv
<1> QED
  BY <1>2, <1>4, LimitIsInt DEF RotatedBytes

\* No step makes the log tell anything else.
LEMMA ToolStepTell ==
  ASSUME RunnerInv, MainInv, LinesInv, FilesInv, TellInv, [ToolNext]_toolVars
  PROVE  TellInv'
<1> USE DEF vars, monitorVars, runnerVars, loadingVars, diskVars
<1>1. CASE Load
  <2>1. Fresh
    BY <1>1 DEF Load, MainInv
  <2>2. UNCHANGED <<disk, pending, dropped, todo, must_flush, ignored, reports, monitors>>
    BY <1>1 DEF Load
  <2>3. Told' = Told
    BY <2>2 DEF Told, Taken, Reached, Rest
  <2> QED
    BY <2>1, <2>2, <2>3, FreshTells, SameTold
<1>2. CASE StartRun
  <2>1. Fresh
    BY <1>2 DEF StartRun, MainInv
  <2>2. PICK l, m : todo' = <<l, m>> /\ l.kind = "config_loaded" /\ m.kind = "runner_created"
    BY <1>2 DEF StartRun
  <2>3. Told' = <<l, m>>
    <3>1. disk' = <<>> /\ pending' = <<>> /\ dropped' = <<>> /\ must_flush' = FALSE
      BY <1>2, <2>1 DEF StartRun, Fresh
    <3> QED
      BY <2>2, <3>1 DEF Told, Taken, Reached, Rest
  <2>4. ~Verdict(l) /\ ~Verdict(m) /\ l.kind # "ignored" /\ m.kind # "ignored"
    BY <2>2 DEF Verdict
  <2>5. DOMAIN <<l, m>> = {1, 2} /\ <<l, m>>[1] = l /\ <<l, m>>[2] = m
    OBVIOUS
  <2>6. Ordered(Told)'
    BY <2>3, <2>4, <2>5 DEF Ordered, SameSort, Verdict
  <2>7. Sourced(Told)'
    BY <2>3, <2>4, <2>5 DEF Sourced, SourceOf, Verdict
  <2>8. ignored' = <<>> /\ reports' = <<>>
    BY <1>2, <2>1 DEF StartRun, Fresh
  <2>9. Complete(Told)'
    BY <2>8 DEF Complete
  <2> QED
    BY <2>6, <2>7, <2>9 DEF TellInv
<1>3. CASE InitFails \/ UNCHANGED toolVars
  <2>1. /\ UNCHANGED <<disk, pending, dropped, todo, must_flush, ignored, reports, monitors>>
        /\ main' # "killed" => main # "killed"
    BY <1>3 DEF InitFails, toolVars
  <2>2. Told' = Told
    BY <2>1 DEF Told, Taken, Reached, Rest
  <2> QED
    BY <2>1, <2>2, SameTold DEF TellInv
<1>4. CASE Run
  BY <1>4, RunTellInv
<1>5. CASE WriteLine \/ FlushLine \/ Return0or1
  <2>1. Told' = Told
    BY <1>5, WritingTells, FlushTells
  <2>2. /\ UNCHANGED <<ignored, reports, monitors>>
        /\ main # "killed"
    BY <1>5 DEF WriteLine, FlushLine, Return0or1
  <2> QED
    BY <2>1, <2>2, SameTold DEF TellInv
<1>6. CASE Killed
  <2>1. /\ Crash /\ UNCHANGED <<todo, must_flush, ignored, reports, monitors>>
        /\ main' = "killed"
    BY <1>6 DEF Killed
  <2>2. Ordered(Told') /\ Sourced(Told')
    BY <2>1, LessTold DEF TellInv
  <2>3. Ordered(Told)' /\ Sourced(Told)'
    BY <2>1, <2>2 DEF Ordered, SameSort, Verdict, Sourced, SourceOf
  <2> QED
    BY <2>1, <2>3 DEF TellInv
<1> QED
  BY <1>1, <1>2, <1>3, <1>4, <1>5, <1>6 DEF ToolNext, ThreadStep

----------------------------------------------------------------------------
\* The warnings and errors of what run has done, ...
WarningOf(l) ==
  /\ l.kind \in {"ignored", "FAIL", "mail_failed"}
  /\ \/ \E k \in DOMAIN ignored : l = IgnoredLine(k)
     \/ \E k \in DOMAIN reports : l = ReportLine(k)
     \/ \E k \in DOMAIN mails : l \in ToSet(MailLine(mails[k]))

\* ... which are those of WarnedOf, and those to be logged.
LEMMA WarnedIs == \A l : l \in WarnedOf <=> WarningOf(l) /\ l \notin ToSet(todo)
BY DEF WarnedOf, WarningOf, IgnoredLine, ReportLine

LEMMA WarnedNext ==
  (\A l : l \in WarnedOf <=> WarningOf(l) /\ l \notin ToSet(todo))'
BY WarnedIs, PTL

\* Before the run there is nothing to warn of.
LEMMA FreshWarns == ASSUME Fresh PROVE \A l : ~WarningOf(l)
BY DEF Fresh, WarningOf

\* A step of run adds no warning but those it logs.
LEMMA RunWarns ==
  ASSUME RunnerInv, Silent \/ Warns \/ \E line, mail : Tells(line, mail),
         NEW r, r = Logged,
         NEW l, WarningOf(l)'
  PROVE  WarningOf(l) \/ l \in ToSet(r)
<1>1. RunnerTypeOK /\ MailsFollowSuccess
  BY DEF RunnerInv
<1>2. l.kind \in {"ignored", "FAIL", "mail_failed"}
  BY DEF WarningOf
<1>3. CASE Silent
  <2>1. UNCHANGED <<ignored, reports, mails>>
    BY <1>3 DEF Silent
  <2>2. CASE monitors' = monitors
    BY <2>1, <2>2 DEF WarningOf, IgnoredLine, ReportLine, MailLine
  <2>3. CASE reports = <<>>
    <3>1. DOMAIN reports = {} /\ DOMAIN mails = {}
      <4>1. DOMAIN reports = {}
        BY <2>3
      <4>2. { mails[j].report : j \in DOMAIN mails } = {}
        BY <1>1, <4>1 DEF MailsFollowSuccess
      <4> QED
        BY <4>1, <4>2
    <3> QED
      BY <2>1, <3>1 DEF WarningOf, IgnoredLine
  <2> QED
    BY <1>3, <2>2, <2>3 DEF Silent
<1>4. CASE Warns
  <2>1. /\ UNCHANGED <<monitors, reports, mails>>
        /\ ignored' = Append(ignored, next)
        /\ r = <<[kind |-> "ignored", app |-> next]>>
    BY <1>4 DEF Warns
  <2>2. \A k \in DOMAIN ignored' :
          (k \in DOMAIN ignored /\ ignored'[k] = ignored[k]) \/ ignored'[k] = next
    <3>1. ignored \in Seq(Nat \ {0})
      BY <1>1 DEF RunnerTypeOK
    <3>2. PICK n : n = next
      OBVIOUS
    <3>3. /\ \A k \in DOMAIN ignored : Append(ignored, n)[k] = ignored[k]
          /\ Append(ignored, n)[Len(ignored) + 1] = n
          /\ \A k \in DOMAIN Append(ignored, n) : k \in DOMAIN ignored \/ k = Len(ignored) + 1
      BY <3>1, AppendKeeps
    <3> QED
      BY <2>1, <3>2, <3>3
  <2>3. [kind |-> "ignored", app |-> next] \in ToSet(r)
    BY <2>1 DEF ToSet
  <2>4. ASSUME NEW k \in DOMAIN ignored', l = IgnoredLine(k)'
        PROVE  WarningOf(l) \/ l \in ToSet(r)
    BY <1>2, <2>2, <2>3, <2>4 DEF IgnoredLine, WarningOf
  <2>5. (\E k \in DOMAIN ignored' : l = IgnoredLine(k)') \/ WarningOf(l)
    BY <1>2, <2>1 DEF WarningOf, ReportLine, MailLine
  <2> QED
    BY <2>4, <2>5
<1>5. ASSUME NEW line, NEW mail, Tells(line, mail)
      PROVE  WarningOf(l) \/ l \in ToSet(r)
  <2>1. PICK x : reports' = Append(reports, x) /\ x.kind = line.kind
    BY <1>5 DEF Tells
  <2>2. /\ UNCHANGED <<monitors, ignored>>
        /\ next = Len(reports) + 1
        /\ line = [kind |-> line.kind, app |-> monitors[next].app]
        /\ r = <<line>> \o mail
    BY <1>5 DEF Tells
  <2>3. ToSet(r) = ToSet(<<line>>) \cup ToSet(mail) /\ line \in ToSet(<<line>>)
    <3>1. <<line>> \in Seq(LogLines) /\ mail \in Seq(LogLines)
      BY <1>5, TellsTyped
    <3>2. line \in ToSet(<<line>>)
      BY DEF ToSet
    <3> QED
      BY <2>2, <3>1, <3>2, BothSets
  <2>4. ASSUME NEW k \in DOMAIN reports', l = ReportLine(k)'
        PROVE  WarningOf(l) \/ l \in ToSet(r)
    <3>1. (k \in DOMAIN reports /\ reports'[k] = reports[k]) \/ (k = next /\ reports'[k] = x)
      BY <1>1, <2>1, <2>2, AppendKeeps DEF RunnerTypeOK
    <3>2. CASE k \in DOMAIN reports /\ reports'[k] = reports[k]
      BY <1>2, <2>2, <2>4, <3>2 DEF ReportLine, WarningOf
    <3>3. CASE k = next /\ reports'[k] = x
      <4>1. l = line
        BY <2>1, <2>2, <2>4, <3>3 DEF ReportLine
      <4> QED
        BY <2>3, <4>1
    <3> QED
      BY <3>1, <3>2, <3>3
  <2>5. ASSUME NEW k \in DOMAIN mails', l \in ToSet(MailLine(mails[k]))'
        PROVE  WarningOf(l) \/ l \in ToSet(r)
    <3>1. \A m : MailLine(m)' = MailLine(m)
      BY <2>2 DEF MailLine
    <3>2. \/ k \in DOMAIN mails /\ mails'[k] = mails[k]
          \/ MailLine(mails'[k]) = mail
      <4>1. CASE mails' = mails
        BY <4>1
      <4>2. ASSUME NEW m, mails' = Append(mails, m), mail = MailLine(m)
            PROVE  \/ k \in DOMAIN mails /\ mails'[k] = mails[k]
                   \/ MailLine(mails'[k]) = mail
        BY <1>1, <4>2, AppendKeeps DEF RunnerTypeOK
      <4> QED
        BY <1>5, <4>1, <4>2 DEF Tells
    <3>3. PICK y : y = mails'[k]
      OBVIOUS
    <3>4. l \in ToSet(MailLine(y))
      BY <2>5, <3>1, <3>3 DEF ToSet
    <3>5. CASE MailLine(y) = mail
      BY <2>3, <3>4, <3>5
    <3>6. CASE k \in DOMAIN mails /\ y = mails[k]
      BY <1>2, <3>4, <3>6 DEF WarningOf
    <3> QED
      BY <3>2, <3>3, <3>5, <3>6
  <2>6. \/ \E k \in DOMAIN reports' : l = ReportLine(k)'
        \/ \E k \in DOMAIN mails' : l \in ToSet(MailLine(mails[k]))'
        \/ WarningOf(l)
    <3>1. ASSUME NEW k \in DOMAIN ignored', l = IgnoredLine(k)' PROVE WarningOf(l)
      BY <1>2, <2>2, <3>1 DEF IgnoredLine, WarningOf
    <3> QED
      BY <3>1 DEF WarningOf
  <2> QED
    BY <2>4, <2>5, <2>6
<1> QED
  BY <1>3, <1>4, <1>5

\* Every warning whose log call is over has got to the disk.
WarnedReached == \A l \in WarnedOf : l \in ToSet(Reached)

\* A step that leaves what run has done, and the lines to be logged, alone.
LEMMA SameWarned ==
  ASSUME WarnedReached, UNCHANGED <<ignored, reports, monitors, mails, todo>>,
         ToSet(Reached) \subseteq ToSet(Reached')
  PROVE  WarnedReached'
<1> SUFFICES ASSUME NEW l, (l \in WarnedOf)' PROVE l \in ToSet(Reached')
  BY DEF WarnedReached
<1>1. WarningOf(l)' /\ l \notin ToSet(todo')
  BY WarnedNext
<1>2. WarningOf(l)
  BY <1>1 DEF WarningOf, IgnoredLine, ReportLine, MailLine
<1>3. l \in WarnedOf
  BY <1>1, <1>2, WarnedIs
<1> QED
  BY <1>3 DEF WarnedReached

\* No step costs a warning that was logged.
LEMMA ToolStepWarned ==
  ASSUME RunnerInv, MainInv, LinesInv, FilesInv, WarnedReached, [ToolNext]_toolVars
  PROVE  WarnedReached'
<1> USE DEF vars, monitorVars, runnerVars, loadingVars, diskVars
<1>0. /\ disk \in Seq(LogLines) /\ pending \in Seq(LogLines) /\ dropped \in Seq(LogLines)
      /\ todo \in Seq(LogLines)
  BY DEF LinesInv
<1>1. CASE Load \/ StartRun
  <2>1. Fresh
    BY <1>1 DEF Load, StartRun, MainInv
  <2>2. UNCHANGED <<ignored, reports, monitors, mails>>
    BY <1>1 DEF Load, StartRun
  <2>3. \A l : ~WarningOf(l)'
    BY <2>1, <2>2, FreshWarns DEF WarningOf, IgnoredLine, ReportLine, MailLine
  <2> QED
    BY <2>3, WarnedNext DEF WarnedReached
<1>2. CASE InitFails \/ UNCHANGED toolVars
  <2>1. UNCHANGED <<ignored, reports, monitors, mails, todo, disk, dropped>>
    BY <1>2 DEF InitFails, toolVars
  <2>2. Reached' = Reached
    BY <2>1 DEF Reached
  <2> QED
    BY <2>1, <2>2, SameWarned
<1>3. CASE Run
  <2>1. todo = <<>> /\ todo' = Logged /\ RunnerNext
    BY <1>3 DEF Run
  <2>2. Reached' = Reached
    BY <1>3 DEF Run, Crash, Log!Crash, Reached
  <2>3. PICK r : r = Logged
    OBVIOUS
  <2>4. ASSUME NEW l, (l \in WarnedOf)' PROVE l \in WarnedOf
    <3>1. WarningOf(l)' /\ l \notin ToSet(todo')
      BY <2>4, WarnedNext
    <3>2. l \notin ToSet(r)
      BY <2>1, <2>3, <3>1
    <3>3. Silent \/ Warns \/ \E line, mail : Tells(line, mail)
      BY <2>1, RunTells
    <3>4. WarningOf(l)
      BY <2>3, <3>1, <3>2, <3>3, RunWarns
    <3>5. l \notin ToSet(todo)
      BY <2>1 DEF ToSet
    <3> QED
      BY <3>4, <3>5, WarnedIs
  <2> QED
    BY <2>2, <2>4 DEF WarnedReached
<1>4. CASE WriteLine
  <2> DEFINE line == Head(todo)
  <2>1. /\ line \in LogLines /\ todo = <<line>> \o Tail(todo)
        /\ Tail(todo) \in Seq(LogLines)
        /\ UNCHANGED <<ignored, reports, monitors, mails>>
    BY <1>0, <1>4, HeadTyped DEF WriteLine
  <2>2. ToSet(Reached) \subseteq ToSet(Reached')
    BY <1>4, ReachedGrows
  <2>3. CASE Severe(line)
    <3>1. todo' = todo
      BY <1>4, <2>3 DEF WriteLine
    <3> QED
      BY <2>1, <2>2, <3>1, SameWarned
  <2>4. CASE ~Severe(line)
    <3>1. todo' = Tail(todo)
      BY <1>4, <2>4 DEF WriteLine
    <3>2. ToSet(todo) = ToSet(<<line>>) \cup ToSet(todo')
      <4>1. <<line>> \in Seq(LogLines)
        BY <2>1
      <4> QED
        BY <2>1, <3>1, <4>1, BothSets
    <3>3. ToSet(<<line>>) = {line}
      BY DEF ToSet
    <3>4. ASSUME NEW l, (l \in WarnedOf)' PROVE l \in WarnedOf
      <4>1. WarningOf(l)' /\ l \notin ToSet(todo')
        BY <3>4, WarnedNext
      <4>2. WarningOf(l)
        BY <2>1, <4>1 DEF WarningOf, IgnoredLine, ReportLine, MailLine
      <4>3. l # line
        BY <2>4, <4>2 DEF WarningOf, Severe
      <4> QED
        BY <3>2, <3>3, <4>1, <4>2, <4>3, WarnedIs
    <3> QED
      BY <2>2, <3>4 DEF WarnedReached
  <2> QED
    BY <2>3, <2>4
<1>5. CASE FlushLine
  <2> DEFINE line == Head(todo)
  <2>1. /\ todo # <<>> /\ line = Last(Sunk) /\ Sunk # <<>>
        /\ todo' = Tail(todo)
        /\ Flush
        /\ UNCHANGED <<ignored, reports, monitors, mails>>
    BY <1>5 DEF FlushLine, LinesInv, Sunk
  <2>2. /\ line \in LogLines /\ Tail(todo) \in Seq(LogLines)
        /\ todo = <<line>> \o Tail(todo)
    BY <1>0, <2>1, HeadTyped
  <2>3. ToSet(Reached) \subseteq ToSet(Reached')
    BY <2>1, ReachedGrows
  <2>4. ToSet(todo) = {line} \cup ToSet(todo')
    <3>1. <<line>> \in Seq(LogLines) /\ ToSet(<<line>>) = {line}
      BY <2>2 DEF ToSet
    <3> QED
      BY <2>1, <2>2, <3>1, BothSets
  <2>5. line \in ToSet(Reached')
    <3>1. ASSUME NEW q \in Seq(LogLines), q # <<>> PROVE Last(q) \in ToSet(q)
      <4>1. Len(q) \in DOMAIN q
        BY <3>1
      <4> QED
        BY <4>1 DEF ToSet, Last
    <3>2. Sunk \in Seq(LogLines) /\ Reached' = dropped \o Sunk
      BY <1>0, <2>1, TakenIs, FlushTaken
    <3>3. ToSet(Reached') = ToSet(dropped) \cup ToSet(Sunk)
      BY <1>0, <3>2, BothSets
    <3> QED
      BY <2>1, <3>1, <3>2, <3>3
  <2>6. ASSUME NEW l, (l \in WarnedOf)' PROVE l \in WarnedOf \/ l = line
    <3>1. WarningOf(l)' /\ l \notin ToSet(todo')
      BY <2>6, WarnedNext
    <3>2. WarningOf(l)
      BY <2>1, <3>1 DEF WarningOf, IgnoredLine, ReportLine, MailLine
    <3> QED
      BY <2>4, <3>1, <3>2, WarnedIs
  <2> QED
    BY <2>3, <2>5, <2>6 DEF WarnedReached
<1>6. CASE Return0or1 \/ Killed
  <2>1. UNCHANGED <<ignored, reports, monitors, mails, todo>> /\ (Flush \/ Crash)
    BY <1>6 DEF Return0or1, CloseLog, Killed
  <2> QED
    BY <2>1, ReachedGrows, SameWarned
<1> QED
  BY <1>1, <1>2, <1>3, <1>4, <1>5, <1>6 DEF ToolNext, ThreadStep

----------------------------------------------------------------------------
\* What is told of a finished run is its report, and of a failed one nothing.
LEMMA StatusTells ==
  ASSUME RunnerInv, LoadedInv, MainInv, LinesInv, FilesInv, TellInv
  PROVE  StatusTellsOfReport
<1>1. /\ Reached \in Seq(LogLines) /\ pending \in Seq(LogLines)
      /\ Taken \in Seq(LogLines) /\ Rest \in Seq(LogLines) /\ Told \in Seq(LogLines)
  BY ToldTyped
<1>2. \A j \in DOMAIN Taken : j \in DOMAIN Told /\ Told[j] = Taken[j]
  BY <1>1 DEF Told
<1>3. \A j \in DOMAIN Reached : j \in DOMAIN Told /\ Told[j] = Reached[j]
  <2>1. \A j \in DOMAIN Reached : j \in DOMAIN Taken /\ Taken[j] = Reached[j]
    BY <1>1 DEF Taken
  <2> QED
    BY <1>2, <2>1
<1>4. Ordered(Reached)
  BY <1>3 DEF TellInv, Ordered
<1>5. ASSUME main = "0", NEW i \in DOMAIN FileApps
      PROVE  Cardinality({ j \in DOMAIN Reached :
               /\ Reached[j].app = i
               /\ IF FileApps[i].fields.active.bool THEN Verdict(Reached[j])
                                                    ELSE Reached[j].kind = "ignored" }) = 1
  <2> DEFINE Of(l) == /\ l.app = i
                      /\ IF FileApps[i].fields.active.bool THEN Verdict(l)
                                                           ELSE l.kind = "ignored"
             Found == { j \in DOMAIN Reached : Of(Reached[j]) }
  <2>1. /\ phase = "finished" /\ todo = <<>> /\ pending = <<>> /\ must_flush = FALSE
        /\ loader_pc = "loaded" /\ apps = config.apps
    BY <1>5 DEF MainInv
  <2>2. Told = Reached
    BY <1>1, <2>1 DEF Told, Taken, Rest
  <2>3. Complete(Reached)
    BY <1>5, <2>2 DEF TellInv
  <2>4. i \in 1 .. Len(apps) /\ apps[i].active = FileApps[i].fields.active.bool
    BY <1>5, <2>1 DEF LoadedInv
  <2>5. BuiltFrom(Len(apps)) /\ DOMAIN reports = DOMAIN monitors
    BY <2>1 DEF RunnerInv, Reporting, RunnerTypeOK
  <2>6. \E j \in DOMAIN Reached : Of(Reached[j])
    <3>1. CASE apps[i].active
      <4>1. PICK k \in DOMAIN monitors : monitors[k].app = i
        BY <2>4, <2>5, <3>1 DEF BuiltFrom
      <4>2. ReportLine(k) \in ToSet(Reached)
        BY <2>3, <2>5, <4>1 DEF Complete
      <4>3. reports[k].kind \in {"OK", "FAIL"}
        <5>1. reports \in Seq(ReportLines) /\ k \in DOMAIN reports
          BY <2>5, <4>1 DEF RunnerInv, RunnerTypeOK
        <5>2. reports[k] \in ReportLines
          BY <5>1
        <5> QED
          BY <5>2 DEF ReportLines
      <4>4. ReportLine(k).app = i /\ Verdict(ReportLine(k))
        BY <4>1, <4>3 DEF ReportLine, Verdict
      <4>5. Of(ReportLine(k))
        BY <2>4, <3>1, <4>4
      <4> HIDE DEF Of
      <4> QED
        BY <4>2, <4>5 DEF ToSet
    <3>2. CASE ~apps[i].active
      <4>1. PICK k \in DOMAIN ignored : ignored[k] = i
        BY <2>4, <2>5, <3>2 DEF BuiltFrom
      <4>2. IgnoredLine(k) \in ToSet(Reached)
        BY <2>3, <4>1 DEF Complete
      <4>3. Of(IgnoredLine(k))
        BY <2>4, <3>2, <4>1 DEF IgnoredLine
      <4> HIDE DEF Of
      <4> QED
        BY <4>2, <4>3 DEF ToSet
    <3> QED
      BY <3>1, <3>2
  <2>7. ASSUME NEW j \in Found, NEW k \in Found PROVE j = k
    <3>1. SameSort(Reached[j], Reached[k]) /\ SameSort(Reached[k], Reached[j])
      BY <2>7 DEF SameSort
    <3>2. Reached[j].app = i /\ Reached[k].app = i /\ j \in DOMAIN Reached /\ k \in DOMAIN Reached
      BY <2>7
    <3>3. j \in Nat /\ k \in Nat /\ i \in Nat
      BY <1>1, <2>4, <3>2
    <3>4. ~(j < k) /\ ~(k < j)
      BY <1>4, <3>1, <3>2, <3>3 DEF Ordered
    <3> QED
      BY <3>3, <3>4
  <2>8. PICK j : j \in Found
    BY <2>6
  <2> HIDE DEF Found, Of
  <2>9. Found = {j}
    BY <2>7, <2>8
  <2>10. Cardinality(Found) = 1
    BY <2>9, FS_Singleton
  <2> QED
    BY <2>10 DEF Found, Of
<1>6. ASSUME main = "1", NEW j \in DOMAIN (Reached \o pending)
      PROVE  ~Verdict((Reached \o pending)[j])
  <2>1. DOMAIN reports = {}
    BY <1>6 DEF MainInv
  <2>2. SourceOf(Told[j]) /\ Told[j] = (Reached \o pending)[j]
    BY <1>2, <1>6 DEF TellInv, Sourced, Taken
  <2> QED
    BY <2>1, <2>2 DEF SourceOf
<1>7. ASSUME NEW j \in DOMAIN Reached, NEW k \in DOMAIN Reached, j < k,
             Verdict(Reached[j]), Verdict(Reached[k])
      PROVE  Reached[j].app < Reached[k].app
  BY <1>4, <1>7 DEF Ordered, SameSort
<1> QED
  BY <1>5, <1>6, <1>7, RotatedFull DEF StatusTellsOfReport

\* The exit status says whether the log got the report: with 0, every app of the
\* file has its one line; with 1, there is no verdict.  A line of it is missing
\* on disk only when rotation has dropped it, with more than
\* max_logs_filesize_byte bytes of later lines in the rotated files.  Whatever
\* the file holds and however the health checks go.
THEOREM StatusIsHonest == ToolSpec => []StatusTellsOfReport
<1>1. ToolInit => TellInv
  <2>1. ToolInit => Fresh
    BY DEF ToolInit, Fresh, Log!Init
  <2> QED
    BY <2>1, FreshTells
<1>2. /\ RunnerInv /\ MainInv /\ LinesInv /\ FilesInv
      /\ LoadedInv
      /\ TellInv
      /\ [ToolNext]_toolVars
      => TellInv'
  BY ToolStepTell
<1>3. RunnerInv /\ MainInv /\ LinesInv /\ FilesInv /\ LoadedInv /\ TellInv
      => StatusTellsOfReport
  BY StatusTells
<1> QED
  BY <1>1, <1>2, <1>3, ToolRunIsSound, LoadedIsFit, PTL DEF ToolSpec

\* What was logged as a warning or an error is on disk at the end, however the
\* process comes to it, unless rotation has dropped it, and then more than
\* max_logs_filesize_byte bytes of later lines are on disk in its place.
THEOREM WarningsReachDisk == ToolSpec => []WarningsOutliveProcess
<1>1. ToolInit => WarnedReached
  <2>1. ToolInit => Fresh
    BY DEF ToolInit, Fresh, Log!Init
  <2> QED
    BY <2>1, FreshWarns, WarnedIs DEF WarnedReached
<1>2. /\ RunnerInv /\ MainInv /\ LinesInv /\ FilesInv
      /\ LoadedInv
      /\ WarnedReached
      /\ [ToolNext]_toolVars
      => WarnedReached'
  BY ToolStepWarned
<1>3. LinesInv /\ FilesInv /\ LoadedInv /\ WarnedReached => WarningsOutliveProcess
  <2> SUFFICES ASSUME LinesInv, FilesInv, LoadedInv, WarnedReached, NEW l \in WarnedOf
               PROVE  \/ l \in ToSet(disk)
                      \/ /\ l \in ToSet(dropped)
                         /\ RotatedBytes > config.max_logs_filesize_byte
    BY DEF WarningsOutliveProcess
  <2>1. l \in ToSet(dropped) \cup ToSet(disk)
    <3>1. disk \in Seq(LogLines) /\ dropped \in Seq(LogLines)
      BY DEF LinesInv
    <3> QED
      BY <3>1, BothSets DEF WarnedReached, Reached
  <2>2. l \in ToSet(dropped) => dropped # <<>>
    BY DEF ToSet
  <2> QED
    BY <2>1, <2>2, RotatedFull
<1> QED
  BY <1>1, <1>2, <1>3, ToolRunIsSound, LoadedIsFit, PTL DEF ToolSpec
=============================================================================
