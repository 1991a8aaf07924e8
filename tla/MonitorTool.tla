------------------------------ MODULE MonitorTool ------------------------------
(***************************************************************************)
(* The whole program: main loads the configuration (ConfigLoader), sets up  *)
(* the log, hands the loaded apps to HealthCheckRunner::run, which this     *)
(* module extends, and returns.  Every line a step logs is written, and     *)
(* flushed when it is a warning or an error, before the thread goes on; a   *)
(* signal may kill it anywhere.                                             *)
(*                                                                          *)
(* disk and pending are DurableLog's: the lines of this run, behind those   *)
(* of earlier ones.  files says how the rotating sink, which counts bytes,  *)
(* has spread them over its files.  A rotation is one step here; a kill     *)
(* inside it leaves on disk what one before or after it leaves.  Its steps, *)
(* and the faults of the file system, are RotatingLog's.                    *)
(***************************************************************************)
EXTENDS HealthCheckRunner, SequencesExt

CONSTANTS
  Documents, ValidEmails, Modulus,   \* see ConfigLoader
  UnwritablePaths,  \* logs paths at which no file can be created or opened
  LineSizes,        \* bytes of a formatted line
  EarlierSizes      \* bytes in the log file when the tool starts

VARIABLES
  document, loader_pc, loader_next, config, problem,  \* see ConfigLoader
  disk, pending, damaged,                             \* see DurableLog
  files,      \* bytes, and lines of this run, in the log file (0) and in each
              \* file that this run has rotated, buffered ones included
  dropped,    \* history: the lines of this run that rotations have dropped
  main,       \* "load", "run", or how the process ended: "0", "1", "killed"
  todo,       \* lines the thread logs before its next step
  must_flush  \* the first of them is written but not yet flushed

loadingVars == <<document, loader_pc, loader_next, config, problem>>
diskVars == <<disk, pending, damaged, files, dropped>>
toolVars == <<vars, loadingVars, diskVars, main, todo, must_flush>>

LogLines ==
  [kind : {"config_loaded", "runner_created", "ignored", "OK", "FAIL",
           "mail_sent", "mail_failed"}, app : Nat]

Loader == INSTANCE ConfigLoader WITH pc <- loader_pc, next <- loader_next

Log == INSTANCE DurableLog WITH Lines <- LogLines

\* ConfigLoader's assumptions on the documents; and Apps, for which
\* HealthCheckRunner has its own, holds what parse_app makes of their items and
\* validate_app lets through.
ASSUME ToolAssumption ==
  /\ Loader!LoaderAssumption /\ Loader!EmailAssumption /\ Loader!DocumentsAssumption
  /\ \A d \in Documents :
       (Loader!HasField(d.root, "apps") /\ d.root.fields.apps.type = "array") =>
         \A i \in DOMAIN d.root.fields.apps.items :
           LET item == d.root.fields.apps.items[i]
           IN  Loader!ReadProblem(item, Loader!AppFields) = Loader!NoProblem =>
                 { app \in Loader!ParsedApps(item.fields) :
                     Loader!FailedChecks(app) = {} } \subseteq Apps
  /\ LineSizes # {} /\ LineSizes \subseteq Nat \ {0}
  /\ EarlierSizes # {} /\ EarlierSizes \subseteq Nat

MAX_LOG_FILES == 3

NoFile == [bytes |-> 0, lines |-> 0]

\* flush_on(warn): warnings and errors.
Severe(line) == line.kind \in {"ignored", "FAIL", "mail_failed"}

----------------------------------------------------------------------------
ToolInit ==
  /\ \E s \in Settings : MonitorInit(s)   \* any: no call is running yet
  /\ apps = <<>>
  /\ phase = "build"
  /\ next = 1
  /\ monitors = <<>> /\ results = <<>> /\ ignored = <<>>
  /\ reports = <<>> /\ mails = <<>> /\ evidence = <<>>
  /\ Loader!Init
  /\ Log!Init
  /\ files = [k \in 0 .. MAX_LOG_FILES |-> NoFile]
  /\ dropped = <<>>
  /\ main = "load"
  /\ todo = <<>>
  /\ must_flush = FALSE

Load ==
  /\ main = "load"
  /\ Loader!Next
  /\ UNCHANGED <<vars, diskVars, main, todo, must_flush>>

LimitRejected_NegativeOnly == config.max_logs_filesize_byte < 0

\* Logger::initialize throws on a limit that is not positive ...
LimitRejected == config.max_logs_filesize_byte <= 0

\* ... and when it cannot create or open the file.
LoggerThrows == LimitRejected \/ config.logs_path \in UnwritablePaths

\* The handler of main, before there is a logger.
InitFails ==
  /\ main = "load"
  /\ loader_pc = "failed" \/ (loader_pc = "loaded" /\ LoggerThrows)
  /\ main' = "1"
  /\ UNCHANGED <<vars, loadingVars, diskVars, todo, must_flush>>

\* The logger on the log file as it is, its first line, the sender, the runner,
\* the second line, and the call of run.
StartRun ==
  /\ main = "load"
  /\ loader_pc = "loaded"
  /\ ~LoggerThrows
  /\ main' = "run"
  /\ \E bytes \in EarlierSizes : files' = [files EXCEPT ![0].bytes = bytes]
  /\ apps' = config.apps
  /\ todo' = <<[kind |-> "config_loaded", app |-> 0],
               [kind |-> "runner_created", app |-> 0]>>
  /\ UNCHANGED <<monitorVars, phase, next, monitors, results, ignored, reports,
                 mails, evidence, loadingVars, disk, pending, damaged, dropped,
                 must_flush>>

----------------------------------------------------------------------------
\* The line of send_email about the mail of the last report line.
MailLine(mail) ==
  IF mail.outcome = "no_handle" THEN <<>>
  ELSE <<[kind |-> IF mail.outcome = "sent" THEN "mail_sent" ELSE "mail_failed",
          app |-> monitors[mail.report].app]>>

\* The lines that a step of run logs.
Logged ==
  IF ignored' # ignored THEN <<[kind |-> "ignored", app |-> next]>>
  ELSE IF reports' # reports
  THEN <<[kind |-> Last(reports').kind, app |-> monitors[next].app]>>
       \o (IF mails' # mails THEN MailLine(Last(mails')) ELSE <<>>)
  ELSE <<>>

\* Without rotation: what DurableLog says of the lines.
Crash == Log!Crash /\ UNCHANGED <<files, dropped>>

Flush == Log!Flush /\ UNCHANGED <<files, dropped>>

\* run goes on; when it dies on a null client, what is pending goes with it.
Run ==
  /\ main = "run"
  /\ todo = <<>>
  /\ RunnerNext
  /\ todo' = Logged
  /\ IF phase' = "killed"
     THEN main' = "killed" /\ Crash
     ELSE UNCHANGED <<main, diskVars>>
  /\ UNCHANGED <<loadingVars, must_flush>>

\* sink_it_: the limit would be passed, and the file has something in it.
Full(size) ==
  /\ files[0].bytes + size > config.max_logs_filesize_byte
  /\ files[0].bytes > 0

Fitting(size) ==
  /\ ~Full(size)
  /\ Log!Write(Head(todo))
  /\ files' = [files EXCEPT ![0] = [bytes |-> @.bytes + size, lines |-> @.lines + 1]]
  /\ UNCHANGED dropped

Shifted_Ascending(first) ==
  [k \in DOMAIN files |->
     IF k = 0 THEN first ELSE IF k = MAX_LOG_FILES THEN files[0] ELSE NoFile]

\* rotate_: every file takes the place of the next older one.
Shifted(first) == [k \in DOMAIN files |-> IF k = 0 THEN first ELSE files[k - 1]]

\* The file is flushed and closed, the oldest one goes, and the line is the
\* first of a new file.
Rotating(size) ==
  LET sunk == disk \o pending
      oldest == files[MAX_LOG_FILES].lines
  IN  /\ Full(size)
      /\ dropped' = dropped \o SubSeq(sunk, 1, oldest)
      /\ \E settled \in BOOLEAN :
           /\ disk' = SubSeq(sunk, oldest + 1, Len(sunk))
                      \o (IF settled THEN <<Head(todo)>> ELSE <<>>)
           /\ pending' = IF settled THEN <<>> ELSE <<Head(todo)>>
      /\ files' = Shifted([bytes |-> size, lines |-> 1])
      /\ UNCHANGED damaged

\* The sinks of one log call ...
WriteLine ==
  /\ main = "run"
  /\ todo # <<>>
  /\ ~must_flush
  /\ \E size \in LineSizes : Fitting(size) \/ Rotating(size)
  /\ must_flush' = Severe(Head(todo))
  /\ todo' = IF must_flush' THEN todo ELSE Tail(todo)
  /\ UNCHANGED <<vars, loadingVars, main>>

\* ... and the flush that ends it.
FlushLine ==
  /\ main = "run"
  /\ must_flush
  /\ Flush
  /\ must_flush' = FALSE
  /\ todo' = Tail(todo)
  /\ UNCHANGED <<vars, loadingVars, main>>

CloseLog_Abandoned == Crash

\* The logger goes when the process exits, and closes its file.
CloseLog == Flush

\* main returns: 0 after run did, whatever it found; 1 from the handler when an
\* exception left run.
Return0or1 ==
  /\ main = "run"
  /\ todo = <<>>
  /\ phase \in {"finished", "failed"}
  /\ main' = IF phase = "finished" THEN "0" ELSE "1"
  /\ CloseLog
  /\ UNCHANGED <<vars, loadingVars, todo, must_flush>>

\* What the thread does on its own.
ThreadStep ==
  \/ Load
  \/ InitFails
  \/ StartRun
  \/ Run
  \/ WriteLine
  \/ FlushLine
  \/ Return0or1

Killed ==
  /\ main \in {"load", "run"}
  /\ main' = "killed"
  /\ Crash
  /\ UNCHANGED <<vars, loadingVars, todo, must_flush>>

ToolNext == ThreadStep \/ Killed

\* The one thread keeps running; nobody has to kill it.  A request is one step,
\* as in HealthCheckRunner, so this assumes that every request returns.
ToolSpec == ToolInit /\ [][ToolNext]_toolVars /\ WF_toolVars(ThreadStep)

----------------------------------------------------------------------------
\* Every variable holds a value of its type; the log's limit is positive before
\* the sink converts it to size_t, and what is written but not flushed is the
\* first line of todo.
ToolTypeOK ==
  /\ RunnerTypeOK
  /\ Loader!LoaderTypeOK
  /\ main \in {"load", "run", "0", "1", "killed"}
  /\ disk \in Seq(LogLines) /\ pending \in Seq(LogLines) /\ ~damaged
  /\ dropped \in Seq(LogLines)
  /\ files \in [0 .. MAX_LOG_FILES -> [bytes : Nat, lines : Nat]]
  /\ todo \in Seq(LogLines)
  /\ (main = "run" /\ must_flush) => todo # <<>> /\ Head(todo) = Last(disk \o pending)
  /\ main = "run" => config.max_logs_filesize_byte >= 1

FileApps == document.root.fields.apps.items

Verdict(line) == line.kind \in {"OK", "FAIL"}

\* What has got to the disk, and may have been rotated out since.
Reached == dropped \o disk

\* The rotated files, which are on disk to the last byte.
RotatedBytes == files[1].bytes + files[2].bytes + files[3].bytes

\* The exit status says whether the log got the report, not what is in it: 0
\* means that every app of the file has its one line in the log, a verdict when
\* it is active and a warning when it is not, and verdicts come in the order of
\* the file; 1 means that there is no verdict at all, not even of the endpoints
\* that were asked.  A line of the report is missing on disk only when rotation
\* has dropped it, and then later lines fill the rotated files with more than
\* max_logs_filesize_byte bytes.
StatusTellsOfReport ==
  /\ main = "0" =>
       \A i \in DOMAIN FileApps :
         Cardinality({ j \in DOMAIN Reached :
           /\ Reached[j].app = i
           /\ IF FileApps[i].fields.active.bool THEN Verdict(Reached[j])
                                                ELSE Reached[j].kind = "ignored" }) = 1
  /\ main = "1" =>
       \A j \in DOMAIN (Reached \o pending) : ~Verdict((Reached \o pending)[j])
  /\ \A j, k \in DOMAIN Reached :
       (j < k /\ Verdict(Reached[j]) /\ Verdict(Reached[k]))
         => Reached[j].app < Reached[k].app
  /\ dropped # <<>> => RotatedBytes > config.max_logs_filesize_byte

\* The warnings and errors whose log calls are over, from what run has done.
WarnedOf ==
  { l \in { [kind |-> "ignored", app |-> ignored[k]] : k \in DOMAIN ignored }
          \cup { [kind |-> reports[k].kind, app |-> monitors[k].app] :
                   k \in DOMAIN reports }
          \cup UNION { ToSet(MailLine(mails[k])) : k \in DOMAIN mails } :
      l.kind \in {"ignored", "FAIL", "mail_failed"} } \ ToSet(todo)

\* A signal, or the crash on a null client, costs information only: the FAIL
\* line of every unhealthy endpoint that run has reported, the warning of every
\* ignored app and the error of every mail are on disk, or were and gave way to
\* more than max_logs_filesize_byte bytes of later lines that are.
WarningsOutliveProcess ==
  \A l \in WarnedOf :
    \/ l \in ToSet(disk)
    \/ l \in ToSet(dropped) /\ RotatedBytes > config.max_logs_filesize_byte

\* What EndpointMonitor and HealthCheckRunner assume of their settings is what
\* loading has made sure of: no monitor is built with a wait or a budget that
\* makes no sense, an exception never comes out of the factory, and a run that
\* fails does so in a health check.
LoadedConfigRuns ==
  /\ \A k \in DOMAIN monitors :
       /\ monitors[k].settings.timeout_seconds >= 1
       /\ monitors[k].settings.max_retries >= 0
       /\ monitors[k].settings.request_type \in RequestTypes
  /\ phase = "failed" => pc = "thrown"
  /\ main = "run" => apps # <<>>

\* The tool ends, whatever is in its configuration, whatever the mail server
\* does, and for every endpoint that at some point finishes its answer, closes
\* the connection or falls silent, with a timeout whose milliseconds fit an int.
\* One that goes on sending, a byte now and then or one 100 Continue after the
\* other, can hold a request for ever: see HttpRequest.
ToolEnds == <>(main \in {"0", "1", "killed"})
=============================================================================
