# webapp-monitor-tool in TLA+

This directory models webapp-monitor-tool, checks the models with TLC on small
instances, and proves the main results with TLAPS for every configuration.

The program is a C++ command line tool. One run loads `config.json`, builds a
monitor for each active app, asks each endpoint for its health (with retries
and waits), and only then logs one line per endpoint and sends mails. It has
one thread; what makes it hard is not interleaving inside the process but what
the endpoints, the SMTP server, the libraries and the configuration may do at
each step of that one thread.

## 1. Inventory

| Part | State | Operations | Talks to |
| --- | --- | --- | --- |
| `main` (`src/main.cpp`) | config, logger, sender, runner | `main`, `create_http_monitor` | everything, in order; catches `std::exception` |
| `Config` (`src/config.cpp`) | smtp, apps, log limit and path | `loadConfig`, `parse_*`, `validate*` | nlohmann/json; throws on the first error |
| `Logger` (`src/logger.cpp`) | spdlog logger with two sinks, `MAX_LOG_FILES` rotated files | `initialize`, `ensure_log_file_exists` | file system |
| `HealthCheckRunner` | monitors and results (locals of `run`) | `run`, `build_monitors` | calls each monitor, the logger and the sender |
| `IEndpointMonitor` | `settings`, `current_retry`; per call three vectors and `first_request` | `health_check` and its helpers | calls the virtual `perform_request` |
| `HttpEndpointMonitor` | none of its own | `perform_request`, `parse_response`, `get_request_based_on_type` | httplib, nlohmann/json |
| `EmailSender` | SMTP settings; per call handle, recipient list, `upload_status` | `send_email`, `read_callback` | libcurl, which calls `read_callback` back |
| `TextFormatter` | none | colours, separators | - |
| vendored httplib, json, spdlog; system libcurl | | | |

What makes each part correct:

- **Monitor**: never more than `max(1, max_retries)` requests in a call; a
  verdict that says what the last answer deserved; parallel vectors that stay
  aligned; waits between attempts and nowhere else; the call ends; a second
  call on the same object is as good as the first.
- **HTTP request**: a response is valid exactly for the configured status and a
  body that is absent or JSON; nothing an endpoint answers ends the run
  (it can: see `ParseThrows`).
- **Runner**: each active app is checked once and reported once, in order, with
  its own result, after all checks; each inactive app is warned about once;
  mails belong to lines; failure of a mail changes nothing else.
- **Email sender**: the uploaded message is the built message whatever buffers
  libcurl offers; `true` means delivered; handle and list are freed on every
  path; a silent server cannot hold the call.
- **Config**: what `validate` accepts can be built and run; the first error in
  the code's order is the one reported; numbers are what was written.
- **Logger**: files stay within the limit; rotation loses only the oldest file;
  what was flushed survives a crash.
- **HTTP client**: only a complete response counts; a silent peer cannot hold a
  request.
- **main**: the exit status says how the run ended, and the log on disk has what
  it says.

The behaviours a test hardly reaches are listed one by one, with their lines,
under "hazards" in `PROJECT.json`.

## 2. Modules

| Module | Models | Relation |
| --- | --- | --- |
| `HttpEndpointMonitor` | `perform_request`, `parse_response` as functions from what the endpoint does to a `Response` | pure operators |
| `EndpointMonitor` | `health_check`, step by step | extends it |
| `HttpRequest` | one request inside httplib's client: addresses, waits, head and body | instantiates `HttpEndpointMonitor`: its outcomes are that module's replies |
| `HealthReport` | the abstract promise of a run | - |
| `HealthCheckRunner` | `build_monitors`, `run`, the factory in `main` | extends `EndpointMonitor`: the running monitor *is* that machine; instantiates `HealthReport` |
| `EmailSender` | `send_email`, `read_callback`; libcurl and the server as external steps | stands alone |
| `ConfigLoader` | `loadConfig`: open, parse, read, validate | stands alone |
| `DurableLog` | the abstract promise of a log on disk | - |
| `RotatingLog` | `Logger::initialize`, spdlog's logger and rotating file sink, the directory | instantiates `DurableLog` |
| `MonitorTool` | `main`: loading, logger, run, exit status, a killed process | extends `HealthCheckRunner`; instantiates `ConfigLoader` and `DurableLog` |
| `EndpointMonitorProofs`, `HealthCheckRunnerProofs`, `EmailSenderProofs`, `ConfigLoaderProofs`, `HttpRequestProofs`, `RotatingLogProofs`, `MonitorToolProofs` | theorems | each extends the module it is about; `HealthCheckRunnerProofs` also `EndpointMonitorProofs`; `MonitorToolProofs` also `HealthCheckRunnerProofs`, and it instantiates `ConfigLoaderProofs` |
| `DurableLogRefinement` | theorems about a log with one writer, and its refinement of `DurableLog` | extends `RotatingLogProofs` |
| `MC*` | finite instances for TLC | |

Correspondence with the code:

- `EndpointMonitor`. `pc` is the place in `health_check`: `loop` is the head of
  the do-while, `request` the call of `perform_request`, `evaluate` the `if`
  after the three `emplace_back`. `Return` is either return statement,
  `thrown` an exception leaving the call, `crashed` the null client.
  `attempts` and `timeouts_applied` are history: they record what was really
  asked and answered, so that the properties can speak about it without
  repeating the code's own bookkeeping. `Healthy` states what a good answer is
  without `success` flags or messages.
- `HttpEndpointMonitor`. A URL stands for url and path. Bodies are kept only as
  far as `json::parse` tells them apart. In this build httplib has no TLS
  (nothing defines its TLS macro), so an `https` URL makes the client's
  constructor throw: `UnsupportedSchemeUrls`.
- `HealthCheckRunner`. `phase` and `next` are the loop at hand and its
  position. A `health_check` is entered by `CheckMonitor`, runs with the
  actions of `EndpointMonitor`, and is left by `CollectResult` or `AbandonRun`.
  The logger is three sequences: `ignored` (warnings), `reports` (lines) and
  `mails`. Each mail is one step with one of three outcomes, because the
  runner looks at none of them; `EmailSender` has the detail. `calls` counts
  the health checks of the run, one object after the other.
- `HealthReport`. Targets get verdicts; when all have one, verdicts are
  published in order, once each; a run that fails has published nothing. The
  runner maps to it by `Up`, `Down`, `Verdicts` and `RunStatus`.
- `EmailSender`. One unit of the message is one header line or the body, one
  unit of time is ten seconds (connect limit 1, total limit 3). `Connected`,
  `ReadCallback`'s buffer size, `Accepted`, `TransferFails` and `Waits` are the
  environment's choices.

- `ConfigLoader`. `pc` follows `loadConfig`; each step either goes on or throws,
  and `problem` is the exception, by kind and field. The many `require_field`
  and `get` calls of one object are one step, for nothing comes between them:
  `ReadProblem` is the exception they end in, first all missing fields in
  order, then all that `get` does not take. A JSON value is a record with its
  type. `GetInt` is the library's `static_cast`: integers wrap, fractions are
  cut, booleans are 0 and 1, and a float beyond `int`, which C++ leaves
  undefined, may become anything. `Modulus` is the number of ints, 2^32.
- `RotatingLog`. `slot` is the directory (the log file and its three rotated
  names), `content` the files, `proc[p]` a run of the tool: where its log call
  is, the sink's `fd_` with the stdio buffer behind it, `current_size_`. A
  rotation takes two steps for each name, the remove and the rename, because
  that is where a process may die or another one interfere. How much of its
  buffer `fwrite` hands on is free, up to whole lines. spdlog catches what a
  sink throws, so a failed rotation ends the log call and not the program.
  Truncating and appending are two opens of the same file: when the second one
  fails, the file is empty and no file is open (`ReopenFails`).
- `HttpRequest`. `pc` is the wait the client is in; `waited` is the time spent in
  it. The peer may at any wait send something, close, break the connection or
  let time pass. One unit of `length` and `body` is a block; a line, of the head
  or of what frames the chunks, may arrive in parts. `PollTimeouts` is what a
  poll is given for each `timeout_seconds`: `static_cast<int>` of the
  milliseconds, `MILLIS` of them in a second. `OutcomeIsAReply`
  connects it to `HttpEndpointMonitor`, in which a request is one step.
- `MonitorTool`. `main` is `load`, `run`, or how the process ended. `ConfigLoader`
  runs first; its `config.apps` become the `apps` of `HealthCheckRunner`, whose
  actions go on from there. `todo` holds the lines a step of `run` logs; the
  next step waits until they are written and, from warnings up, flushed. The
  log is `DurableLog`, which `RotatingLog` implements for a single process.
  `files` says how the sink, which counts bytes and begins a new file when the
  next line does not fit, has spread the lines of this run over its four files;
  `dropped` is history: the lines of the run that went with an oldest file. A
  rotation is one step (`Rotating`), for its inner steps and their faults are
  those of `RotatingLog`. A limit that is not positive is refused by
  `Logger::initialize`, not by `validate`.

Operators with a suffix (`HasExceededMaxRetries_Strict`, `Timeouts_ConnectOnly`
...) are plausible bugs. No specification uses them; each shows that the
property it belongs to ("mutants" in `PROJECT.json`) is violated when the code
is wrong in that way.

## 3. What the runs show

| Run | Question | Result |
| --- | --- | --- |
| `endpoint_monitor` | two calls on one object against every sequence of answers | passes |
| `runner` | one run, eight-app universe, seven configurations | passes |
| `email` | two mails in a row against every libcurl behaviour | passes |
| `config` | 990 documents, one or two steps from a good one | passes |
| `log` | one tool started, killed and restarted at will, with failing renames and opens | passes |
| `log_overlap` | two runs that overlap on one log path | passes |
| `http_request` | one request against every peer | passes |
| `tool` | the program from `loadConfig` to its exit status, over 20 documents | passes |
| `failure_is_mailed` | README "How It Works" 6: a mail if a health check fails after retries | violated |
| `results_are_logged` | README "How It Works" 4: results are logged | violated |
| `negative_rejected` | `config.cpp:206`: "max_retries cannot be negative" | violated |
| `documented_limit` | README and `config.json`: the key `max_log_filesize` | violated |

The four violations:

- **`FailureIsMailed`**. `run` mails in its branch for success, to
  `test@test.com`; the branch for failure only logs. (A TODO in the code says
  that recipients, subject and body are provisional; it does not mention the
  branch.)
- **`ResultsAreLogged`**. Reporting starts after the last check. When a later
  `health_check` throws, `run` is left with the results already reached, and
  `main` prints "Init failed". No endpoint of the run is reported.
- **`NegativeIsRejected`**. `validate_app` checks the number that `get<int>` has
  made of the one in the file. A negative one outside `int` may wrap to a
  positive one, and a fraction above -1 becomes 0; both are accepted.
- **`DocumentedLimitUsed`**. `loadConfig` reads `max_logs_filesize_byte`. Whoever
  follows the README gets the default of 1 MiB, without a word.

What the passing runs also document, as behaviour rather than as fault: with
`max_retries = 0` the endpoint is still asked once, and `retries` in a result
counts requests, not repetitions. Further:

- **Exit status** (`StatusTellsOfReport`). 0 means that the whole report got to
  the disk, whatever it says; 1 that no verdict did. `main` calls the latter
  "Init failed" even when it was `run` that threw.
- **Log limit**. The sink rotates when the next *line* would not fit, so the
  files it leaves need not be full: with a limit of 300 bytes and lines of 200
  every line has a file of its own, and four lines are all that is kept. With a
  limit that small the beginning of the report, or a warning that was flushed,
  is gone when `main` returns 0. `StatusTellsOfReport` and
  `WarningsOutliveProcess` say so: a line that
  `run` logged and that is not on disk has been `dropped` by a rotation, and
  the rotated files then hold more than `max_logs_filesize_byte` bytes of later
  lines (`RotatedBytes`). That is a weak promise, and the best one there is:
  of two neighbouring files only the sum is certain to pass the limit.
- **A crash in a rotation** leaves a gap in the rotated names. The next rotation
  drops the oldest file all the same, so that a warning is certain to survive
  only two full files of newer lines, not three (`WarningsKept`).
- **A rename that fails twice** truncates the log file, flushed warnings
  included, and keeps the older files. `SizeBound` and the order of lines hold
  over it; `WarningsKept` and `OnlyOldestDropped` are stated for runs without
  such faults, and `DurableLog` has the step `Lose` for it.
- **Overlapping runs** keep the order of their own lines (`OwnOrderKept`) but
  nothing more: one may remove the file that the other has just rotated, and
  each counts only its own bytes, so neither `SizeBound` nor `WarningsKept`
  holds for two. Nothing in the repository says that runs may overlap.
- **Time of a request** (`TimeBoundedByProgress`). `timeout_seconds` bounds each
  wait for the socket: one for every address tried, one to write, one for
  every time something arrives. A peer that sends a byte before each timeout,
  or one "100 Continue" after the other, is waited for as long as it goes on.
  An address that refuses is followed by the next; one that times out is not.
  And the wait is `timeout_seconds` only up to 2147483 of them: from 2147484 on
  the milliseconds are no `int`, and the cast in `select_impl` makes them
  negative, which waits for a silent peer for ever, or shorter (4294968 seconds
  become 704 ms). `validate_app` lets every positive `int` through
  (`config.cpp:202`). So both the bound and `RequestEnds` are about the timeout
  that `poll` gets, and only when it is not negative.
- Interim responses other than 100 are taken for final ones.

### Bounds, and why they are enough

- `MCEndpointMonitor`: `max_retries` 0, 1, 2, 3 and 5 with `MaxReservable = 3`.
  0 and 1 are the two settings with one attempt, 2 has the first loop back, 3
  a loop back after a loop back, 5 is beyond what `reserve` finds memory for.
  Three statuses: healthy, another 2xx, and an error; every body class; a
  transport error. Latencies -1 and 2: the wall clock may be set back. Two
  calls (`MaxCalls`) show what one call leaves behind for the next; the reset
  makes a third like the second.
- `MCHealthCheckRunner`: up to three apps, with an inactive one first, in the
  middle or alone, the same endpoint twice, and an app whose client throws, is
  null, or cannot reserve, *behind* one whose result is already in. An empty
  `apps` list is left out because `validate` rejects it. `MaxCalls` is only a
  bound of the stand-alone monitor and does not restrict the runner.
- `MCEmailSender`: up to two recipients make a message of six or seven units
  (five or six of the headers and the empty line, one of the body); buffers of
  1, 2, 3 and 20 units give ends that fit exactly, that do not, and a single
  read. Two mails show what one call leaves behind.

- `MCConfigLoader`: each field of the SMTP object or of one of two apps missing,
  of every wrong type, empty, or a number on either side of each limit, next
  to an app that is good or has one of four troubles, before or behind it.
  Two apps are enough for an order between apps, and two troubles for an order
  between exceptions. `Modulus = 2048` keeps 199 to 600 inside `int` and lets
  numbers beyond it wrap into and out of every range; the real value differs
  only in size, and the proofs take any multiple of four.
- `MCRotatingLog`: lines of one and three units against a limit of two, so that
  two lines fit a file, one fills half of it, and one alone passes it. Six
  lines reach the removal of the oldest of four files; two faults reach a
  rename that fails and fails again. Overlapping runs are checked with four
  lines that each fill a file.
- `MCHttpRequest`: two addresses; bodies that are empty, that fit the limit of
  two blocks exactly, and that pass it. Timeouts of 3, 6 and 9 milliseconds in
  an int of three bits, which makes them 3, -2 and 1: one that fits, one that
  never expires, and one that is too short. `MaxWait = 4` is how long a wait is
  followed that nothing ends. `MaxPieces = 6` covers an interim
  response, a head in pieces and a body past its limit. It bounds how often
  something arrives before the peer falls silent, not how long it is silent.
- `MCMonitorTool`: documents for each way the tool can end: loading fails, the
  log is refused, the factory would throw if validation let it, a health check
  throws or crashes, a report fits the log or is rotated away. Lines of one and
  two bytes against limits of 1 to 3, behind a log file that is empty or has a
  byte of an earlier run: a line that alone passes the limit, files that are
  left part-filled, and a report that loses its first lines. A kill may come
  at any step. No log fault is injected here: that is `RotatingLog`'s part.

### Fairness

- `Spec` (monitor): weak fairness of the steps of a call. The thread keeps
  running, `sleep_for` ends, and each socket wait is bounded by
  `timeout_seconds`, if its milliseconds fit an `int`. What the code does *not*
  bound is the number of waits in one request: an endpoint that sends a byte
  before every timeout, or one "100 Continue" after the other, can prolong it.
  A request is one step here, so `CallEnds`, `RunEnds` and `ToolEnds` are about
  endpoints that at some point finish, close or fall silent, and about timeouts
  that stay non-negative; their comments say so, and `HttpRequest` states the
  limit. Nobody has to call a monitor again (`CallHealthCheck` is not fair).
- `RunnerSpec`: the one thread takes a step while it can, with the same
  assumption about requests. A mail is one step because `SendEnds` shows that
  `send_email` ends.
- `EmailSender.Spec`: weak fairness of `send_email`'s own steps and of time
  (`Waits`). Nothing is assumed of the network, the server or `read_callback`
  being called: a peer that falls silent anywhere is a fair behaviour.

- `HttpRequest.RequestSpec`: weak fairness of name resolution, of time
  (`Silence`) and of a poll that has expired (`TimesOut`). The vendored build
  resolves with `getaddrinfo`, which `timeout_seconds` does not bound; that it
  returns is assumed. Nothing is assumed of the peer. `RequestEnds` asks for a
  poll timeout that is not negative; with a negative one `Silence` never ends.
- `ToolSpec`: weak fairness of the one thread (`ThreadStep`), with the same
  assumption about requests. The signal is not fair: it does not have to come.
- `ConfigLoader` and `RotatingLog` have safety properties only.

`CHECK_DEADLOCK FALSE` in every configuration: a monitor stops after its last
call; a run, a sender, a request, a loading and the process stop when they are
done; the log stops at its bound on lines.

## 4. What is proved

All theorems hold for every value of the constants that satisfies the named
assumptions: `UrlsAssumption`, `RepliesAssumption` (names of messages),
`SettingsAssumption`, `BoundsAssumption`, `AppsAssumption` (a monitor of a
configured app has settings among `Settings`), the assumptions of `EmailSender`,
`LoaderAssumption` and `DocumentsAssumption` (JSON numbers are numbers and
arrays are sequences; the number of ints is a multiple of four),
`EmailAssumption` (the pattern of an address does not match the empty text),
`RequestAssumption` (timeouts are positive ints, as `validate_app` has it; there
are milliseconds in a second; the bounds are numbers),
`LogAssumption` (finitely many runs, lines of positive size) and
`ToolAssumption` (those of the loader, and the apps that it can make of the
documents are among `Apps`). TLC evaluates them all. The theorems of
`DurableLogRefinement` have one hypothesis more, `OneRun`: a single run of the
tool at a time. The run `log` is an instance of it, and the run `log_overlap`
is not.

- `EndpointMonitorProofs`. `MonitorInv` ties, for each place in the call, the
  counter, the number of waits, the three vectors and the attempts to one
  another. It is needed because none of the safety properties is inductive: in
  `evaluate`, that the verdict is right depends on `response` being what the
  last attempt deserves, and that the budget is kept depends on the counter
  equalling the number of attempts. `InvariantHolds` proves it, one lemma per
  action; `TypeCorrect`, `NeverOverBudget`, `VerdictIsSound`,
  `WaitsOnlyBetween` and `TranscriptIsFaithful` follow. `ResponseOfReply` is
  the lemma about `perform_request`: a response is valid exactly when the
  endpoint was healthy.
- `HealthCheckRunnerProofs`. `RunnerInv` adds to `MonitorInv` how far
  `build_monitors` has come (`BuiltFrom`), that every result is deserved by the
  attempts behind it (`ResultsDeserved`), that lines match results and mails
  match lines. The steps of a health check are taken over from the lemma
  `StepInv`. From it: `RunnerTypeCorrect`, `ReportsAreTruthful`, `ReportsWait`,
  `EveryAppIsReported`, `MailsAreOfSuccess`. `OneMonitorPerActiveApp` counts
  the monitors by a bijection with the active apps.
  `RunnerImplementsHealthReport`: initial states map to an initial state of
  `HealthReport`, and every step of a run to one of its steps or to a stutter
  (`DecideStep`, `PublishStep`, `FinishStep`, `FailStep`, `QuietStep`).

- `EmailSenderProofs`. `SenderInv` says for each place in `send_email` what the
  handle, the list, the upload and the envelope are: that what libcurl has
  read is the payload up to `index` (without which the next buffer need not
  continue it), that the list holds the recipients appended so far and the
  envelope is the list once the message goes out (`Transferred`), and that live
  nodes are those of the list and those an append has lost (`Memory`). From it:
  `SenderTypeCorrect`, `UploadIsAPrefix`, `TrueIsDelivered`, `NoLeak`, for any
  number of recipients, mails and buffer sizes.
- `ConfigLoaderProofs`. `LoaderInv` ties how far the loops have come to what the
  document was found to be: the apps read so far are each among `ParsedApps`
  of their item (`AppsOfItems`), and those validated so far have no failed check
  (`ValidUpTo`). `GetInt`
  always yields an int and keeps one that fits (`NarrowFacts`,
  `GetIntFacts`: lemmas about the arithmetic of the conversion). From it:
  `LoaderTypeCorrect`, `LoadedIsAsWritten` and `LoadedCanBeBuilt`, for every
  document. `ReadInv` adds what the steps that are over have found, place by
  place: that the text is JSON and the root an object, that the limits, the SMTP
  object and its fields are as they have to be, and that a document that made
  the loading fail is not acceptable. From it: `AcceptsExactly`, in which the
  checks of the code, spread over its loops, meet a definition of a good
  document that knows no order; and `ReportsFirstProblem`, with `FirstInFacts`
  about the first bad field of a list.
- `HttpRequestProofs`. `RequestInv` has two parts beside the types. `TimeSpent`
  counts the waits that are over in whole poll timeouts (`Span`): the bound on
  the time of a finished request does not say how much of it the current wait
  may still use. `ResponseSoFar` says what is known of head and body at each
  wait. `ToIntFacts` and `PollTimeoutFacts` are about the cast: it yields an
  int, and keeps the milliseconds that are one.
  From it: `ResponsesAreComplete`, `TimeIsBounded`, `OutcomesAreReplies`, for
  every timeout that `validate_app` admits, and every limit and number of pieces;
  `TimeIsBounded` says what becomes of a timeout that the cast changes.
- `RotatingLogProofs`. `OrderInv` holds for any number of overlapping runs and
  any faults. That lines are in order on disk is not inductive: the next write
  could go to an old file. So `OrderInv` says that no file has two names
  (`OneName`), that the names are in the order of the lines of each run
  (`FilesOrdered`), that a run has its file open under the newest name that has
  lines of it (`WritesNewest`), that its buffer and the line of its call are
  newer than all of them (`PendingNewer`), that a file nobody has is empty
  (`UnusedEmpty`), and that the next number is new (`NumbersUsed`). Each step
  either rearranges whole files (`MovedInv`: creation, removal, rename,
  truncation are one argument, with a map from new names to old ones) or
  appends what a run has pending (`WrittenInv`). `UnusedIsFree` counts files
  and names, to show that a new file can always be found. From it:
  `OrderIsKept`. `LogTypeCorrect` needs one thing more: that the size of lines,
  a recursive function of their number, is a number and adds up (`SizeOfNat`,
  `SizeOfConcat`). The library's induction cannot be used, so these lemmas take
  the least counterexample instead (`SetInduction`, from `WFMin`).
- `DurableLogRefinement`. With one run at a time `RunInv` holds besides, over
  crashes, restarts, and renames and opens that fail. Its parts: the run writes
  to the file that has the base name (`FileInv`); `current_size` is the size of
  that file and of what is buffered for it, and no file has passed the limit
  (`SizeInv`); a rotation has a free name to move a file to, and where it has
  come to is what the names show (`MoveInv`); what is still to be written is
  newer than the last flushed warning (`WarnInv`); and that warning is on disk
  or everything on disk is newer, in two files (`KeptInv`). None of the
  properties is inductive without the others: that a file stays small depends
  on `current_size` being right about a file begun by an earlier process, and
  that a warning stays depends on a rotation never removing a name whose
  successor is empty. From it: `FilesWithinLimit`, `WarningsStay`,
  `OnlyOldestGoes`, and `LogIsDurable`, by which a step of the sink is a step of
  `DurableLog` (a write, a flush, the loss of the oldest file, a crash, a fault
  or a loss after one) or a stutter.
- `MonitorToolProofs` puts the parts together. `ToolImplementsLoader`: the tool
  is a `ConfigLoader` that `main` does not disturb. The theorems about the
  loader are taken over through an instance of `ConfigLoaderProofs`; the prover
  does not see that its definitions are those of the `ConfigLoader` in
  `MonitorTool`, so `SameReads`, `SameApps`, `SameChecks` and `SameSteps` say
  so. `LoadedIsFit` carries them to the runner (`LoadedInv`: the loaded apps are
  those of the file, and what `HealthCheckRunner` assumes of its configuration
  holds of them), and with that `ToolRunIsSound` shows `RunnerInv` of the run
  that `main` starts, whatever was in the file, together with `MainInv` (where
  `main` is, what is loaded and what `run` has come to agree), `LinesInv` (a
  line that is to be flushed is the last one written) and `FilesInv` (the files
  hold the lines that the sink has taken and not dropped; and a rotated file and
  the one begun after it are together over the limit, since the first line of
  the one did not fit the other). `ToolTypeCorrect` and `LoadedIsRun` follow.

  `StatusIsHonest` and `WarningsReachDisk` are about what gets to the disk;
  neither property is inductive by itself. `StatusIsHonest` rests on `TellInv`, about all
  lines of this run wherever they are (`Told`: dropped, on disk, in the buffer,
  or about to be logged): they are in the order of the file (`Ordered`), each
  has its origin in something `run` has done (`Sourced`), and as long as no
  crash has taken any, everything `run` has done has its line (`Complete`). A
  log call moves a line within `Told` (`WritingTells`), and so does a rotation,
  which moves the oldest ones to `dropped` (`RotatingTakes`, `LineTaken`); a
  crash takes some away (`LessTold`), and a step of `run` adds its own behind
  the others (`RunTellInv`): each step of `run` is silent, warns of one app, or
  tells of one monitor (`RunTells`). That nothing is dropped before the rotated
  files hold more than the limit is `RotatedFull`, from `FilesInv`.
  `WarningsReachDisk` follows from `WarnedReached`: a severe line stays in `todo`
  until a flush has moved all that the sink has to the disk, that line is the
  last of it (`LinesInv`), and what has reached the disk stays there or is
  dropped (`ReachedGrows`).

Only model-checked: every liveness property (`CallEnds`, `RunEnds`, `SendEnds`,
`RequestEnds`, `ToolEnds`) and the fairness part of `ImplementsHealthReport`, which
are out of the prover's reach. Every invariant and every other action property
that a passing run checks is a theorem.

## 5. What is not modelled

- `TextFormatter`, the wording of lines and exceptions, the console sink: layout,
  and no state.
- `HttpEndpointMonitor`'s seven request kinds differ only in whether an answer
  can have a body; `request_type_to_string` is never called.
- The vendored libraries beyond the code that the program's calls run through.
  They are about 73000 of the 75000 lines under `src/`: httplib's server,
  WebSocket, TLS, compression and multipart code, nlohmann's binary formats,
  patches and pointers, spdlog's other sinks, asynchronous loggers and bundled
  fmt. Not one of them is reached from `main`, so no model of the program has
  states for them; the modules stand for nearly all of the program's own lines
  and for the paths through the libraries that decide how it behaves. What else a
  library may do at a call (a reply, a parse error, a SMTP answer) is an input.
- Inside `HttpRequest`: keep-alive (each request has a client of its own), proxies,
  redirects and authentication (off by default), compressed bodies, and header
  limits other than as `BadLine`.
- The address pattern of `is_email_valid`: a set of texts that match.
- Partial lines on disk: a line is written as a whole in `RotatingLog`, so that a
  crash in the middle of one is a crash before or after it.
- Write errors of the log file (a full disk); errors of memory other than
  `reserve` and `curl_slist_append`.
- `test/server.py`: a manual stub without assertions.

## 6. Plan

Done, in this order: `HttpEndpointMonitor`, `EndpointMonitor` and its proofs;
`HealthReport`, `HealthCheckRunner`, its proofs and the refinement;
`EmailSender` and its proofs; `ConfigLoader` and its proofs; `DurableLog`,
`RotatingLog` and its proofs; `HttpRequest` and its proofs; `MonitorTool` and its
proofs; then what was only model-checked of `ConfigLoader`, `RotatingLog` and
`MonitorTool`, and the refinement of `DurableLog`.

Left:

1. A mail as one atomic step with its outcome, as an abstract specification of
   `EmailSender`: it would justify the step that the runner takes for a mail as
   `OutcomeIsAReply` justifies the one for a request.
2. `MonitorTool` over `RotatingLog` itself instead of `DurableLog`: `LogIsDurable`
   already covers the log alone, and `Rotating`, which is several steps of
   `RotatingLog`, is the one step in which the tool says more than `DurableLog`
   does.
