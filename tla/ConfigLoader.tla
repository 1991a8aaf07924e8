----------------------------- MODULE ConfigLoader -----------------------------
(***************************************************************************)
(* Config::loadConfig: the file is opened and parsed, its fields are read   *)
(* app after app, and only then is anything validated.  Every step may end  *)
(* the loading with an exception; problem says which.                       *)
(*                                                                          *)
(* A JSON value is a record with its type: a string has a text, an integer  *)
(* its int, a float its halves (twice its value, so that fractions can be   *)
(* written), a boolean its bool, an array its items, an object its fields.  *)
(* int has Modulus values, half of them negative: 2^32, scaled in the runs. *)
(***************************************************************************)
EXTENDS Integers, Sequences, SequencesExt

CONSTANTS
  Documents,   \* [opens, text, root]: config.json, as it may be found
  ValidEmails, \* the texts that is_email_valid's pattern matches
  Modulus      \* how many values an int has

ASSUME LoaderAssumption ==
  /\ Modulus \in Nat \ {0}
  /\ Modulus % 4 = 0
  /\ \A d \in Documents :
       /\ d.opens \in BOOLEAN
       /\ d.text \in {"json", "syntax_error", "number_overflow"}

\* is_email_valid's pattern asks for an @.
ASSUME EmailAssumption == "" \notin ValidEmails

VARIABLES
  document,
  pc,       \* where loadConfig is
  next,     \* position of its loops over the apps
  config,   \* the Config being filled
  problem   \* the exception, when pc = "failed"

loaderVars == <<document, pc, next, config, problem>>

DEFAULT_MAX_LOG_FILESIZE_BYTE == Modulus \div 4   \* 1048576, scaled
DEFAULT_LOGS_PATH == "/logs"

SmtpFields == <<"url", "username", "password", "from">>

AppFields == <<"name", "url", "path", "active", "admins", "request_type",
               "healthy_response_status_code", "timeout_seconds", "max_retries">>

Limits == <<"max_logs_filesize_byte", "logs_path">>

AppInts == {"healthy_response_status_code", "timeout_seconds", "max_retries"}

NoProblem == [kind |-> "none", field |-> ""]

----------------------------------------------------------------------------
\* nlohmann::json, as far as loadConfig uses it.

HasField(v, key) == v.type = "object" /\ key \in DOMAIN v.fields

\* A value is what its type says: numbers are numbers, arrays are sequences.
WellFormed(v) ==
  /\ v.type = "integer" => v.int \in Int
  /\ v.type = "float" => v.halves \in Int
  /\ v.type = "array" => /\ Len(v.items) \in Nat
                        /\ v.items = [i \in 1 .. Len(v.items) |-> v.items[i]]

FieldsWellFormed(v) ==
  v.type = "object" => \A f \in DOMAIN v.fields : WellFormed(v.fields[f])

ASSUME DocumentsAssumption ==
  \A d \in Documents :
    /\ FieldsWellFormed(d.root)
    /\ (HasField(d.root, "apps") /\ d.root.fields.apps.type = "array") =>
         \A i \in DOMAIN d.root.fields.apps.items :
           FieldsWellFormed(d.root.fields.apps.items[i])

Half == Modulus \div 2

Ints == -Half .. Half - 1

Narrow_Unchanged(n) == n

\* static_cast<int> of a number_integer_t or number_unsigned_t.
Narrow(n) == ((n + Half) % Modulus) - Half

Truncate(halves) == IF halves >= 0 THEN halves \div 2 ELSE -((-halves) \div 2)

\* What get<int> may give: an integer is narrowed, a float loses its fraction,
\* and one too large for an int becomes any of them.
GetInt(v) ==
  IF v.type = "integer" THEN {Narrow(v.int)}
  ELSE IF v.type = "boolean" THEN {IF v.bool THEN 1 ELSE 0}
  ELSE IF Truncate(v.halves) \in Ints THEN {Truncate(v.halves)} ELSE Ints

\* get<std::string>, get<bool>, get<int> and get<std::vector<std::string>> do
\* not throw.  get<int> takes a boolean as well.
Gettable(field, v) ==
  IF field = "active" THEN v.type = "boolean"
  ELSE IF field = "admins"
       THEN v.type = "array" /\ \A i \in DOMAIN v.items : v.items[i].type = "string"
  ELSE IF field \in AppInts \cup {"max_logs_filesize_byte"}
       THEN v.type \in {"integer", "float", "boolean"}
  ELSE v.type = "string"

----------------------------------------------------------------------------
\* The element of fields that comes first among those in bad.
FirstIn(fields, bad) == fields[SelectInSeq(fields, LAMBDA f : f \in bad)]

MissingFields(v, fields) == { f \in ToSet(fields) : ~HasField(v, f) }

UngettableFields(v, fields) ==
  { f \in ToSet(fields) : HasField(v, f) /\ ~Gettable(f, v.fields[f]) }

\* All require_field calls come before the first get.
ReadProblem(v, fields) ==
  IF MissingFields(v, fields) # {}
  THEN [kind |-> "missing", field |-> FirstIn(fields, MissingFields(v, fields))]
  ELSE IF UngettableFields(v, fields) # {}
  THEN [kind |-> "type", field |-> FirstIn(fields, UngettableFields(v, fields))]
  ELSE NoProblem

Init ==
  /\ document \in Documents
  /\ pc = "open"
  /\ next = 1
  /\ config = [max_logs_filesize_byte |-> 0, logs_path |-> "", smtp |-> <<>>,
               apps |-> <<>>]
  /\ problem = NoProblem

Throw(p) == pc' = "failed" /\ problem' = p /\ UNCHANGED <<document, next, config>>

Continue(where) == pc' = where /\ UNCHANGED <<document, problem>>

OpenFile ==
  /\ pc = "open"
  /\ IF document.opens
     THEN Continue("parse") /\ UNCHANGED <<next, config>>
     ELSE Throw([kind |-> "cannot_open", field |-> ""])

\* file >> root.  Only a parse_error is given the message of the handler here;
\* a number that no double holds leaves with the library's own.
ParseText ==
  /\ pc = "parse"
  /\ IF document.text = "json"
     THEN Continue("limits") /\ UNCHANGED <<next, config>>
     ELSE Throw([kind |-> document.text, field |-> ""])

\* The values root.value(key, default) may give.
IntValue(key, default) ==
  IF HasField(document.root, key) THEN GetInt(document.root.fields[key]) ELSE {default}

\* Both values in one step.  On a root that is no object the first call throws.
ReadLimits ==
  /\ pc = "limits"
  /\ LET root == document.root
         bad == IF root.type = "object" THEN UngettableFields(root, Limits)
                                        ELSE ToSet(Limits)
     IN  IF bad # {}
         THEN Throw([kind |-> "type", field |-> FirstIn(Limits, bad)])
         ELSE /\ Continue("smtp")
              /\ \E limit \in IntValue("max_logs_filesize_byte",
                                       DEFAULT_MAX_LOG_FILESIZE_BYTE) :
                   config' = [config EXCEPT
                     !.max_logs_filesize_byte = limit,
                     !.logs_path = IF HasField(root, "logs_path")
                                   THEN root.fields.logs_path.text
                                   ELSE DEFAULT_LOGS_PATH]
              /\ UNCHANGED next

\* require_field for smtp and apps, then parse_smtp.
ParseSmtp ==
  /\ pc = "smtp"
  /\ LET root == document.root
         absent == MissingFields(root, <<"smtp", "apps">>)
     IN  IF absent # {}
         THEN Throw([kind |-> "missing", field |-> FirstIn(<<"smtp", "apps">>, absent)])
         ELSE LET smtp == root.fields.smtp
                  p == ReadProblem(smtp, SmtpFields)
              IN  IF p # NoProblem THEN Throw(p)
                  ELSE /\ Continue("apps")
                       /\ config' = [config EXCEPT !.smtp =
                            [f \in ToSet(SmtpFields) |-> smtp.fields[f].text]]
                       /\ UNCHANGED next

Items == document.root.fields.apps.items

BeginApps ==
  /\ pc = "apps"
  /\ IF document.root.fields.apps.type = "array"
     THEN Continue("app") /\ UNCHANGED <<next, config>>
     ELSE Throw([kind |-> "not_array", field |-> "apps"])

\* What parse_app may make of an object with all its fields.
ParsedApps(fields) ==
  { [name |-> fields.name.text, url |-> fields.url.text, path |-> fields.path.text,
     active |-> fields.active.bool,
     admins |-> [i \in DOMAIN fields.admins.items |-> fields.admins.items[i].text],
     request_type |-> fields.request_type.text,
     healthy_response_status_code |-> status, timeout_seconds |-> seconds,
     max_retries |-> retries] :
       status \in GetInt(fields.healthy_response_status_code),
       seconds \in GetInt(fields.timeout_seconds),
       retries \in GetInt(fields.max_retries) }

ParseApp ==
  /\ pc = "app"
  /\ next <= Len(Items)
  /\ LET p == ReadProblem(Items[next], AppFields)
     IN  IF p # NoProblem THEN Throw(p)
         ELSE /\ \E app \in ParsedApps(Items[next].fields) :
                   config' = [config EXCEPT !.apps = Append(config.apps, app)]
              /\ next' = next + 1
              /\ Continue("app")

AppsParsed_FirstOnly == next > 1

AppsParsed == next > Len(Items)

BeginValidation ==
  /\ pc = "app"
  /\ AppsParsed
  /\ Continue("validate")
  /\ UNCHANGED <<next, config>>

----------------------------------------------------------------------------
\* validate, up to its loop.
ValidateSmtp ==
  /\ pc = "validate"
  /\ LET empty == { f \in ToSet(SmtpFields) : config.smtp[f] = "" }
     IN  IF empty # {}
         THEN Throw([kind |-> "invalid", field |-> FirstIn(SmtpFields, empty)])
         ELSE IF config.apps = <<>>
         THEN Throw([kind |-> "invalid", field |-> "apps"])
         ELSE Continue("validate_app") /\ next' = 1 /\ UNCHANGED config

\* is_valid_request_type: the upper-case names only.
IsValidRequestType(text) ==
  text \in {"GET", "POST", "PUT", "DELETE", "PATCH", "OPTIONS", "HEAD"}

\* The checks of validate_app, in their order.
Checks == <<"name", "url", "path", "admins", "request_type",
            "healthy_response_status_code", "timeout_seconds", "max_retries",
            "admin_email">>

FailedChecks_RetriesOnly(app) ==
  { f \in ToSet(Checks) :
      \/ f \in {"name", "url", "path"} /\ app[f] = ""
      \/ f = "admins" /\ app.admins = <<>>
      \/ f = "request_type" /\ ~IsValidRequestType(app.request_type)
      \/ f = "healthy_response_status_code"
         /\ app.healthy_response_status_code \notin 200 .. 599
      \/ f = "max_retries" /\ app.max_retries < 0
      \/ f = "admin_email"
         /\ \E i \in DOMAIN app.admins : app.admins[i] \notin ValidEmails }

FailedChecks(app) ==
  { f \in ToSet(Checks) :
      \/ f \in {"name", "url", "path"} /\ app[f] = ""
      \/ f = "admins" /\ app.admins = <<>>
      \/ f = "request_type" /\ ~IsValidRequestType(app.request_type)
      \/ f = "healthy_response_status_code"
         /\ app.healthy_response_status_code \notin 200 .. 599
      \/ f = "timeout_seconds" /\ app.timeout_seconds <= 0
      \/ f = "max_retries" /\ app.max_retries < 0
      \/ f = "admin_email"
         /\ \E i \in DOMAIN app.admins : app.admins[i] \notin ValidEmails }

ValidateApp ==
  /\ pc = "validate_app"
  /\ next <= Len(config.apps)
  /\ LET failed == FailedChecks(config.apps[next])
     IN  IF failed # {}
         THEN Throw([kind |-> "invalid", field |-> FirstIn(Checks, failed)])
         ELSE Continue("validate_app") /\ next' = next + 1 /\ UNCHANGED config

AllValidated_First == next > 1

AllValidated == next > Len(config.apps)

Finish ==
  /\ pc = "validate_app"
  /\ AllValidated
  /\ Continue("loaded")
  /\ UNCHANGED <<next, config>>

Next ==
  \/ OpenFile
  \/ ParseText
  \/ ReadLimits
  \/ ParseSmtp
  \/ BeginApps
  \/ ParseApp
  \/ BeginValidation
  \/ ValidateSmtp
  \/ ValidateApp
  \/ Finish

Spec == Init /\ [][Next]_loaderVars

----------------------------------------------------------------------------
Problems == {"none", "cannot_open", "syntax_error", "number_overflow", "missing",
             "type", "not_array", "invalid"}

\* Every variable holds a value of its type, and an exception is known by its
\* kind exactly when the loading has failed.
LoaderTypeOK ==
  /\ pc \in {"open", "parse", "limits", "smtp", "apps", "app", "validate",
             "validate_app", "loaded", "failed"}
  /\ next \in Nat \ {0}
  /\ config.max_logs_filesize_byte \in Ints
  /\ problem.kind \in Problems
  /\ problem # NoProblem <=> pc = "failed"

\* What an operator has to write, said without the order of the code.
NonEmptyString(v) == v.type = "string" /\ v.text # ""

NumberIn(v, good) ==
  v.type \in {"integer", "float", "boolean"} /\ GetInt(v) \subseteq good

AcceptableApp(v) ==
  /\ v.type = "object"
  /\ ToSet(AppFields) \subseteq DOMAIN v.fields
  /\ \A f \in {"name", "url", "path", "request_type"} : NonEmptyString(v.fields[f])
  /\ IsValidRequestType(v.fields.request_type.text)
  /\ v.fields.active.type = "boolean"
  /\ v.fields.admins.type = "array"
  /\ v.fields.admins.items # <<>>
  /\ \A i \in DOMAIN v.fields.admins.items :
       LET admin == v.fields.admins.items[i]
       IN  NonEmptyString(admin) /\ admin.text \in ValidEmails
  /\ NumberIn(v.fields.healthy_response_status_code, 200 .. 599)
  /\ NumberIn(v.fields.timeout_seconds, 1 .. Half - 1)
  /\ NumberIn(v.fields.max_retries, 0 .. Half - 1)

Acceptable(d) ==
  /\ d.opens /\ d.text = "json" /\ d.root.type = "object"
  /\ {"smtp", "apps"} \subseteq DOMAIN d.root.fields
  /\ LET fields == d.root.fields
     IN  /\ "max_logs_filesize_byte" \in DOMAIN fields =>
              NumberIn(fields.max_logs_filesize_byte, Ints)
         /\ "logs_path" \in DOMAIN fields => fields.logs_path.type = "string"
         /\ \A f \in ToSet(SmtpFields) :
              HasField(fields.smtp, f) /\ NonEmptyString(fields.smtp.fields[f])
         /\ fields.apps.type = "array"
         /\ fields.apps.items # <<>>
         /\ \A i \in DOMAIN fields.apps.items : AcceptableApp(fields.apps.items[i])

\* A float no int can hold: what becomes of it is up to the build.
UndefinedNumbers ==
  \E i \in DOMAIN Items, f \in AppInts :
    LET v == Items[i].fields[f]
    IN  v.type = "float" /\ Truncate(v.halves) \notin Ints

\* loadConfig takes exactly the documents with every field there, of its type
\* and valid, in whatever order its checks come and wherever they stop.
AcceptedExactly ==
  /\ pc = "loaded" => Acceptable(document) \/ UndefinedNumbers
  /\ pc = "failed" => ~Acceptable(document)

NothingBefore(fields, f, bad) ==
  \E k \in DOMAIN fields :
    fields[k] = f /\ f \in bad /\ \A j \in 1 .. k - 1 : fields[j] \notin bad

\* The exception is about the first thing wrong: no app is blamed while one
\* before it has the same trouble, nothing is called invalid while any app of
\* the file is incomplete, and the field it names is the first of its app.
FirstProblemReported ==
  pc = "failed" /\ Len(config.apps) > 0 =>
    LET parsing == problem.kind \in {"missing", "type"}
    IN  /\ \A i \in 1 .. Len(config.apps) : ReadProblem(Items[i], AppFields) = NoProblem
        /\ parsing => /\ next = Len(config.apps) + 1
                      /\ problem = ReadProblem(Items[next], AppFields)
        /\ ~parsing => Len(config.apps) = Len(Items)
        /\ ~parsing /\ problem.field \in ToSet(Checks)
             /\ (\A f \in ToSet(SmtpFields) : config.smtp[f] # "") =>
             /\ \A i \in 1 .. next - 1 : FailedChecks(config.apps[i]) = {}
             /\ NothingBefore(Checks, problem.field, FailedChecks(config.apps[next]))

\* A loaded configuration holds the apps of the file, each once and in order,
\* and every integer that fits an int as it was written.
LoadedAsWritten ==
  pc = "loaded" =>
    /\ Len(config.apps) = Len(Items)
    /\ \A i \in DOMAIN Items :
         LET app == config.apps[i]
             v == Items[i].fields
         IN  /\ app.name = v.name.text /\ app.url = v.url.text
             /\ app.path = v.path.text /\ app.request_type = v.request_type.text
             /\ app.active = v.active.bool
             /\ Len(app.admins) = Len(v.admins.items)
             /\ \A f \in AppInts :
                  v[f].type = "integer" /\ v[f].int \in Ints => app[f] = v[f].int

\* Whatever a loaded configuration was written as, create_http_monitor can
\* build a monitor for each of its apps, with a wait and a budget that make
\* sense to health_check.
LoadedIsBuildable ==
  pc = "loaded" =>
    /\ config.apps # <<>> /\ DOMAIN config.apps = 1 .. Len(config.apps)
    /\ \A i \in DOMAIN config.apps :
         /\ IsValidRequestType(config.apps[i].request_type)
         /\ config.apps[i].timeout_seconds >= 1
         /\ config.apps[i].max_retries >= 0
         /\ config.apps[i].healthy_response_status_code \in 200 .. 599

----------------------------------------------------------------------------
\* config.cpp:206-208: "max_retries cannot be negative".
NegativeIsRejected ==
  pc = "loaded" =>
    \A i \in DOMAIN Items :
      LET v == Items[i].fields.max_retries
      IN  /\ v.type = "integer" => v.int >= 0
          /\ v.type = "float" => v.halves >= 0

\* README.md:55 and config.json:2 set the size limit under "max_log_filesize".
DocumentedLimitUsed ==
  pc = "loaded" /\ HasField(document.root, "max_log_filesize") =>
    config.max_logs_filesize_byte = document.root.fields.max_log_filesize.int
=============================================================================
