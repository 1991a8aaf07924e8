-------------------------- MODULE ConfigLoaderProofs --------------------------
(***************************************************************************)
(* What loadConfig guarantees of a configuration it returns, whatever the   *)
(* document was: LoaderInv is inductive, and the invariants follow from it. *)
(***************************************************************************)
EXTENDS ConfigLoader, WellFoundedInduction, TLAPS

ConfigFields == {"max_logs_filesize_byte", "logs_path", "smtp", "apps"}

AppsAreListed ==
  /\ HasField(document.root, "apps")
  /\ document.root.fields.apps.type = "array"

Readable(v) ==
  /\ v.type = "object"
  /\ \A f \in ToSet(AppFields) : f \in DOMAIN v.fields /\ Gettable(f, v.fields[f])

\* The apps so far: those of the file's items, in their order.
AppsOfItems ==
  /\ config.apps \in Seq(UNION { ParsedApps(Items[i].fields) : i \in DOMAIN Items })
  /\ Len(config.apps) <= Len(Items)
  /\ \A i \in 1 .. Len(config.apps) :
       Readable(Items[i]) /\ config.apps[i] \in ParsedApps(Items[i].fields)

ValidUpTo(n) == \A i \in 1 .. n : FailedChecks(config.apps[i]) = {}

\* The inductive invariant: how far the file is read and validated.
LoaderInv ==
  /\ LoaderTypeOK
  /\ document \in Documents
  /\ DOMAIN config = ConfigFields
  /\ pc \in {"open", "parse", "limits", "smtp", "apps"} =>
       next = 1 /\ config.apps = <<>>
  /\ pc \in {"smtp", "apps"} => document.root.type = "object"
  /\ pc = "apps" => HasField(document.root, "apps")
  /\ pc \in {"app", "validate", "validate_app", "loaded"} => AppsAreListed /\ AppsOfItems
  /\ pc = "app" => next = Len(config.apps) + 1
  /\ pc \in {"validate", "validate_app", "loaded"} => Len(config.apps) = Len(Items)
  /\ pc = "validate_app" => /\ config.apps # <<>>
                            /\ next <= Len(config.apps) + 1
                            /\ ValidUpTo(next - 1)
  /\ pc = "loaded" => config.apps # <<>> /\ ValidUpTo(Len(config.apps))

----------------------------------------------------------------------------
\* What is assumed of int, in the arithmetic the steps need.
LEMMA IntFacts ==
  /\ Modulus \in Nat /\ Half \in Nat /\ Modulus = 2 * Half /\ Half >= 2
  /\ Ints \subseteq Int /\ 0 \in Ints /\ 1 \in Ints
  /\ DEFAULT_MAX_LOG_FILESIZE_BYTE \in Ints
BY LoaderAssumption DEF Half, Ints, DEFAULT_MAX_LOG_FILESIZE_BYTE

\* The conversion to int gives an int, and the number itself when it is one.
LEMMA NarrowFacts ==
  ASSUME NEW n \in Int
  PROVE  Narrow(n) \in Ints /\ (n \in Ints => Narrow(n) = n)
BY IntFacts DEF Narrow, Ints

\* get<int> gives ints only, and an integer that is an int as it was written.
LEMMA GetIntFacts ==
  ASSUME NEW v, v.type \in {"integer", "float", "boolean"}, WellFormed(v)
  PROVE  /\ GetInt(v) \subseteq Ints
         /\ \A n \in GetInt(v) : (v.type = "integer" /\ v.int \in Ints) => n = v.int
<1>1. CASE v.type = "integer"
  <2>1. v.int \in Int
    BY <1>1 DEF WellFormed
  <2> QED
    BY <1>1, <2>1, NarrowFacts DEF GetInt
<1>2. CASE v.type = "boolean"
  BY <1>2, IntFacts DEF GetInt
<1>3. CASE v.type = "float"
  BY <1>3 DEF GetInt
<1> QED
  BY <1>1, <1>2, <1>3

\* The names in the lists of fields and of checks.
LEMMA FieldNames ==
  /\ ToSet(AppFields) =
       {"name", "url", "path", "active", "admins", "request_type",
        "healthy_response_status_code", "timeout_seconds", "max_retries"}
  /\ ToSet(Checks) =
       {"name", "url", "path", "admins", "request_type",
        "healthy_response_status_code", "timeout_seconds", "max_retries",
        "admin_email"}
  /\ ToSet(Limits) = {"max_logs_filesize_byte", "logs_path"}
  /\ ToSet(SmtpFields) = {"url", "username", "password", "from"}
BY DEF ToSet, AppFields, Checks, Limits, SmtpFields

\* An item that parse_app takes is an object with every field of its type.
LEMMA NoProblemReadable ==
  ASSUME NEW v, ReadProblem(v, AppFields) = NoProblem
  PROVE  Readable(v)
<1>1. MissingFields(v, AppFields) = {} /\ UngettableFields(v, AppFields) = {}
  BY DEF ReadProblem, NoProblem
<1>2. \A f \in ToSet(AppFields) : HasField(v, f) /\ Gettable(f, v.fields[f])
  BY <1>1 DEF MissingFields, UngettableFields
<1> QED
  BY <1>2, FieldNames DEF HasField, Readable

\* The exception of a reading step is a missing field or a wrong type.
LEMMA ReadProblemKinds ==
  ASSUME NEW v, NEW fields, ReadProblem(v, fields) # NoProblem
  PROVE  ReadProblem(v, fields).kind \in {"missing", "type"}
BY DEF ReadProblem

\* The parsed app is the written one, with ints for its numbers.
LEMMA ParsedAppFacts ==
  ASSUME NEW v, Readable(v), FieldsWellFormed(v),
         NEW app \in ParsedApps(v.fields)
  PROVE  /\ app.timeout_seconds \in Int /\ app.max_retries \in Int
         /\ app.healthy_response_status_code \in Int
         /\ app.name = v.fields.name.text /\ app.url = v.fields.url.text
         /\ app.path = v.fields.path.text /\ app.active = v.fields.active.bool
         /\ app.request_type = v.fields.request_type.text
         /\ Len(app.admins) = Len(v.fields.admins.items)
         /\ \A f \in AppInts :
              (v.fields[f].type = "integer" /\ v.fields[f].int \in Ints) =>
                app[f] = v.fields[f].int
<1>1. \A f \in AppInts :
        v.fields[f].type \in {"integer", "float", "boolean"} /\ WellFormed(v.fields[f])
  BY FieldNames DEF Readable, FieldsWellFormed, Gettable, AppInts
<1>2. PICK status \in GetInt(v.fields.healthy_response_status_code),
           seconds \in GetInt(v.fields.timeout_seconds),
           retries \in GetInt(v.fields.max_retries) :
        app = [name |-> v.fields.name.text, url |-> v.fields.url.text,
               path |-> v.fields.path.text, active |-> v.fields.active.bool,
               admins |-> [i \in DOMAIN v.fields.admins.items |->
                             v.fields.admins.items[i].text],
               request_type |-> v.fields.request_type.text,
               healthy_response_status_code |-> status,
               timeout_seconds |-> seconds, max_retries |-> retries]
  BY DEF ParsedApps
<1>3. /\ status \in Ints /\ seconds \in Ints /\ retries \in Ints
      /\ \A f \in AppInts :
           (v.fields[f].type = "integer" /\ v.fields[f].int \in Ints) =>
             app[f] = v.fields[f].int
  BY <1>1, <1>2, GetIntFacts DEF AppInts
<1>4. Len(app.admins) = Len(v.fields.admins.items)
  <2> DEFINE items == v.fields.admins.items
  <2>1. Len(items) \in Nat /\ DOMAIN items = 1 .. Len(items)
    BY FieldNames DEF Readable, FieldsWellFormed, Gettable, WellFormed
  <2>2. app.admins = [i \in 1 .. Len(items) |-> items[i].text]
    BY <1>2, <2>1
  <2> QED
    BY <2>1, <2>2
<1> QED
  BY <1>2, <1>3, <1>4, IntFacts

----------------------------------------------------------------------------
\* What a step that ends the loading with an exception need not prove.
LEMMA ThrowInv ==
  ASSUME LoaderInv, NEW p, p.kind \in Problems \ {"none"}, Throw(p)
  PROVE  LoaderInv'
<1>1. LoaderTypeOK /\ document \in Documents /\ DOMAIN config = ConfigFields
  BY DEF LoaderInv
<1>2. p # NoProblem
  <2>1. NoProblem.kind = "none"
    BY DEF NoProblem
  <2> QED
    BY <2>1
<1>3. LoaderTypeOK'
  BY <1>1, <1>2 DEF Throw, LoaderTypeOK
<1> QED
  BY <1>1, <1>3 DEF Throw, LoaderInv

\* The types of a step that goes on, with the limit it had or a new one.
LEMMA ContinueTyped ==
  ASSUME LoaderInv, NEW where, Continue(where), pc # "failed",
         where \in {"parse", "limits", "smtp", "apps", "app", "validate",
                    "validate_app", "loaded"},
         next' \in Nat \ {0}, config'.max_logs_filesize_byte \in Ints
  PROVE  LoaderTypeOK'
BY DEF Continue, LoaderInv, LoaderTypeOK

\* The loading begins with nothing read.
LEMMA LoaderInitInv == Init => LoaderInv
<1> SUFFICES ASSUME Init PROVE LoaderInv
  OBVIOUS
<1>1. LoaderTypeOK
  <2>1. NoProblem.kind \in Problems
    BY DEF NoProblem, Problems
  <2>2. config.max_logs_filesize_byte \in Ints
    BY IntFacts DEF Init
  <2>3. problem = NoProblem /\ pc = "open" /\ next = 1
    BY DEF Init
  <2> QED
    BY <2>1, <2>2, <2>3 DEF LoaderTypeOK
<1>2. DOMAIN config = ConfigFields /\ config.apps = <<>>
  BY DEF Init, ConfigFields
<1> QED
  BY <1>1, <1>2 DEF Init, LoaderInv

\* The steps that look at the file and its text.
LEMMA OpenOrParseInv ==
  ASSUME LoaderInv, OpenFile \/ ParseText
  PROVE  LoaderInv'
<1>1. pc \in {"open", "parse"} /\ document \in Documents /\ LoaderTypeOK
  BY DEF OpenFile, ParseText, LoaderInv
<1>2. document.text \in {"json", "syntax_error", "number_overflow"}
  BY <1>1, LoaderAssumption
<1>3. CASE pc' = "failed"
  <2>1. \/ Throw([kind |-> "cannot_open", field |-> ""])
        \/ /\ document.text # "json"
           /\ Throw([kind |-> document.text, field |-> ""])
    BY <1>3 DEF OpenFile, ParseText, Continue
  <2> QED
    BY <1>2, <2>1, ThrowInv DEF Problems
<1>4. CASE pc' # "failed"
  <2>1. PICK where \in {"parse", "limits"} : Continue(where) /\ UNCHANGED <<next, config>>
    BY <1>4 DEF OpenFile, ParseText, Throw
  <2>2. LoaderTypeOK'
    BY <1>1, <2>1, ContinueTyped DEF LoaderTypeOK
  <2> QED
    BY <1>1, <2>1, <2>2 DEF LoaderInv, Continue
<1> QED
  BY <1>3, <1>4

\* Both limits are read, or the root is no object, or one has a wrong type.
LEMMA ReadLimitsInv ==
  ASSUME LoaderInv, ReadLimits
  PROVE  LoaderInv'
<1> DEFINE root == document.root
           bad == IF root.type = "object" THEN UngettableFields(root, Limits)
                                          ELSE ToSet(Limits)
<1>1. pc = "limits" /\ document \in Documents /\ LoaderTypeOK
  BY DEF ReadLimits, LoaderInv
<1>2. CASE bad # {}
  <2>1. Throw([kind |-> "type", field |-> FirstIn(Limits, bad)])
    BY <1>2 DEF ReadLimits
  <2> QED
    BY <2>1, ThrowInv DEF Problems
<1>3. CASE bad = {}
  <2>1. root.type = "object" /\ UngettableFields(root, Limits) = {}
    BY <1>3, FieldNames
  <2>2. PICK limit \in IntValue("max_logs_filesize_byte", DEFAULT_MAX_LOG_FILESIZE_BYTE) :
          config' = [config EXCEPT
                     !.max_logs_filesize_byte = limit,
                     !.logs_path = IF HasField(root, "logs_path")
                                   THEN root.fields.logs_path.text
                                   ELSE DEFAULT_LOGS_PATH]
    BY <1>3 DEF ReadLimits
  <2>3. Continue("smtp") /\ UNCHANGED next
    BY <1>3 DEF ReadLimits
  <2>4. limit \in Ints
    <3>1. CASE ~HasField(root, "max_logs_filesize_byte")
      BY <2>2, <3>1, IntFacts DEF IntValue
    <3>2. CASE HasField(root, "max_logs_filesize_byte")
      <4> DEFINE v == root.fields["max_logs_filesize_byte"]
      <4>1. WellFormed(v)
        BY <1>1, <2>1, <3>2, DocumentsAssumption DEF FieldsWellFormed, HasField
      <4>2. Gettable("max_logs_filesize_byte", v)
        BY <2>1, <3>2, FieldNames DEF UngettableFields
      <4>3. v.type \in {"integer", "float", "boolean"}
        BY <4>2 DEF Gettable, AppInts
      <4>4. limit \in GetInt(v)
        BY <2>2, <3>2 DEF IntValue
      <4> QED
        BY <4>1, <4>3, <4>4, GetIntFacts
    <3> QED
      BY <3>1, <3>2
  <2>5. /\ DOMAIN config' = ConfigFields
        /\ config'.max_logs_filesize_byte \in Ints
        /\ config'.apps = <<>>
    BY <1>1, <2>2, <2>4 DEF LoaderInv, ConfigFields
  <2>6. LoaderTypeOK'
    BY <1>1, <2>3, <2>5, ContinueTyped DEF LoaderTypeOK
  <2> QED
    BY <1>1, <2>1, <2>3, <2>5, <2>6 DEF LoaderInv, Continue
<1> QED
  BY <1>2, <1>3

\* smtp is complete, and there are apps to look at.
LEMMA ParseSmtpInv ==
  ASSUME LoaderInv, ParseSmtp
  PROVE  LoaderInv'
<1> DEFINE root == document.root
           absent == MissingFields(root, <<"smtp", "apps">>)
           p == ReadProblem(root.fields.smtp, SmtpFields)
<1>1. pc = "smtp" /\ document \in Documents /\ LoaderTypeOK /\ root.type = "object"
  BY DEF ParseSmtp, LoaderInv
<1>2. CASE absent # {}
  <2>1. Throw([kind |-> "missing", field |-> FirstIn(<<"smtp", "apps">>, absent)])
    BY <1>2 DEF ParseSmtp
  <2> QED
    BY <2>1, ThrowInv DEF Problems
<1>3. CASE absent = {} /\ p # NoProblem
  <2>1. Throw(p)
    BY <1>3 DEF ParseSmtp
  <2> QED
    BY <1>3, <2>1, ReadProblemKinds, ThrowInv DEF Problems
<1>4. CASE absent = {} /\ p = NoProblem
  <2>1. HasField(root, "apps")
    BY <1>4 DEF MissingFields, ToSet
  <2>2. /\ Continue("apps") /\ UNCHANGED next
        /\ config' = [config EXCEPT !.smtp =
                        [f \in ToSet(SmtpFields) |-> root.fields.smtp.fields[f].text]]
    BY <1>4 DEF ParseSmtp
  <2>3. /\ DOMAIN config' = ConfigFields
        /\ config'.max_logs_filesize_byte \in Ints
        /\ config'.apps = <<>>
    BY <1>1, <2>2 DEF LoaderInv, LoaderTypeOK, ConfigFields
  <2>4. LoaderTypeOK'
    BY <1>1, <2>2, <2>3, ContinueTyped DEF LoaderTypeOK
  <2> QED
    BY <1>1, <2>1, <2>2, <2>3, <2>4 DEF LoaderInv, Continue
<1> QED
  BY <1>2, <1>3, <1>4

\* apps is an array, and none of its items has been looked at.
LEMMA BeginAppsInv ==
  ASSUME LoaderInv, BeginApps
  PROVE  LoaderInv'
<1> DEFINE apps == document.root.fields.apps
<1>1. /\ pc = "apps" /\ document \in Documents /\ LoaderTypeOK
      /\ HasField(document.root, "apps") /\ next = 1 /\ config.apps = <<>>
  BY DEF BeginApps, LoaderInv
<1>2. CASE apps.type # "array"
  <2>1. Throw([kind |-> "not_array", field |-> "apps"])
    BY <1>2 DEF BeginApps
  <2> QED
    BY <2>1, ThrowInv DEF Problems
<1>3. CASE apps.type = "array"
  <2>1. Continue("app") /\ UNCHANGED <<next, config>>
    BY <1>3 DEF BeginApps
  <2>2. LoaderTypeOK'
    BY <1>1, <2>1, ContinueTyped DEF LoaderTypeOK
  <2>3. Len(Items) \in Nat
    <3>1. WellFormed(apps)
      BY <1>1, DocumentsAssumption DEF FieldsWellFormed, HasField
    <3> QED
      BY <1>3, <3>1 DEF WellFormed, Items
  <2>4. AppsAreListed' /\ AppsOfItems'
    <3>1. config' = config /\ document' = document /\ Items' = Items
      BY <2>1 DEF Continue, Items
    <3>2. AppsAreListed'
      BY <1>1, <1>3, <3>1 DEF AppsAreListed
    <3>3. AppsOfItems
      <4> DEFINE Parsed == UNION { ParsedApps(Items[i].fields) : i \in DOMAIN Items }
      <4>1. config.apps \in Seq(Parsed)
        <5> HIDE DEF Parsed
        <5> QED
          BY <1>1
      <4>2. Len(config.apps) = 0
        BY <1>1
      <4>3. Len(config.apps) <= Len(Items) /\ 1 .. Len(config.apps) = {}
        BY <2>3, <4>2
      <4> QED
        BY <4>1, <4>3 DEF AppsOfItems
    <3>4. AppsOfItems'
      BY <3>1, <3>3 DEF AppsOfItems
    <3> QED
      BY <3>2, <3>4
  <2> QED
    BY <1>1, <2>1, <2>2, <2>4 DEF LoaderInv, Continue
<1> QED
  BY <1>2, <1>3

\* The array of apps and its items are what they seem.
LEMMA ItemFacts ==
  ASSUME document \in Documents, AppsAreListed
  PROVE  /\ Len(Items) \in Nat /\ DOMAIN Items = 1 .. Len(Items)
         /\ \A i \in DOMAIN Items : FieldsWellFormed(Items[i])
<1>1. WellFormed(document.root.fields.apps)
  BY DocumentsAssumption DEF AppsAreListed, FieldsWellFormed, HasField
<1>2. Len(Items) \in Nat /\ DOMAIN Items = 1 .. Len(Items)
  BY <1>1 DEF AppsAreListed, WellFormed, Items
<1>3. \A i \in DOMAIN Items : FieldsWellFormed(Items[i])
  BY DocumentsAssumption DEF AppsAreListed, Items
<1> QED
  BY <1>2, <1>3

\* The next item becomes an app behind the others, or ends the loading.
LEMMA ParseAppInv ==
  ASSUME LoaderInv, ParseApp
  PROVE  LoaderInv'
<1> DEFINE p == ReadProblem(Items[next], AppFields)
           Parsed == UNION { ParsedApps(Items[i].fields) : i \in DOMAIN Items }
<1>1. /\ pc = "app" /\ next <= Len(Items) /\ document \in Documents
      /\ LoaderTypeOK /\ AppsAreListed /\ AppsOfItems
      /\ next = Len(config.apps) + 1 /\ DOMAIN config = ConfigFields
  BY DEF ParseApp, LoaderInv
<1>2. CASE p # NoProblem
  <2>1. Throw(p)
    BY <1>2 DEF ParseApp
  <2> QED
    BY <1>2, <2>1, ReadProblemKinds, ThrowInv DEF Problems
<1>3. CASE p = NoProblem
  <2>1. PICK app \in ParsedApps(Items[next].fields) :
          config' = [config EXCEPT !.apps = Append(config.apps, app)]
    BY <1>3 DEF ParseApp
  <2>2. next' = next + 1 /\ Continue("app")
    BY <1>3 DEF ParseApp
  <2>3. /\ DOMAIN config' = ConfigFields
        /\ config'.max_logs_filesize_byte = config.max_logs_filesize_byte
        /\ config'.apps = Append(config.apps, app)
    BY <1>1, <2>1 DEF ConfigFields
  <2>4. LoaderTypeOK'
    BY <1>1, <2>2, <2>3, ContinueTyped DEF LoaderTypeOK
  <2>5. next \in DOMAIN Items /\ Readable(Items[next]) /\ app \in Parsed
    BY <1>1, <1>3, <2>1, ItemFacts, NoProblemReadable DEF LoaderTypeOK
  <2>6. /\ config'.apps \in Seq(Parsed)
        /\ Len(config'.apps) = next
        /\ \A i \in 1 .. Len(config.apps) : config'.apps[i] = config.apps[i]
        /\ config'.apps[next] = app
    <3>1. config.apps \in Seq(Parsed)
      BY <1>1 DEF AppsOfItems
    <3> HIDE DEF Parsed
    <3> QED
      BY <1>1, <2>3, <2>5, <3>1
  <2>7. AppsOfItems'
    <3>1. Items' = Items
      BY <2>2 DEF Continue, Items
    <3>2. \A i \in 1 .. Len(config'.apps) :
            Readable(Items[i]) /\ config'.apps[i] \in ParsedApps(Items[i].fields)
      BY <1>1, <2>1, <2>5, <2>6 DEF AppsOfItems, LoaderTypeOK
    <3> QED
      BY <1>1, <2>6, <3>1, <3>2 DEF AppsOfItems
  <2>8. AppsAreListed'
    BY <1>1, <2>2 DEF AppsAreListed, Continue
  <2> QED
    BY <1>1, <2>2, <2>3, <2>4, <2>6, <2>7, <2>8 DEF LoaderInv, Continue
<1> QED
  BY <1>2, <1>3

\* A step that leaves the apps and the file alone keeps what is read of it.
LEMMA ReadFrame ==
  ASSUME AppsAreListed, AppsOfItems, UNCHANGED <<document, config>>
  PROVE  AppsAreListed' /\ AppsOfItems' /\ Items' = Items
BY DEF AppsAreListed, AppsOfItems, Items

\* Validation begins with every item read.
LEMMA BeginValidationInv ==
  ASSUME LoaderInv, BeginValidation
  PROVE  LoaderInv'
<1>1. /\ pc = "app" /\ LoaderTypeOK /\ AppsAreListed /\ AppsOfItems
      /\ document \in Documents /\ next = Len(config.apps) + 1
      /\ DOMAIN config = ConfigFields
  BY DEF BeginValidation, LoaderInv
<1>2. Continue("validate") /\ UNCHANGED <<next, config>> /\ UNCHANGED document
  BY DEF BeginValidation, Continue
<1>3. LoaderTypeOK'
  BY <1>1, <1>2, ContinueTyped DEF LoaderTypeOK
<1>4. Len(config.apps) = Len(Items)
  <2>1. Len(config.apps) \in Nat /\ Len(Items) \in Nat
    BY <1>1, ItemFacts DEF AppsOfItems
  <2> QED
    BY <1>1, <2>1 DEF BeginValidation, AppsParsed, AppsOfItems
<1> QED
  BY <1>1, <1>2, <1>3, <1>4, ReadFrame DEF LoaderInv, Continue

\* The apps are validated from the first.
LEMMA ValidateSmtpInv ==
  ASSUME LoaderInv, ValidateSmtp
  PROVE  LoaderInv'
<1>1. /\ pc = "validate" /\ LoaderTypeOK /\ AppsAreListed /\ AppsOfItems
      /\ document \in Documents /\ Len(config.apps) = Len(Items)
      /\ DOMAIN config = ConfigFields
  BY DEF ValidateSmtp, LoaderInv
<1>2. \/ \E field : Throw([kind |-> "invalid", field |-> field])
      \/ /\ config.apps # <<>> /\ next' = 1
         /\ Continue("validate_app") /\ UNCHANGED config
  BY DEF ValidateSmtp
<1>3. CASE \E field : Throw([kind |-> "invalid", field |-> field])
  BY <1>3, ThrowInv DEF Problems
<1>4. CASE /\ config.apps # <<>> /\ next' = 1
           /\ Continue("validate_app") /\ UNCHANGED config
  <2>1. LoaderTypeOK'
    BY <1>1, <1>4, ContinueTyped DEF LoaderTypeOK
  <2>2. ValidUpTo(0)' /\ Len(config.apps) \in Nat
    BY <1>1 DEF ValidUpTo, AppsOfItems
  <2>3. UNCHANGED document
    BY <1>4 DEF Continue
  <2> QED
    BY <1>1, <1>4, <2>1, <2>2, <2>3, ReadFrame DEF LoaderInv, Continue
<1> QED
  BY <1>2, <1>3, <1>4

\* An app that passes every check extends those that did.
LEMMA ValidateAppInv ==
  ASSUME LoaderInv, ValidateApp
  PROVE  LoaderInv'
<1> DEFINE failed == FailedChecks(config.apps[next])
<1>1. /\ pc = "validate_app" /\ LoaderTypeOK /\ AppsAreListed /\ AppsOfItems
      /\ document \in Documents /\ Len(config.apps) = Len(Items)
      /\ DOMAIN config = ConfigFields /\ config.apps # <<>>
      /\ next <= Len(config.apps) /\ ValidUpTo(next - 1)
  BY DEF ValidateApp, LoaderInv
<1>2. CASE failed # {}
  <2>1. Throw([kind |-> "invalid", field |-> FirstIn(Checks, failed)])
    BY <1>2 DEF ValidateApp
  <2> QED
    BY <2>1, ThrowInv DEF Problems
<1>3. CASE failed = {}
  <2>1. Continue("validate_app") /\ next' = next + 1 /\ UNCHANGED <<config, document>>
    BY <1>3 DEF ValidateApp, Continue
  <2>2. next \in Nat \ {0} /\ Len(config.apps) \in Nat
    BY <1>1 DEF LoaderTypeOK, AppsOfItems
  <2>3. LoaderTypeOK'
    BY <1>1, <2>1, <2>2, ContinueTyped DEF LoaderTypeOK
  <2>4. ValidUpTo(next - 1)'
    <3>1. ASSUME NEW i \in 1 .. next PROVE FailedChecks(config.apps[i]) = {}
      <4>1. CASE i = next
        BY <1>3, <4>1
      <4>2. CASE i # next
        <5>1. i \in 1 .. next - 1
          BY <2>2, <4>2
        <5> QED
          BY <1>1, <5>1 DEF ValidUpTo
      <4> QED
        BY <4>1, <4>2
    <3>2. next' - 1 = next
      BY <2>1, <2>2
    <3> QED
      BY <2>1, <3>1, <3>2 DEF ValidUpTo
  <2> QED
    BY <1>1, <2>1, <2>2, <2>3, <2>4, ReadFrame DEF LoaderInv, Continue
<1> QED
  BY <1>2, <1>3

\* With the last app validated, the configuration is loaded.
LEMMA LoaderFinishInv ==
  ASSUME LoaderInv, Finish
  PROVE  LoaderInv'
<1>1. /\ pc = "validate_app" /\ LoaderTypeOK /\ AppsAreListed /\ AppsOfItems
      /\ document \in Documents /\ Len(config.apps) = Len(Items)
      /\ DOMAIN config = ConfigFields /\ config.apps # <<>>
      /\ next <= Len(config.apps) + 1 /\ ValidUpTo(next - 1)
  BY DEF Finish, LoaderInv
<1>2. Continue("loaded") /\ UNCHANGED <<next, config, document>>
  BY DEF Finish, Continue
<1>3. LoaderTypeOK'
  BY <1>1, <1>2, ContinueTyped DEF LoaderTypeOK
<1>4. next \in Nat /\ Len(config.apps) \in Nat /\ next - 1 = Len(config.apps)
  BY <1>1 DEF LoaderTypeOK, AppsOfItems, Finish, AllValidated
<1>5. ValidUpTo(Len(config.apps))'
  BY <1>1, <1>2, <1>4 DEF ValidUpTo
<1> QED
  BY <1>1, <1>2, <1>3, <1>5, ReadFrame DEF LoaderInv, Continue

\* Every step of loadConfig keeps the invariant.
LEMMA LoaderNextInv ==
  ASSUME LoaderInv, [Next]_loaderVars
  PROVE  LoaderInv'
<1>1. CASE Next
  BY <1>1, OpenOrParseInv, ReadLimitsInv, ParseSmtpInv, BeginAppsInv, ParseAppInv,
     BeginValidationInv, ValidateSmtpInv, ValidateAppInv, LoaderFinishInv
  DEF Next
<1>2. CASE UNCHANGED loaderVars
  BY <1>2
  DEF loaderVars, LoaderInv, LoaderTypeOK, AppsAreListed, AppsOfItems, ValidUpTo, Items
<1> QED
  BY <1>1, <1>2

----------------------------------------------------------------------------
\* The inductive invariant of the loading, for every document.
THEOREM LoaderInvariantHolds == Spec => []LoaderInv
BY LoaderInitInv, LoaderNextInv, PTL DEF Spec

\* The loader's variables keep their types, and an exception has its kind.
THEOREM LoaderTypeCorrect == Spec => []LoaderTypeOK
<1>1. LoaderInv => LoaderTypeOK
  BY DEF LoaderInv
<1> QED
  BY <1>1, LoaderInvariantHolds, PTL

\* Whatever document it was loaded from, a configuration has an app, and
\* each app's request type, wait, budget and status are what health_check needs.
THEOREM LoadedCanBeBuilt == Spec => []LoadedIsBuildable
<1>1. LoaderInv => LoadedIsBuildable
  <2> SUFFICES ASSUME LoaderInv, pc = "loaded",
                      NEW i \in DOMAIN config.apps
               PROVE  /\ IsValidRequestType(config.apps[i].request_type)
                      /\ config.apps[i].timeout_seconds >= 1
                      /\ config.apps[i].max_retries >= 0
                      /\ config.apps[i].healthy_response_status_code \in 200 .. 599
    BY DEF LoadedIsBuildable, LoaderInv
  <2> DEFINE app == config.apps[i]
  <2>1. /\ AppsAreListed /\ AppsOfItems /\ document \in Documents
        /\ ValidUpTo(Len(config.apps)) /\ Len(config.apps) = Len(Items)
    BY DEF LoaderInv
  <2>2. i \in 1 .. Len(config.apps)
    BY <2>1 DEF AppsOfItems
  <2>3. Readable(Items[i]) /\ app \in ParsedApps(Items[i].fields)
    BY <2>1, <2>2 DEF AppsOfItems
  <2>4. FieldsWellFormed(Items[i])
    BY <2>1, <2>2, ItemFacts
  <2>5. app.timeout_seconds \in Int /\ app.max_retries \in Int
    BY <2>3, <2>4, ParsedAppFacts
  <2>6. FailedChecks(app) = {}
    BY <2>1, <2>2 DEF ValidUpTo
  <2>7. /\ IsValidRequestType(app.request_type)
        /\ app.healthy_response_status_code \in 200 .. 599
        /\ ~(app.timeout_seconds <= 0) /\ ~(app.max_retries < 0)
    BY <2>6, FieldNames DEF FailedChecks
  <2> QED
    BY <2>5, <2>7
<1> QED
  BY <1>1, LoaderInvariantHolds, PTL

\* A loaded configuration is the one in the file: every app, in order, and
\* every number that an int can hold, for every width of int.
THEOREM LoadedIsAsWritten == Spec => []LoadedAsWritten
<1>1. LoaderInv => LoadedAsWritten
  <2> SUFFICES ASSUME LoaderInv, pc = "loaded"
               PROVE  LoadedAsWritten
    BY DEF LoadedAsWritten
  <2>1. /\ AppsAreListed /\ AppsOfItems /\ document \in Documents
        /\ Len(config.apps) = Len(Items)
    BY DEF LoaderInv
  <2>2. ASSUME NEW i \in DOMAIN Items
        PROVE  /\ Readable(Items[i]) /\ FieldsWellFormed(Items[i])
               /\ config.apps[i] \in ParsedApps(Items[i].fields)
    BY <2>1, ItemFacts DEF AppsOfItems
  <2> QED
    BY <2>1, <2>2, ParsedAppFacts DEF LoadedAsWritten
<1> QED
  BY <1>1, LoaderInvariantHolds, PTL
----------------------------------------------------------------------------
\* What is accepted, and what is reported of a document that is not.

LimitsGettable == UngettableFields(document.root, Limits) = {}

SmtpRead ==
  /\ HasField(document.root, "smtp")
  /\ \A f \in ToSet(SmtpFields) :
       LET smtp == document.root.fields.smtp
       IN  /\ HasField(smtp, f) /\ smtp.fields[f].type = "string"
           /\ config.smtp[f] = smtp.fields[f].text

SmtpComplete == \A f \in ToSet(SmtpFields) : config.smtp[f] # ""

\* What is known of the document by how far the loading got.
ReadInv ==
  /\ pc \notin {"open", "failed"} => document.opens
  /\ pc \notin {"open", "parse", "failed"} => document.text = "json"
  /\ pc \notin {"open", "parse", "limits", "failed"} =>
       document.root.type = "object" /\ LimitsGettable
  /\ pc \notin {"open", "parse", "limits", "smtp", "failed"} => SmtpRead
  /\ pc \in {"validate_app", "loaded"} => SmtpComplete
  /\ pc = "failed" => ~Acceptable(document)

\* A set of numbers that is not empty has a least one.
LEMMA LeastNumber ==
  ASSUME NEW I, I \subseteq Nat, I # {}
  PROVE  \E x \in I : \A y \in I : x <= y
<1> DEFINE R == {ss \in Nat \X Nat : ss[1] < ss[2]}
<1>1. IsWellFoundedOn(R, Nat)
  BY NatLessThanWellFounded DEF OpToRel
<1>2. PICK x \in I : \A y \in I : <<y, x>> \notin R
  <2> HIDE DEF R
  <2> QED
    BY <1>1, WFMin
<1>3. ASSUME NEW y \in I PROVE x <= y
  <2>1. x \in Nat /\ y \in Nat
    OBVIOUS
  <2>2. ~(y < x)
    BY <1>2, <2>1
  <2> QED
    BY <2>1, <2>2
<1> QED
  BY <1>3

\* FirstIn is what it says: the first field of the list that is bad.
LEMMA FirstInFacts ==
  ASSUME NEW fields, Len(fields) \in Nat, DOMAIN fields = 1 .. Len(fields),
         NEW bad, bad # {}, bad \subseteq ToSet(fields)
  PROVE  /\ FirstIn(fields, bad) \in bad
         /\ NothingBefore(fields, FirstIn(fields, bad), bad)
<1> DEFINE I == { i \in 1 .. Len(fields) : fields[i] \in bad }
<1>1. I # {} /\ I \subseteq Nat
  BY DEF ToSet
<1>2. PICK x \in I : \A y \in I : x <= y
  BY <1>1, LeastNumber
<1>3. Min(I) \in I /\ \A y \in I : Min(I) <= y
  <2> HIDE DEF I
  <2> QED
    BY <1>2 DEF Min
<1>4. SelectInSeq(fields, LAMBDA f : f \in bad) = Min(I)
  BY <1>1 DEF SelectInSeq
<1>5. FirstIn(fields, bad) = fields[Min(I)]
  BY <1>4 DEF FirstIn
<1>6. \A j \in 1 .. Min(I) - 1 : j \in 1 .. Len(fields) /\ fields[j] \notin bad
  BY <1>3
<1>7. Min(I) \in DOMAIN fields /\ fields[Min(I)] \in bad
  BY <1>3
<1> QED
  BY <1>5, <1>6, <1>7 DEF NothingBefore

\* The list of checks is a sequence.
LEMMA ChecksListed == Len(Checks) = 9 /\ DOMAIN Checks = 1 .. 9
BY DEF Checks

\* An item that parse_app can read gives no exception, and the other way round.
LEMMA ReadableNoProblem ==
  ASSUME NEW v, Readable(v)
  PROVE  ReadProblem(v, AppFields) = NoProblem
<1>1. MissingFields(v, AppFields) = {} /\ UngettableFields(v, AppFields) = {}
  BY DEF Readable, MissingFields, UngettableFields, HasField
<1> QED
  BY <1>1 DEF ReadProblem

\* The apps of a loaded configuration are its items', each of which could be
\* read and passes every check.
LEMMA LoadedFromItems ==
  (LoaderInv /\ pc = "loaded") =>
    /\ document \in Documents /\ AppsAreListed
    /\ DOMAIN Items = 1 .. Len(config.apps)
    /\ Len(config.apps) \in Nat
    /\ config.apps = [i \in 1 .. Len(config.apps) |-> config.apps[i]]
    /\ \A i \in 1 .. Len(config.apps) :
         /\ ReadProblem(Items[i], AppFields) = NoProblem
         /\ config.apps[i] \in ParsedApps(Items[i].fields)
         /\ FailedChecks(config.apps[i]) = {}
<1> SUFFICES ASSUME LoaderInv, pc = "loaded"
             PROVE  /\ document \in Documents /\ AppsAreListed
                    /\ DOMAIN Items = 1 .. Len(config.apps)
                    /\ Len(config.apps) \in Nat
                    /\ config.apps = [i \in 1 .. Len(config.apps) |-> config.apps[i]]
                    /\ \A i \in 1 .. Len(config.apps) :
                         /\ ReadProblem(Items[i], AppFields) = NoProblem
                         /\ config.apps[i] \in ParsedApps(Items[i].fields)
                         /\ FailedChecks(config.apps[i]) = {}
  OBVIOUS
<1>1. /\ document \in Documents /\ AppsAreListed /\ AppsOfItems
      /\ Len(config.apps) = Len(Items) /\ ValidUpTo(Len(config.apps))
  BY DEF LoaderInv
<1>2. DOMAIN Items = 1 .. Len(Items)
  BY <1>1, ItemFacts
<1>3. /\ Len(config.apps) \in Nat
      /\ config.apps = [i \in 1 .. Len(config.apps) |-> config.apps[i]]
  BY <1>1 DEF AppsOfItems
<1>4. ASSUME NEW i \in 1 .. Len(config.apps)
      PROVE  /\ ReadProblem(Items[i], AppFields) = NoProblem
             /\ config.apps[i] \in ParsedApps(Items[i].fields)
             /\ FailedChecks(config.apps[i]) = {}
  BY <1>1, ReadableNoProblem DEF AppsOfItems, ValidUpTo
<1> QED
  BY <1>1, <1>2, <1>3, <1>4

\* An app as it has to be written is one that parse_app can read.
LEMMA AcceptableIsReadable ==
  ASSUME NEW v, AcceptableApp(v)
  PROVE  Readable(v)
<1>1. /\ v.type = "object" /\ ToSet(AppFields) \subseteq DOMAIN v.fields
      /\ \A f \in {"name", "url", "path", "request_type"} : v.fields[f].type = "string"
      /\ v.fields["active"].type = "boolean"
      /\ \A f \in AppInts : v.fields[f].type \in {"integer", "float", "boolean"}
  BY DEF AcceptableApp, NonEmptyString, NumberIn, AppInts
<1>2. /\ v.fields["admins"].type = "array"
      /\ \A i \in DOMAIN v.fields["admins"].items : v.fields["admins"].items[i].type = "string"
  BY DEF AcceptableApp, NonEmptyString
<1>3. ASSUME NEW f \in ToSet(AppFields) PROVE Gettable(f, v.fields[f])
  BY <1>1, <1>2, FieldNames DEF Gettable, AppInts
<1> QED
  BY <1>1, <1>3 DEF Readable
\* The fields of a parsed app that are checked, and where they come from.
LEMMA ParsedAppShape ==
  ASSUME NEW v, NEW app \in ParsedApps(v.fields)
  PROVE  /\ app.name = v.fields.name.text /\ app.url = v.fields.url.text
         /\ app.path = v.fields.path.text
         /\ app.request_type = v.fields.request_type.text
         /\ DOMAIN app.admins = DOMAIN v.fields.admins.items
         /\ app.admins = [i \in DOMAIN app.admins |-> app.admins[i]]
         /\ \A i \in DOMAIN app.admins : app.admins[i] = v.fields.admins.items[i].text
         /\ app.healthy_response_status_code \in GetInt(v.fields.healthy_response_status_code)
         /\ app.timeout_seconds \in GetInt(v.fields.timeout_seconds)
         /\ app.max_retries \in GetInt(v.fields.max_retries)
BY DEF ParsedApps

\* No check of validate_app fails for an app as it has to be written, whichever
\* numbers get<int> made of it.
LEMMA AcceptablePasses ==
  ASSUME NEW v, AcceptableApp(v), FieldsWellFormed(v),
         NEW app \in ParsedApps(v.fields)
  PROVE  FailedChecks(app) = {}
<1> DEFINE items == v.fields.admins.items
<1>0. /\ app.name = v.fields.name.text /\ app.url = v.fields.url.text
      /\ app.path = v.fields.path.text
      /\ app.request_type = v.fields.request_type.text
      /\ DOMAIN app.admins = DOMAIN items
      /\ \A i \in DOMAIN app.admins : app.admins[i] = items[i].text
      /\ app.healthy_response_status_code \in GetInt(v.fields.healthy_response_status_code)
      /\ app.timeout_seconds \in GetInt(v.fields.timeout_seconds)
      /\ app.max_retries \in GetInt(v.fields.max_retries)
  BY ParsedAppShape
<1>1. app.name # "" /\ app.url # "" /\ app.path # ""
  BY <1>0 DEF AcceptableApp, NonEmptyString
<1>2. IsValidRequestType(app.request_type)
  BY <1>0 DEF AcceptableApp
<1>3. app.admins # <<>>
  <2>1. Len(items) \in Nat /\ items = [i \in 1 .. Len(items) |-> items[i]] /\ items # <<>>
    BY FieldNames DEF AcceptableApp, FieldsWellFormed, WellFormed
  <2>2. Len(items) # 0
    <3> SUFFICES ASSUME Len(items) = 0 PROVE FALSE
      OBVIOUS
    <3>1. items = [i \in {} |-> items[i]]
      BY <2>1
    <3> QED
      BY <2>1, <3>1
  <2>3. 1 \in DOMAIN app.admins
    BY <1>0, <2>1, <2>2
  <2> QED
    BY <2>3
<1>4. \A i \in DOMAIN app.admins : app.admins[i] \in ValidEmails
  <2>1. \A i \in DOMAIN items : items[i].text \in ValidEmails
    BY DEF AcceptableApp
  <2> QED
    BY <1>0, <2>1
<1>5. /\ app.healthy_response_status_code \in 200 .. 599
      /\ app.timeout_seconds \in 1 .. Half - 1
      /\ app.max_retries \in 0 .. Half - 1
  <2>1. /\ GetInt(v.fields.healthy_response_status_code) \subseteq 200 .. 599
        /\ GetInt(v.fields.timeout_seconds) \subseteq 1 .. Half - 1
        /\ GetInt(v.fields.max_retries) \subseteq 0 .. Half - 1
    BY DEF AcceptableApp, NumberIn
  <2> QED
    BY <1>0, <2>1
<1>6. ~(app.timeout_seconds <= 0) /\ ~(app.max_retries < 0)
  BY <1>5, IntFacts
<1> QED
  BY <1>1, <1>2, <1>3, <1>4, <1>5, <1>6 DEF FailedChecks

\* Only a float that no int holds can be read in more than one way.
LEMMA OneReading ==
  ASSUME NEW v, v.type \in {"integer", "float", "boolean"},
         v.type = "float" => Truncate(v.halves) \in Ints,
         NEW n \in GetInt(v)
  PROVE  GetInt(v) = {n}
BY DEF GetInt

\* An app that parse_app read and validate_app passed is as it has to be
\* written, unless one of its numbers is a float that no int holds.
LEMMA PassedIsAcceptable ==
  ASSUME NEW v, Readable(v), FieldsWellFormed(v),
         NEW app \in ParsedApps(v.fields), FailedChecks(app) = {},
         \A f \in AppInts :
           v.fields[f].type = "float" => Truncate(v.fields[f].halves) \in Ints
  PROVE  AcceptableApp(v)
<1> DEFINE items == v.fields.admins.items
<1>0. /\ app.name = v.fields.name.text /\ app.url = v.fields.url.text
      /\ app.path = v.fields.path.text
      /\ app.request_type = v.fields.request_type.text
      /\ DOMAIN app.admins = DOMAIN items
      /\ \A i \in DOMAIN app.admins : app.admins[i] = items[i].text
      /\ app.healthy_response_status_code \in GetInt(v.fields.healthy_response_status_code)
      /\ app.timeout_seconds \in GetInt(v.fields.timeout_seconds)
      /\ app.max_retries \in GetInt(v.fields.max_retries)
  BY ParsedAppShape
<1>1. \A f \in {"name", "url", "path"} : app[f] # ""
  BY FieldNames, Zenon DEF FailedChecks
<1>7. /\ app.admins # <<>> /\ IsValidRequestType(app.request_type)
      /\ app.healthy_response_status_code \in 200 .. 599
      /\ ~(app.timeout_seconds <= 0) /\ ~(app.max_retries < 0)
      /\ \A i \in DOMAIN app.admins : app.admins[i] \in ValidEmails
  BY FieldNames DEF FailedChecks
<1>2. /\ v.type = "object" /\ ToSet(AppFields) \subseteq DOMAIN v.fields
      /\ \A f \in {"name", "url", "path", "request_type"} : v.fields[f].type = "string"
      /\ v.fields["active"].type = "boolean"
      /\ v.fields["admins"].type = "array"
      /\ \A i \in DOMAIN items : items[i].type = "string"
      /\ \A f \in AppInts : v.fields[f].type \in {"integer", "float", "boolean"}
  BY FieldNames DEF Readable, Gettable, AppInts
<1>3. \A f \in {"name", "url", "path", "request_type"} : NonEmptyString(v.fields[f])
  <2>1. v.fields["request_type"].text # ""
    BY <1>0, <1>7 DEF IsValidRequestType
  <2>2. \A f \in {"name", "url", "path"} : v.fields[f].text # ""
    BY <1>0, <1>1
  <2> QED
    BY <1>2, <2>1, <2>2 DEF NonEmptyString
<1>4. items # <<>>
  <2> SUFFICES ASSUME items = <<>> PROVE app.admins = <<>>
    BY <1>7
  <2>1. app.admins = [i \in DOMAIN app.admins |-> app.admins[i]]
    BY ParsedAppShape
  <2>2. DOMAIN app.admins = {}
    BY <1>0
  <2> QED
    BY <2>1, <2>2
<1>5. \A i \in DOMAIN items : NonEmptyString(items[i]) /\ items[i].text \in ValidEmails
  <2>1. \A i \in DOMAIN items : items[i].text \in ValidEmails
    BY <1>0, <1>7
  <2>2. \A i \in DOMAIN items : items[i].text # ""
    BY <2>1, EmailAssumption, Zenon
  <2> QED
    BY <1>2, <2>1, <2>2 DEF NonEmptyString
<1>6. /\ NumberIn(v.fields.healthy_response_status_code, 200 .. 599)
      /\ NumberIn(v.fields.timeout_seconds, 1 .. Half - 1)
      /\ NumberIn(v.fields.max_retries, 0 .. Half - 1)
  <2>1. /\ app.timeout_seconds \in Ints /\ app.max_retries \in Ints
    <3>1. \A f \in AppInts : WellFormed(v.fields[f])
      BY <1>2, FieldNames DEF FieldsWellFormed, AppInts
    <3>2. \A f \in AppInts : GetInt(v.fields[f]) \subseteq Ints
      BY <1>2, <3>1, GetIntFacts
    <3> QED
      BY <1>0, <3>2 DEF AppInts
  <2>2. app.timeout_seconds \in 1 .. Half - 1 /\ app.max_retries \in 0 .. Half - 1
    BY <1>7, <2>1, IntFacts DEF Ints
  <2> QED
    <3>1. \A f \in AppInts : GetInt(v.fields[f]) = {app[f]}
      BY <1>0, <1>2, OneReading DEF AppInts
    <3>2. /\ GetInt(v.fields.healthy_response_status_code)
               = {app.healthy_response_status_code}
          /\ GetInt(v.fields.timeout_seconds) = {app.timeout_seconds}
          /\ GetInt(v.fields.max_retries) = {app.max_retries}
      BY <3>1 DEF AppInts
    <3>3. /\ v.fields.healthy_response_status_code.type \in {"integer", "float", "boolean"}
          /\ v.fields.timeout_seconds.type \in {"integer", "float", "boolean"}
          /\ v.fields.max_retries.type \in {"integer", "float", "boolean"}
      BY <1>2 DEF AppInts
    <3> QED
      BY <1>7, <2>2, <3>2, <3>3 DEF NumberIn
<1> QED
  BY <1>0, <1>2, <1>3, <1>4, <1>5, <1>6, <1>7 DEF AcceptableApp
----------------------------------------------------------------------------
\* Nothing is read yet.
LEMMA ReadInit == Init => ReadInv
BY DEF Init, ReadInv

\* The file cannot be opened, or its text is no JSON.
LEMMA OpenOrParseRead ==
  ASSUME LoaderInv, ReadInv, OpenFile \/ ParseText
  PROVE  ReadInv'
<1>1. CASE OpenFile
  <2>1. document.opens \in BOOLEAN
    BY LoaderAssumption DEF LoaderInv
  <2> QED
    BY <1>1, <2>1 DEF OpenFile, Continue, Throw, ReadInv, Acceptable
<1>2. CASE ParseText
  BY <1>2 DEF ParseText, Continue, Throw, ReadInv, Acceptable
<1> QED
  BY <1>1, <1>2

\* A limit that cannot be read is not as it has to be written.
LEMMA ReadLimitsRead ==
  ASSUME LoaderInv, ReadInv, ReadLimits
  PROVE  ReadInv'
<1> DEFINE root == document.root
           bad == IF root.type = "object" THEN UngettableFields(root, Limits)
                                          ELSE ToSet(Limits)
<1>1. pc = "limits" /\ document.opens /\ document.text = "json"
  BY DEF ReadLimits, ReadInv
<1>2. CASE bad # {}
  <2>1. pc' = "failed" /\ UNCHANGED document
    BY <1>2 DEF ReadLimits, Throw
  <2>2. ~Acceptable(document)
    <3> SUFFICES ASSUME Acceptable(document) PROVE FALSE
      OBVIOUS
    <3>1. /\ root.type = "object"
          /\ "max_logs_filesize_byte" \in DOMAIN root.fields =>
               NumberIn(root.fields["max_logs_filesize_byte"], Ints)
          /\ "logs_path" \in DOMAIN root.fields => root.fields["logs_path"].type = "string"
      BY DEF Acceptable
    <3>2. PICK f \in ToSet(Limits) : HasField(root, f) /\ ~Gettable(f, root.fields[f])
      BY <1>2, <3>1 DEF UngettableFields
    <3> QED
      BY <3>1, <3>2, FieldNames DEF HasField, Gettable, NumberIn, AppInts
  <2> QED
    BY <2>1, <2>2 DEF ReadInv
<1>3. CASE bad = {}
  <2>1. root.type = "object" /\ LimitsGettable
    BY <1>3, FieldNames DEF LimitsGettable
  <2>2. pc' = "smtp" /\ UNCHANGED document
    BY <1>3 DEF ReadLimits, Continue
  <2> QED
    BY <1>1, <2>1, <2>2 DEF ReadInv, LimitsGettable
<1> QED
  BY <1>2, <1>3

\* An smtp that cannot be read is not as it has to be written.
LEMMA ParseSmtpRead ==
  ASSUME LoaderInv, ReadInv, ParseSmtp
  PROVE  ReadInv'
<1> DEFINE root == document.root
           smtp == root.fields.smtp
           absent == MissingFields(root, <<"smtp", "apps">>)
           p == ReadProblem(smtp, SmtpFields)
<1>1. /\ pc = "smtp" /\ document.opens /\ document.text = "json"
      /\ root.type = "object" /\ LimitsGettable
  BY DEF ParseSmtp, ReadInv
<1>2. CASE absent # {}
  <2>1. pc' = "failed" /\ UNCHANGED document
    BY <1>2 DEF ParseSmtp, Throw
  <2>2. ~Acceptable(document)
    BY <1>2 DEF Acceptable, MissingFields, HasField, ToSet
  <2> QED
    BY <2>1, <2>2 DEF ReadInv
<1>3. CASE absent = {} /\ p # NoProblem
  <2>1. pc' = "failed" /\ UNCHANGED document
    BY <1>3 DEF ParseSmtp, Throw
  <2>2. ~Acceptable(document)
    <3> SUFFICES ASSUME Acceptable(document) PROVE p = NoProblem
      BY <1>3
    <3>1. \A f \in ToSet(SmtpFields) : HasField(smtp, f) /\ smtp.fields[f].type = "string"
      BY DEF Acceptable, NonEmptyString
    <3>2. \A f \in ToSet(SmtpFields) : Gettable(f, smtp.fields[f])
      BY <3>1, FieldNames DEF Gettable, AppInts
    <3>3. MissingFields(smtp, SmtpFields) = {} /\ UngettableFields(smtp, SmtpFields) = {}
      BY <3>1, <3>2 DEF MissingFields, UngettableFields
    <3> QED
      BY <3>3 DEF ReadProblem
  <2> QED
    BY <2>1, <2>2 DEF ReadInv
<1>4. CASE absent = {} /\ p = NoProblem
  <2>1. /\ pc' = "apps" /\ UNCHANGED document
        /\ config' = [config EXCEPT !.smtp = [f \in ToSet(SmtpFields) |-> smtp.fields[f].text]]
    BY <1>4 DEF ParseSmtp, Continue
  <2>2. config'.smtp = [f \in ToSet(SmtpFields) |-> smtp.fields[f].text]
    BY <2>1 DEF LoaderInv, ConfigFields
  <2>3. HasField(root, "smtp")
    BY <1>4 DEF MissingFields, ToSet
  <2>4. MissingFields(smtp, SmtpFields) = {} /\ UngettableFields(smtp, SmtpFields) = {}
    BY <1>4 DEF ReadProblem, NoProblem
  <2>5. \A f \in ToSet(SmtpFields) : HasField(smtp, f) /\ smtp.fields[f].type = "string"
    BY <2>4, FieldNames DEF MissingFields, UngettableFields, Gettable, AppInts
  <2>6. SmtpRead'
    BY <2>1, <2>2, <2>3, <2>5 DEF SmtpRead
  <2> QED
    BY <1>1, <2>1, <2>6 DEF ReadInv, LimitsGettable
<1> QED
  BY <1>2, <1>3, <1>4
\* Steps that leave the file and smtp alone keep what is read of them.
LEMMA ReadFrameInv ==
  ASSUME ReadInv, UNCHANGED document, config'.smtp = config.smtp,
         pc \notin {"open", "parse", "limits", "smtp", "failed"},
         pc' \notin {"open", "parse", "limits", "smtp", "failed"},
         pc' \in {"validate_app", "loaded"} => SmtpComplete
  PROVE  ReadInv'
BY DEF ReadInv, LimitsGettable, SmtpRead, SmtpComplete

\* The apps have to be an array.
LEMMA BeginAppsRead ==
  ASSUME LoaderInv, ReadInv, BeginApps
  PROVE  ReadInv'
<1>1. CASE document.root.fields.apps.type = "array"
  BY <1>1, ReadFrameInv DEF BeginApps, Continue
<1>2. CASE document.root.fields.apps.type # "array"
  BY <1>2 DEF BeginApps, Throw, Acceptable, ReadInv
<1> QED
  BY <1>1, <1>2

\* An item that cannot be read is not as it has to be written.
LEMMA ParseAppRead ==
  ASSUME LoaderInv, ReadInv, ParseApp
  PROVE  ReadInv'
<1>1. /\ pc = "app" /\ LoaderTypeOK /\ AppsAreListed /\ document \in Documents
      /\ DOMAIN config = ConfigFields
  BY DEF ParseApp, LoaderInv
<1>2. next \in DOMAIN Items
  BY <1>1, ItemFacts DEF ParseApp, LoaderTypeOK
<1>3. CASE ReadProblem(Items[next], AppFields) # NoProblem
  <2>1. pc' = "failed" /\ UNCHANGED document
    BY <1>3 DEF ParseApp, Throw
  <2>2. ~AcceptableApp(Items[next])
    BY <1>3, AcceptableIsReadable, ReadableNoProblem
  <2>3. ~Acceptable(document)
    BY <1>2, <2>2 DEF Acceptable, Items
  <2> QED
    BY <2>1, <2>3 DEF ReadInv
<1>4. CASE ReadProblem(Items[next], AppFields) = NoProblem
  <2>1. /\ pc' = "app" /\ UNCHANGED document
        /\ \E app : config' = [config EXCEPT !.apps = Append(config.apps, app)]
    BY <1>4 DEF ParseApp, Continue
  <2>2. config'.smtp = config.smtp
    BY <2>1
  <2> QED
    BY <1>1, <2>1, <2>2, ReadFrameInv
<1> QED
  BY <1>3, <1>4

\* Nothing of smtp may be empty, nor the list of apps.
LEMMA ValidateSmtpRead ==
  ASSUME LoaderInv, ReadInv, ValidateSmtp
  PROVE  ReadInv'
<1> DEFINE empty == { f \in ToSet(SmtpFields) : config.smtp[f] = "" }
<1>1. /\ pc = "validate" /\ SmtpRead /\ AppsAreListed /\ AppsOfItems
      /\ document \in Documents /\ Len(config.apps) = Len(Items)
  BY DEF ValidateSmtp, LoaderInv, ReadInv
<1>2. CASE empty # {}
  <2>1. pc' = "failed" /\ UNCHANGED document
    BY <1>2 DEF ValidateSmtp, Throw
  <2>2. PICK f \in ToSet(SmtpFields) : config.smtp[f] = ""
    BY <1>2
  <2>3. document.root.fields.smtp.fields[f].text = ""
    BY <1>1, <2>2, Zenon DEF SmtpRead
  <2>4. ~Acceptable(document)
    BY <2>3 DEF Acceptable, NonEmptyString
  <2> QED
    BY <2>1, <2>4 DEF ReadInv
<1>3. CASE empty = {} /\ config.apps = <<>>
  <2>1. pc' = "failed" /\ UNCHANGED document
    BY <1>3 DEF ValidateSmtp, Throw
  <2>2. Items = <<>>
    <3>1. Len(Items) = 0
      BY <1>1, <1>3
    <3>2. WellFormed(document.root.fields.apps)
      BY <1>1, DocumentsAssumption DEF AppsAreListed, FieldsWellFormed, HasField
    <3>3. Items = [i \in 1 .. Len(Items) |-> Items[i]]
      BY <1>1, <3>2 DEF WellFormed, Items, AppsAreListed
    <3> QED
      BY <3>1, <3>3
  <2>3. ~Acceptable(document)
    BY <2>2 DEF Acceptable, Items
  <2> QED
    BY <2>1, <2>3 DEF ReadInv
<1>4. CASE empty = {} /\ config.apps # <<>>
  <2>1. pc' = "validate_app" /\ UNCHANGED <<document, config>>
    BY <1>4 DEF ValidateSmtp, Continue
  <2>2. SmtpComplete
    BY <1>4, Zenon DEF SmtpComplete
  <2> QED
    BY <1>1, <2>1, <2>2, ReadFrameInv
<1> QED
  BY <1>2, <1>3, <1>4

\* An app that fails a check is not as it has to be written.
LEMMA ValidateAppRead ==
  ASSUME LoaderInv, ReadInv, ValidateApp
  PROVE  ReadInv'
<1> DEFINE failed == FailedChecks(config.apps[next])
<1>1. /\ pc = "validate_app" /\ LoaderTypeOK /\ AppsAreListed /\ AppsOfItems
      /\ document \in Documents /\ next <= Len(config.apps) /\ SmtpComplete
  BY DEF ValidateApp, LoaderInv, ReadInv
<1>2. CASE failed # {}
  <2>1. pc' = "failed" /\ UNCHANGED document
    BY <1>2 DEF ValidateApp, Throw
  <2>2. next \in 1 .. Len(config.apps) /\ next \in DOMAIN Items
    BY <1>1, ItemFacts DEF LoaderTypeOK, AppsOfItems
  <2>3. ~AcceptableApp(Items[next])
    BY <1>1, <1>2, <2>2, ItemFacts, AcceptablePasses DEF AppsOfItems
  <2>4. ~Acceptable(document)
    BY <2>2, <2>3 DEF Acceptable, Items
  <2> QED
    BY <2>1, <2>4 DEF ReadInv
<1>3. CASE failed = {}
  BY <1>1, <1>3, ReadFrameInv DEF ValidateApp, Continue
<1> QED
  BY <1>2, <1>3

\* Every step of loadConfig keeps what is known of the document.
LEMMA ReadNextInv ==
  ASSUME LoaderInv, ReadInv, [Next]_loaderVars
  PROVE  ReadInv'
<1>1. CASE BeginValidation
  BY <1>1, ReadFrameInv DEF BeginValidation, Continue
<1>2. CASE Finish
  <2>1. SmtpComplete
    BY <1>2 DEF Finish, ReadInv
  <2> QED
    BY <1>2, <2>1, ReadFrameInv DEF Finish, Continue
<1>3. CASE UNCHANGED loaderVars
  BY <1>3 DEF loaderVars, ReadInv, LimitsGettable, SmtpRead, SmtpComplete
<1> QED
  BY <1>1, <1>2, <1>3, OpenOrParseRead, ReadLimitsRead, ParseSmtpRead, BeginAppsRead,
     ParseAppRead, ValidateSmtpRead, ValidateAppRead
  DEF Next

\* What the loading knows of the document, for every document.
LEMMA ReadInvariantHolds == Spec => []ReadInv
BY LoaderInvariantHolds, ReadInit, ReadNextInv, PTL DEF Spec

\* loadConfig accepts a document exactly when every field of it is there, of
\* its type and valid, whatever the document and the width of int: none that
\* is wrong slips through the order of the checks, and none that is right is
\* thrown out by it.
THEOREM AcceptsExactly == Spec => []AcceptedExactly
<1>1. LoaderInv /\ ReadInv => AcceptedExactly
  <2> SUFFICES ASSUME LoaderInv, ReadInv, pc = "loaded", ~UndefinedNumbers
               PROVE  Acceptable(document)
    BY DEF AcceptedExactly, ReadInv
  <2> DEFINE fields == document.root.fields
  <2>1. /\ AppsAreListed /\ AppsOfItems /\ document \in Documents
        /\ config.apps # <<>> /\ ValidUpTo(Len(config.apps))
        /\ Len(config.apps) = Len(Items)
    BY DEF LoaderInv
  <2>2. /\ document.opens /\ document.text = "json" /\ document.root.type = "object"
        /\ LimitsGettable /\ SmtpRead /\ SmtpComplete
    BY DEF ReadInv
  <2>3. {"smtp", "apps"} \subseteq DOMAIN fields
    BY <2>1, <2>2 DEF SmtpRead, AppsAreListed, HasField
  <2>4. "logs_path" \in DOMAIN fields => fields["logs_path"].type = "string"
    BY <2>2, FieldNames DEF LimitsGettable, UngettableFields, HasField, Gettable, AppInts
  <2>5. "max_logs_filesize_byte" \in DOMAIN fields =>
          NumberIn(fields["max_logs_filesize_byte"], Ints)
    <3> SUFFICES ASSUME "max_logs_filesize_byte" \in DOMAIN fields
                 PROVE  NumberIn(fields["max_logs_filesize_byte"], Ints)
      OBVIOUS
    <3>1. fields["max_logs_filesize_byte"].type \in {"integer", "float", "boolean"}
      BY <2>2, FieldNames DEF LimitsGettable, UngettableFields, HasField, Gettable, AppInts
    <3>2. WellFormed(fields["max_logs_filesize_byte"])
      BY <2>1, <2>2, DocumentsAssumption DEF FieldsWellFormed
    <3> QED
      BY <3>1, <3>2, GetIntFacts DEF NumberIn
  <2>6. \A f \in ToSet(SmtpFields) :
          HasField(fields.smtp, f) /\ NonEmptyString(fields.smtp.fields[f])
    BY <2>2, Zenon DEF SmtpRead, SmtpComplete, NonEmptyString
  <2>7. fields.apps.type = "array" /\ fields.apps.items # <<>>
    <3>1. Len(config.apps) # 0
      BY <2>1 DEF AppsOfItems
    <3> QED
      BY <2>1, <3>1 DEF AppsAreListed, Items
  <2>8. ASSUME NEW i \in DOMAIN fields.apps.items
        PROVE  AcceptableApp(fields.apps.items[i])
    <3>1. i \in DOMAIN Items /\ i \in 1 .. Len(config.apps)
      BY <2>1, <2>8, ItemFacts DEF Items
    <3>2. /\ Readable(Items[i]) /\ FieldsWellFormed(Items[i])
          /\ config.apps[i] \in ParsedApps(Items[i].fields)
          /\ FailedChecks(config.apps[i]) = {}
      BY <2>1, <3>1, ItemFacts DEF AppsOfItems, ValidUpTo
    <3>3. \A f \in AppInts :
            Items[i].fields[f].type = "float"
              => Truncate(Items[i].fields[f].halves) \in Ints
      BY <3>1 DEF UndefinedNumbers
    <3>4. AcceptableApp(Items[i])
      BY <3>2, <3>3, PassedIsAcceptable
    <3> QED
      BY <3>4 DEF Items
  <2> QED
    BY <2>2, <2>3, <2>4, <2>5, <2>6, <2>7, <2>8 DEF Acceptable
<1> QED
  BY <1>1, LoaderInvariantHolds, ReadInvariantHolds, PTL
----------------------------------------------------------------------------
\* Before there is an app, FirstProblemReported says nothing.
LEMMA NoAppsReported ==
  ASSUME config'.apps = <<>>
  PROVE  FirstProblemReported'
<1>1. ~(Len(config'.apps) > 0)
  OBVIOUS
<1> QED
  BY <1>1, Zenon DEF FirstProblemReported

\* The items read before the one that ends the loading were all complete.
LEMMA ReadBefore ==
  ASSUME AppsOfItems
  PROVE  \A i \in 1 .. Len(config.apps) : ReadProblem(Items[i], AppFields) = NoProblem
BY ReadableNoProblem DEF AppsOfItems

\* An item that cannot be read is blamed for the first thing it lacks.
LEMMA ParseAppReports ==
  ASSUME LoaderInv, ParseApp
  PROVE  FirstProblemReported'
<1> DEFINE p == ReadProblem(Items[next], AppFields)
<1>1. AppsOfItems /\ next = Len(config.apps) + 1
  BY DEF ParseApp, LoaderInv
<1>2. CASE p = NoProblem
  BY <1>2 DEF ParseApp, Continue, FirstProblemReported
<1>3. CASE p # NoProblem
  <2>1. problem' = p /\ UNCHANGED <<document, next, config>>
    BY <1>3 DEF ParseApp, Throw
  <2>2. problem'.kind \in {"missing", "type"}
    BY <1>3, <2>1, ReadProblemKinds
  <2>3. Items' = Items
    BY <2>1 DEF Items
  <2>4. \A i \in 1 .. Len(config.apps) : ReadProblem(Items[i], AppFields) = NoProblem
    BY <1>1, ReadBefore
  <2> QED
    BY <1>1, <2>1, <2>2, <2>3, <2>4 DEF FirstProblemReported
<1> QED
  BY <1>2, <1>3

\* Nothing of smtp is blamed on an app.
LEMMA ValidateSmtpReports ==
  ASSUME LoaderInv, ValidateSmtp
  PROVE  FirstProblemReported'
<1> DEFINE empty == { f \in ToSet(SmtpFields) : config.smtp[f] = "" }
<1>1. AppsOfItems /\ Len(config.apps) = Len(Items)
  BY DEF ValidateSmtp, LoaderInv
<1>2. CASE empty = {} /\ config.apps # <<>>
  BY <1>2 DEF ValidateSmtp, Continue, FirstProblemReported
<1>3. CASE empty # {}
  <2>1. /\ problem'.kind = "invalid" /\ UNCHANGED <<document, next, config>>
    <3>1. Throw([kind |-> "invalid", field |-> FirstIn(SmtpFields, empty)])
      BY <1>3, Zenon DEF ValidateSmtp
    <3> HIDE DEF empty
    <3> QED
      BY <3>1 DEF Throw
  <2>2. ~(\A f \in ToSet(SmtpFields) : config'.smtp[f] # "")
    BY <1>3, <2>1, Zenon
  <2>3. Items' = Items
    BY <2>1 DEF Items
  <2>4. \A i \in 1 .. Len(config.apps) : ReadProblem(Items[i], AppFields) = NoProblem
    BY <1>1, ReadBefore
  <2> QED
    BY <1>1, <2>1, <2>2, <2>3, <2>4 DEF FirstProblemReported
<1>4. CASE empty = {} /\ config.apps = <<>>
  BY <1>4, NoAppsReported DEF ValidateSmtp, Throw
<1> QED
  BY <1>2, <1>3, <1>4

\* An app is called invalid for the first check it fails, after all others
\* before it have passed.
LEMMA ValidateAppReports ==
  ASSUME LoaderInv, ValidateApp
  PROVE  FirstProblemReported'
<1> DEFINE failed == FailedChecks(config.apps[next])
<1>1. /\ AppsOfItems /\ Len(config.apps) = Len(Items) /\ ValidUpTo(next - 1)
  BY DEF ValidateApp, LoaderInv
<1>2. CASE failed = {}
  BY <1>2 DEF ValidateApp, Continue, FirstProblemReported
<1>3. CASE failed # {}
  <2>1. /\ problem' = [kind |-> "invalid", field |-> FirstIn(Checks, failed)]
        /\ UNCHANGED <<document, next, config>>
    BY <1>3 DEF ValidateApp, Throw
  <2>2. NothingBefore(Checks, FirstIn(Checks, failed), failed)
    <3>1. failed \subseteq ToSet(Checks)
      BY DEF FailedChecks
    <3> HIDE DEF failed
    <3> QED
      BY <1>3, <3>1, ChecksListed, FirstInFacts
  <2>3. Items' = Items /\ problem'.kind = "invalid"
        /\ problem'.field = FirstIn(Checks, failed)
    BY <2>1 DEF Items
  <2>4. \A i \in 1 .. Len(config.apps) : ReadProblem(Items[i], AppFields) = NoProblem
    BY <1>1, ReadBefore
  <2> QED
    BY <1>1, <2>1, <2>2, <2>3, <2>4 DEF FirstProblemReported, ValidUpTo
<1> QED
  BY <1>2, <1>3

\* The exception is about the first thing wrong with the file, for every
\* document: whichever apps are in trouble, and in how many ways.
THEOREM ReportsFirstProblem == Spec => []FirstProblemReported
<1>1. Init => FirstProblemReported
  BY DEF Init, FirstProblemReported
<1>2. ASSUME LoaderInv, FirstProblemReported, [Next]_loaderVars
      PROVE  FirstProblemReported'
  <2>1. CASE OpenFile \/ ParseText \/ ReadLimits \/ ParseSmtp \/ BeginApps
    <3>1. config.apps = <<>> /\ DOMAIN config = ConfigFields
      <4>1. pc \in {"open", "parse", "limits", "smtp", "apps"}
        BY <2>1 DEF OpenFile, ParseText, ReadLimits, ParseSmtp, BeginApps
      <4> QED
        BY <1>2, <4>1 DEF LoaderInv
    <3>2. \/ config' = config
          \/ \E limit, path : config' = [config EXCEPT !.max_logs_filesize_byte = limit,
                                                       !.logs_path = path]
          \/ \E smtp : config' = [config EXCEPT !.smtp = smtp]
      BY <2>1 DEF OpenFile, ParseText, ReadLimits, ParseSmtp, BeginApps, Throw
    <3>3. config'.apps = <<>>
      BY <3>1, <3>2 DEF ConfigFields
    <3> QED
      BY <3>3, NoAppsReported
  <2>2. CASE BeginValidation \/ Finish
    BY <2>2 DEF BeginValidation, Finish, Continue, FirstProblemReported
  <2>3. CASE UNCHANGED loaderVars
    BY <1>2, <2>3 DEF loaderVars, FirstProblemReported, Items
  <2> QED
    BY <1>2, <2>1, <2>2, <2>3, ParseAppReports, ValidateSmtpReports, ValidateAppReports
    DEF Next
<1> QED
  BY <1>1, <1>2, LoaderInvariantHolds, PTL DEF Spec
=============================================================================
