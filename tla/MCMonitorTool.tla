---------------------------- MODULE MCMonitorTool ----------------------------
(***************************************************************************)
(* A small instance of MonitorTool: configurations that end the tool in     *)
(* each of its ways, at loading, at the log, at the factory if it got that  *)
(* far, in a health check, and with a report that fits the log or does not. *)
(***************************************************************************)
EXTENDS MonitorTool

MCUrls == {"orders", "users", "https", "http:0"}
MCUnsupportedSchemeUrls == {"https"}
MCBadPortUrls == {"http:0"}
MCHttpStatuses == {200, 503}
MCTransportErrors == {"Connection"}
MCLatencies == {1}
MCValidEmails == {"ops@x.io"}
MCUnwritablePaths == {"/proc/logs"}
MCLineSizes == {1, 2}
MCEarlierSizes == {0, 1}

MCSettings ==
  [url : MCUrls, request_type : {"GET"}, timeout_seconds : {1},
   max_retries : {0, 1, 2, 9}, healthy_response_status_code : {200}]

MCApps ==
  [name : {"a"}, url : MCUrls, path : {"/"}, active : BOOLEAN,
   admins : {<<"ops@x.io">>}, request_type : {"GET"}, timeout_seconds : {1},
   max_retries : {1, 2, 9}, healthy_response_status_code : {200}]

\* RunnerInit is not used here: the apps come from the loader.
MCConfigs == {}

Str(t) == [type |-> "string", text |-> t]
Int64(n) == [type |-> "integer", int |-> n]
List(vs) == [type |-> "array", items |-> vs]
Obj(fs) == [type |-> "object", fields |-> fs]

Smtp == Obj([url |-> Str("s"), username |-> Str("u"), password |-> Str("p"),
             from |-> Str("f")])

App(url, max_retries, active) ==
  [name |-> Str("a"), url |-> Str(url), path |-> Str("/"),
   active |-> [type |-> "boolean", bool |-> active],
   admins |-> List(<<Str("ops@x.io")>>), request_type |-> Str("GET"),
   healthy_response_status_code |-> Int64(200), timeout_seconds |-> Int64(1),
   max_retries |-> Int64(max_retries)]

Root(fs) == [smtp |-> Smtp, apps |-> List([i \in DOMAIN fs |-> Obj(fs[i])])]

Doc(root) == [opens |-> TRUE, text |-> "json", root |-> Obj(root)]

Limited(n, fs) == Doc(Root(fs) @@ [max_logs_filesize_byte |-> Int64(n)])

Orders == App("orders", 2, TRUE)
Users == App("users", 1, TRUE)
Idle == App("users", 1, FALSE)

MCDocuments ==
  { [Doc(Root(<<Orders>>)) EXCEPT !.opens = FALSE],
    [Doc(Root(<<Orders>>)) EXCEPT !.text = "syntax_error"],
    Doc(Root(<<>>)),
    Doc(Root(<<Orders, Idle>>)),
    Doc(Root(<<Idle, Users, Orders>>)),
    Doc(Root(<<Users, Idle, Users>>)),
    Doc(Root(<<Idle>>)),
    Doc(Root(<<Users, App("https", 1, TRUE)>>)),
    Doc(Root(<<Idle, Users, App("http:0", 1, TRUE)>>)),
    Doc(Root(<<Users, App("orders", 9, TRUE)>>)),
    Doc(Root(<<Users, [Orders EXCEPT !.request_type = Str("get")]>>)),
    Doc(Root(<<Users, [Orders EXCEPT !.timeout_seconds = Int64(0)]>>)),
    Doc(Root(<<Users, [Orders EXCEPT !.timeout_seconds = Int64(Modulus + 1)]>>)),
    Limited(0, <<Users>>), Limited(-1, <<Users>>), Limited(Modulus, <<Users>>),
    Limited(1, <<Users, Idle, Users>>),
    Limited(2, <<Idle, Users, Users>>), Limited(3, <<Users, Users, Idle>>),
    Doc(Root(<<Users>>) @@ [logs_path |-> Str("/proc/logs")]) }
=============================================================================
