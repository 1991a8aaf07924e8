------------------------- MODULE MCHealthCheckRunner -------------------------
(***************************************************************************)
(* A small instance of HealthCheckRunner: configurations that loadConfig    *)
(* accepts, with only an inactive app, an inactive one among active ones,   *)
(* the same endpoint twice, and an endpoint that the client does not take   *)
(* behind one that it does.                                                 *)
(***************************************************************************)
EXTENDS HealthCheckRunner

MCUrls == {"orders", "users", "https", "http:0"}
MCUnsupportedSchemeUrls == {"https"}
MCBadPortUrls == {"http:0"}
MCHttpStatuses == {200, 503}
MCTransportErrors == {"Connection"}
MCLatencies == {1}

App(url, max_retries, active) ==
  [url |-> url, request_type |-> "GET", timeout_seconds |-> 1,
   max_retries |-> max_retries, healthy_response_status_code |-> 200,
   active |-> active]

MCApps ==
  { App("orders", 0, TRUE), App("orders", 2, TRUE), App("orders", 9, TRUE),
    App("orders", 1, FALSE), App("users", 1, TRUE), App("users", 2, TRUE),
    App("https", 1, TRUE), App("http:0", 1, TRUE) }

MCConfigs ==
  { <<App("orders", 1, FALSE)>>,
    <<App("orders", 2, TRUE), App("users", 2, TRUE)>>,
    <<App("orders", 1, FALSE), App("users", 1, TRUE), App("orders", 0, TRUE)>>,
    <<App("users", 1, TRUE), App("orders", 1, FALSE), App("users", 1, TRUE)>>,
    <<App("users", 1, TRUE), App("https", 1, TRUE)>>,
    <<App("users", 1, TRUE), App("http:0", 1, TRUE)>>,
    <<App("users", 1, TRUE), App("orders", 9, TRUE)>> }

MCSettings == { MonitorSettings(app) : app \in MCApps }
=============================================================================
