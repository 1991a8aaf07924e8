-------------------------- MODULE MCEndpointMonitor --------------------------
(***************************************************************************)
(* A small instance of EndpointMonitor: one endpoint that works, one whose  *)
(* scheme and one whose port the client does not take, and configurations   *)
(* on both sides of every boundary of max_retries.                          *)
(***************************************************************************)
EXTENDS EndpointMonitor

MCUrls == {"http", "https", "http:0"}
MCUnsupportedSchemeUrls == {"https"}
MCBadPortUrls == {"http:0"}
MCHttpStatuses == {200, 204, 503}
MCTransportErrors == {"Connection"}
MCLatencies == {-1, 2}

MCSettings ==
  [url : {"http"}, request_type : {"GET"}, timeout_seconds : {1},
   max_retries : {0, 1, 2, 3, 5}, healthy_response_status_code : {200}]
  \cup
  [url : MCUrls, request_type : {"HEAD"}, timeout_seconds : {1},
   max_retries : {2}, healthy_response_status_code : {204}]
=============================================================================
