------------------------ MODULE HttpEndpointMonitor ------------------------
(***************************************************************************)
(* HttpEndpointMonitor: what one perform_request makes of what the endpoint *)
(* does.  A request is one step here; its socket waits are each bounded by  *)
(* timeout_seconds, and how long they may add up to is not a matter of this *)
(* module.                                                                  *)
(*                                                                          *)
(* A URL stands for url and path together: the code hands both on unread.   *)
(* A response body is kept only as far as nlohmann::json::parse tells one   *)
(* from another: absent, valid JSON, a syntax error (json::parse_error), or *)
(* a well formed number too big for a double (json::out_of_range, which is  *)
(* not a parse_error).                                                      *)
(***************************************************************************)
EXTENDS Integers

CONSTANTS
  Urls,                 \* the endpoints of the configuration
  UnsupportedSchemeUrls,\* httplib::Client's constructor throws on these
  BadPortUrls,          \* httplib::Client is left without an implementation
  HttpStatuses,         \* status codes an endpoint may answer with
  TransportErrors       \* httplib::to_string of the errors without a response

ASSUME UrlsAssumption ==
  /\ UnsupportedSchemeUrls \subseteq Urls
  /\ BadPortUrls \subseteq Urls
  /\ UnsupportedSchemeUrls \cap BadPortUrls = {}

\* "" is the message of a parsed response and "parse_error" that of a body
\* that is not JSON: no transport error has one of these names.
ASSUME RepliesAssumption ==
  /\ HttpStatuses \subseteq Nat \ {0}
  /\ TransportErrors \subseteq STRING \ {"", "parse_error"}

RequestTypes == {"GET", "POST", "PUT", "DELETE", "PATCH", "OPTIONS", "HEAD"}

Bodies == {"none", "json", "not_json", "out_of_range"}

\* What the endpoint and the network do with one request.  A HEAD request and
\* a 204 or 304 response have no body.
TransportFailures == [error : TransportErrors, status : {0}, body : {"none"}]

HttpReplies(request_type) ==
  { r \in [error : {""}, status : HttpStatuses, body : Bodies] :
      request_type = "HEAD" \/ r.status \in {204, 304} => r.body = "none" }

Replies(request_type) == TransportFailures \cup HttpReplies(request_type)

AnyReply == TransportFailures \cup [error : {""}, status : HttpStatuses, body : Bodies]

StatusMessages == TransportErrors \cup {"", "parse_error"}

Responses ==
  [success : BOOLEAN, status_code : HttpStatuses \cup {0},
   status_message : StatusMessages]

\* httplib::Client client(url)
ClientThrows(s) == s.url \in UnsupportedSchemeUrls
ClientIsNull(s) == s.url \in BadPortUrls

\* json::parse leaves parse_response with an exception that its handler, for
\* parse_error, does not catch.
ParseThrows(reply) == reply.body = "out_of_range"

ParseResponse_NoParse(s, reply) ==
  [success |-> reply.status = s.healthy_response_status_code,
   status_code |-> reply.status, status_message |-> ""]

ParseResponse(s, reply) ==
  IF reply.body = "not_json"
  THEN [success |-> FALSE, status_code |-> reply.status,
        status_message |-> "parse_error"]
  ELSE [success |-> reply.status = s.healthy_response_status_code,
        status_code |-> reply.status, status_message |-> ""]

\* The value perform_request returns, when it returns.
PerformRequest(s, reply) ==
  IF reply.error # ""
  THEN [success |-> FALSE, status_code |-> 0, status_message |-> reply.error]
  ELSE ParseResponse(s, reply)

----------------------------------------------------------------------------
\* What "healthy" means for an endpoint, said without the code's way of
\* computing it: the configured status, and a body that is absent or JSON.
Healthy(s, reply) ==
  /\ reply.error = ""
  /\ reply.status = s.healthy_response_status_code
  /\ reply.body \in {"none", "json"}
=============================================================================
