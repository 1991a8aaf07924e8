------------------------------ MODULE HttpRequest ------------------------------
(***************************************************************************)
(* One request of perform_request inside httplib::Client: name resolution,  *)
(* the addresses in turn, the request, and the response line by line and    *)
(* block by block.  The peer is free: at every wait it sends something,     *)
(* closes, or stays silent while time passes.                               *)
(*                                                                          *)
(* connection, read and write timeout are all timeout_seconds, and each of  *)
(* them is for one wait for the socket: a poll, which takes an int of        *)
(* milliseconds.  A body is counted in blocks.                              *)
(***************************************************************************)
EXTENDS Integers

CONSTANTS
  Timeouts,      \* values of timeout_seconds
  MILLIS,        \* milliseconds in a second
  IntLimit,      \* 2^31: the first number that is no int
  RequestKinds,  \* request types
  Statuses,      \* final statuses a peer may send
  MaxAddresses,  \* bound: addresses a name resolves to
  Lengths,       \* Content-Length values, in blocks
  MaxPayload,    \* payload_max_length_, in blocks
  MaxPieces,     \* bound: times something arrives
  MaxWait        \* bound: time in a wait that no timeout ends

ASSUME RequestAssumption ==
  /\ MILLIS \in Nat \ {0} /\ IntLimit \in Nat \ {0}
  /\ Timeouts \subseteq 1 .. IntLimit - 1    \* what validate_app lets through
  /\ {MaxAddresses, MaxPayload, MaxPieces, MaxWait} \subseteq Nat
  /\ Lengths \subseteq Nat
  /\ Statuses \subseteq Nat \ {0, 100}

VARIABLES
  method, timeout_seconds,
  pc,         \* what the client is waiting for
  addresses,  \* those not tried yet, the one at hand included
  waited,     \* milliseconds in the wait at hand
  written,    \* the request went out
  status, framing, length,  \* of the response, as its head says
  body,       \* blocks of it read
  error,      \* result.error()
  now,        \* history: time since the request began
  tried,      \* history: addresses tried
  pieces,     \* history: times something arrived
  ending      \* history: how the peer ended the body

requestVars == <<method, timeout_seconds, pc, addresses, waited, written,
                 status, framing, length, body, error, now, tried, pieces,
                 ending>>
requestOf == <<method, timeout_seconds>>
responseVars == <<status, framing, length, body, ending>>

Framings == {"none", "length", "chunked", "close"}

Errors == {"Connection", "ConnectionTimeout", "Write", "Read"}

Waits == {"connect", "write", "status", "continue", "headers", "body"}

RequestInit ==
  /\ method \in RequestKinds
  /\ timeout_seconds \in Timeouts
  /\ pc = "resolve"
  /\ addresses = 0
  /\ waited = 0 /\ written = TRUE
  /\ status = 0 /\ framing = "none" /\ length = 0 /\ body = 0
  /\ error = "Success"
  /\ now = 0 /\ tried = 0 /\ pieces = 0 /\ ending = "none"

End(e) ==
  /\ pc' = "done"
  /\ error' = e
  /\ UNCHANGED <<requestOf, addresses, written, now, tried>>

\* The next wait, a new one.
WaitFor(what) ==
  /\ pc' = what
  /\ waited' = 0
  /\ UNCHANGED <<requestOf, error, now>>

\* getaddrinfo, which the vendored build calls without a limit of time.
Resolve ==
  /\ pc = "resolve"
  /\ \/ End("Connection") /\ UNCHANGED <<waited, responseVars, pieces>>
     \/ /\ \E n \in 1 .. MaxAddresses : addresses' = n
        /\ tried' = 1
        /\ WaitFor("connect")
        /\ UNCHANGED <<written, responseVars, pieces>>

Connected ==
  /\ pc = "connect"
  /\ WaitFor("write")
  /\ UNCHANGED <<addresses, written, responseVars, tried, pieces>>

\* Refused or unreachable: the next address, if there is one.
ConnectFails ==
  /\ pc = "connect"
  /\ IF addresses > 1
     THEN /\ addresses' = addresses - 1
          /\ tried' = tried + 1
          /\ WaitFor("connect")
          /\ UNCHANGED written
     ELSE End("Connection") /\ UNCHANGED waited
  /\ UNCHANGED <<responseVars, pieces>>

\* write_request.  When it fails, the response is read all the same, for the
\* peer may have sent one before it closed.
RequestWritten(ok) ==
  /\ pc = "write"
  /\ written' = ok
  /\ WaitFor("status")
  /\ UNCHANGED <<addresses, responseVars, tried, pieces>>

ReadError == IF written THEN "Read" ELSE "Write"

\* Something arrives, and the wait is over.
Arrives ==
  /\ pieces < MaxPieces
  /\ pieces' = pieces + 1
  /\ UNCHANGED <<addresses, written, tried>>

\* Part of a line: of the head, or of what frames the chunks of a body (their
\* sizes, their ends, the trailers).  The timeout starts again.
PartOfLine ==
  /\ pc \in {"status", "continue", "headers"} \/ (pc = "body" /\ framing = "chunked")
  /\ Arrives
  /\ WaitFor(pc)
  /\ UNCHANGED responseVars

\* "100 Continue" is skipped, with the line behind it, however often it comes.
Interim ==
  /\ pc = "status"
  /\ Arrives
  /\ WaitFor("continue")
  /\ UNCHANGED responseVars

InterimEnds ==
  /\ pc = "continue"
  /\ Arrives
  /\ WaitFor("status")
  /\ UNCHANGED responseVars

StatusLine(s) ==
  /\ pc = "status"
  /\ Arrives
  /\ status' = s
  /\ WaitFor("headers")
  /\ UNCHANGED <<framing, length, body, ending>>

\* A line that is no status line, or a header or a number of them that the
\* limits of read_headers do not admit.
BadLine ==
  /\ pc \in {"status", "headers"}
  /\ Arrives
  /\ pc' = "done" /\ error' = ReadError
  /\ UNCHANGED <<requestOf, waited, responseVars, now>>

NoBody_StatusOnly(s) == s \in {204, 304}

NoBody(s) == method = "HEAD" \/ s \in {204, 304}

\* The end of the headers.  What follows depends on whether the request went
\* out, and on whether there is a body to read.
HeadersEnd(f, n) ==
  /\ pc = "headers"
  /\ f # "length" => n = 0
  /\ Arrives
  /\ framing' = f /\ length' = n
  /\ IF ~written
     THEN pc' = "done" /\ error' = "Write" /\ UNCHANGED <<requestOf, waited, now>>
     ELSE IF NoBody(status) \/ (f = "length" /\ n = 0)
     THEN pc' = "done" /\ UNCHANGED <<requestOf, waited, error, now>>
     ELSE WaitFor("body")
  /\ UNCHANGED <<status, body, ending>>

\* A block of the body, unless it is one too many.
Block ==
  /\ pc = "body"
  /\ Arrives
  /\ IF body = MaxPayload
     THEN pc' = "done" /\ error' = "Read" /\ UNCHANGED <<requestOf, waited, body, now>>
     ELSE /\ body' = body + 1
          /\ IF framing = "length" /\ body + 1 = length
             THEN pc' = "done" /\ UNCHANGED <<requestOf, waited, error, now>>
             ELSE WaitFor("body")
  /\ UNCHANGED <<status, framing, length, ending>>

LastChunk ==
  /\ pc = "body" /\ framing = "chunked"
  /\ Arrives
  /\ ending' = "last_chunk"
  /\ pc' = "done"
  /\ UNCHANGED <<requestOf, waited, status, framing, length, body, error, now>>

CloseEndsBody_Always == pc = "body"

\* read_content_without_length takes the end of the stream for the end of the
\* body; everywhere else it is an error.
CloseEndsBody == pc = "body" /\ framing = "close"

PeerCloses ==
  /\ pc \in Waits \ {"connect", "write"}
  /\ End(IF CloseEndsBody THEN "Success" ELSE ReadError)
  /\ ending' = "closed"
  /\ UNCHANGED <<waited, status, framing, length, body, pieces>>

\* The connection breaks while something is read, or a line that frames a chunk
\* is malformed.
ReadFails ==
  /\ pc \in Waits \ {"connect", "write"}
  /\ End(ReadError)
  /\ UNCHANGED <<waited, responseVars, pieces>>

----------------------------------------------------------------------------
\* static_cast<int>
ToInt(n) == ((n + IntLimit) % (2 * IntLimit)) - IntLimit

\* The timeout that poll is given for each value of timeout_seconds.  From
\* 2147484 seconds on the cast makes it a shorter one, or a negative one.
PollTimeouts == [seconds \in Timeouts |-> ToInt(seconds * MILLIS)]

PollTimeout == PollTimeouts[timeout_seconds]

Expired_OneMore == waited = PollTimeout + 1

\* The poll of the wait at hand returns 0; with a negative timeout it never does.
Expired == waited = PollTimeout

Silence ==
  /\ pc \in Waits
  /\ ~Expired
  /\ PollTimeout < 0 => waited < MaxWait
  /\ waited' = waited + 1
  /\ now' = now + 1
  /\ UNCHANGED <<requestOf, pc, addresses, written, responseVars, error, tried, pieces>>

TimedWaits_NotBody == Waits \ {"body"}

\* The waits that are given up: each of them goes through a poll with a timeout.
TimedWaits == Waits

\* A connection that times out is not tried at another address; a request that
\* cannot be written leaves the response to be waited for.
TimesOut ==
  /\ pc \in TimedWaits
  /\ Expired
  /\ IF pc = "write"
     THEN /\ written' = FALSE
          /\ WaitFor("status")
          /\ UNCHANGED <<addresses, tried>>
     ELSE /\ End(IF pc = "connect" THEN "ConnectionTimeout" ELSE ReadError)
          /\ UNCHANGED waited
  /\ UNCHANGED <<responseVars, pieces>>

RequestNext ==
  \/ Resolve
  \/ Connected
  \/ ConnectFails
  \/ \E ok \in BOOLEAN : RequestWritten(ok)
  \/ PartOfLine
  \/ Interim
  \/ InterimEnds
  \/ \E s \in Statuses : StatusLine(s)
  \/ BadLine
  \/ \E f \in Framings \ {"none"}, n \in Lengths \cup {0} : HeadersEnd(f, n)
  \/ Block
  \/ LastChunk
  \/ PeerCloses
  \/ ReadFails
  \/ Silence
  \/ TimesOut

\* Time passes, the client's polls return, and the resolver comes back.  Of
\* the peer nothing is assumed.
RequestSpec ==
  /\ RequestInit /\ [][RequestNext]_requestVars
  /\ WF_requestVars(Resolve) /\ WF_requestVars(Silence) /\ WF_requestVars(TimesOut)

----------------------------------------------------------------------------
Done == pc = "done"

\* The client reports a response only when it has all of one: the request went
\* out, the head came to its end, and the body is as long as announced, ended
\* by its last chunk, or, announced in neither way, ended by the peer's close.
OnlyCompleteResponses ==
  Done /\ error = "Success" =>
    /\ written
    /\ status \in Statuses
    /\ framing # "none"
    /\ method # "HEAD" /\ status \notin {204, 304} =>
         CASE framing = "length" -> body = length
           [] framing = "chunked" -> ending = "last_chunk"
           [] framing = "close" -> ending = "closed"

\* How long a request takes is bounded by what arrives, and by nothing else:
\* one timeout for each address and the request, and one for each time the
\* peer sent something, be it a byte.  The timeout is the one that poll gets; a
\* connection is given up after just that long, which is timeout_seconds when
\* its milliseconds are an int, and never when the cast made it negative.
TimeBoundedByProgress ==
  /\ PollTimeout >= 0 => now <= PollTimeout * (tried + 2 + pieces)
  /\ error = "ConnectionTimeout" =>
       /\ waited = PollTimeout
       /\ timeout_seconds * MILLIS < IntLimit => waited = timeout_seconds * MILLIS

\* The client of HttpEndpointMonitor, to which a request is one step.
Monitor == INSTANCE HttpEndpointMonitor WITH
  Urls <- {}, UnsupportedSchemeUrls <- {}, BadPortUrls <- {},
  HttpStatuses <- Statuses, TransportErrors <- Errors

\* What comes of a request is one of the replies HttpEndpointMonitor takes it
\* for, in one step, whatever is in a body of which blocks were read.
OutcomeIsAReply ==
  Done =>
    \A b \in IF body = 0 THEN {"none"} ELSE Monitor!Bodies \ {"none"} :
      (IF error = "Success" THEN [error |-> "", status |-> status, body |-> b]
       ELSE [error |-> error, status |-> 0, body |-> "none"]) \in Monitor!Replies(method)

\* A request ends, whatever it was waiting for when the peer fell silent; but
\* only with a timeout that the cast to int leaves non-negative, which
\* validate_app does not make sure of.
RequestEnds == PollTimeout >= 0 ~> Done
=============================================================================
