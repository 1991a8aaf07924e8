--------------------------- MODULE HttpRequestProofs ---------------------------
(***************************************************************************)
(* Theorems about HttpRequest: what a response that the client reports has, *)
(* how long a request may take, and that its outcome is one of the replies  *)
(* of HttpEndpointMonitor; for every timeout_seconds that is an int, every   *)
(* limit and every number of pieces.                                         *)
(***************************************************************************)
EXTENDS HttpRequest, TLAPS

\* What k whole timeouts of p milliseconds add up to.
Span(p, k) == p * k

Reading == {"status", "continue", "headers", "body"}

RequestTypeOK ==
  /\ method \in RequestKinds /\ timeout_seconds \in Timeouts
  /\ pc \in {"resolve", "done"} \cup Waits
  /\ addresses \in Nat /\ waited \in Nat /\ now \in Nat
  /\ tried \in Nat /\ pieces \in Nat
  /\ written \in BOOLEAN
  /\ status \in Statuses \cup {0} /\ framing \in Framings
  /\ length \in Nat /\ body \in Nat
  /\ error \in Errors \cup {"Success"}
  /\ ending \in {"none", "closed", "last_chunk"}

\* The time so far, by the waits that are over and the one at hand, when each
\* of them ends after p milliseconds.
Accounted(p) ==
  /\ waited <= p
  /\ pc = "resolve" => now = 0 /\ waited = 0
  /\ pc = "connect" => tried >= 1 /\ now <= Span(p, tried - 1) + waited
  /\ pc = "write" => now <= Span(p, tried) + waited
  /\ pc \in Reading => now <= Span(p, tried + 1 + pieces) + waited
  /\ now <= Span(p, tried + 2 + pieces)

\* With a negative timeout nothing is known of the time, but that no connection
\* times out.
TimeSpent ==
  /\ PollTimeout >= 0 => Accounted(PollTimeout)
  /\ error = "ConnectionTimeout" => waited = PollTimeout

\* The body came to the end that the head announced.
Framed ==
  CASE framing = "length" -> body = length
    [] framing = "chunked" -> ending = "last_chunk"
    [] framing = "close" -> ending = "closed"

\* What is known of the response at each wait, and of one without an error.
ResponseSoFar ==
  /\ pc # "done" => error = "Success" /\ ending = "none"
  /\ pc \in {"resolve", "connect", "write"} => written
  /\ pc \notin {"body", "done"} => framing = "none" /\ body = 0
  /\ pc \in {"headers", "body"} => status \in Statuses
  /\ pc = "body" => /\ written /\ framing # "none" /\ ~NoBody(status)
                    /\ framing = "length" => body < length
  /\ NoBody(status) => body = 0
  /\ (pc = "done" /\ error = "Success") =>
       /\ written /\ status \in Statuses
       /\ framing # "none"
       /\ ~NoBody(status) => Framed

\* The inductive invariant of a request.
RequestInv == RequestTypeOK /\ TimeSpent /\ ResponseSoFar

----------------------------------------------------------------------------
\* Time adds up one timeout at a time.
LEMMA SpanFacts ==
  ASSUME NEW p \in Nat
  PROVE  \A k \in Nat : Span(p, k) \in Nat /\ Span(p, k + 1) = Span(p, k) + p
BY DEF Span

\* The cast gives a number, and leaves one alone that is an int.
LEMMA ToIntFacts ==
  ASSUME NEW n \in Nat
  PROVE  ToInt(n) \in Int /\ (n < IntLimit => ToInt(n) = n)
BY RequestAssumption DEF ToInt

\* So is timeout_seconds, in milliseconds, to poll.
LEMMA PollTimeoutFacts ==
  ASSUME NEW seconds \in Timeouts
  PROVE  /\ PollTimeouts[seconds] \in Int
         /\ seconds * MILLIS < IntLimit => PollTimeouts[seconds] = seconds * MILLIS
<1>1. seconds * MILLIS \in Nat
  BY RequestAssumption
<1> QED
  BY <1>1, ToIntFacts DEF PollTimeouts

\* A request begins without time, response or error.
LEMMA RequestInitInv == RequestInit => RequestInv
<1> SUFFICES ASSUME RequestInit PROVE RequestInv
  OBVIOUS
<1>1. PollTimeout \in Int
  BY PollTimeoutFacts DEF RequestInit, PollTimeout
<1>2. ASSUME NEW p \in Nat PROVE Accounted(p)
  <2>1. tried + 2 + pieces \in Nat
    BY DEF RequestInit
  <2>2. 0 <= Span(p, tried + 2 + pieces)
    BY <2>1, SpanFacts
  <2> QED
    BY <2>2 DEF RequestInit, Accounted, Reading
<1>3. RequestTypeOK
  BY DEF RequestInit, RequestTypeOK, Framings, Errors
<1>4. TimeSpent
  BY <1>1, <1>2 DEF RequestInit, TimeSpent
<1>5. ResponseSoFar
  BY DEF RequestInit, ResponseSoFar
<1> QED
  BY <1>3, <1>4, <1>5 DEF RequestInv

\* Every step keeps the types.
LEMMA RequestTypeStep ==
  ASSUME RequestInv, [RequestNext]_requestVars
  PROVE  RequestTypeOK'
<1>1. RequestTypeOK
  BY DEF RequestInv
<1>2. \A n \in Lengths \cup {0} : n \in Nat
  BY RequestAssumption
<1>3. /\ ReadError \in Errors \cup {"Success"}
      /\ {"Connection", "ConnectionTimeout", "Write", "Read", "Success"} \subseteq Errors \cup {"Success"}
  BY DEF ReadError, Errors
<1> USE <1>1 DEF RequestTypeOK, Waits, requestOf, responseVars, WaitFor, End, Arrives
<1>4. CASE Resolve
  BY <1>3, <1>4 DEF Resolve
<1>5. CASE Connected
  BY <1>5 DEF Connected
<1>6. CASE ConnectFails
  BY <1>3, <1>6 DEF ConnectFails
<1>7. ASSUME NEW ok \in BOOLEAN, RequestWritten(ok) PROVE RequestTypeOK'
  BY <1>7 DEF RequestWritten
<1>8. CASE PartOfLine
  BY <1>8 DEF PartOfLine
<1>9. CASE Interim
  BY <1>9 DEF Interim
<1>10. CASE InterimEnds
  BY <1>10 DEF InterimEnds
<1>11. ASSUME NEW s \in Statuses, StatusLine(s) PROVE RequestTypeOK'
  BY <1>11 DEF StatusLine
<1>12. CASE BadLine
  BY <1>3, <1>12 DEF BadLine
<1>13. ASSUME NEW f \in Framings \ {"none"}, NEW n \in Lengths \cup {0}, HeadersEnd(f, n)
       PROVE RequestTypeOK'
  BY <1>2, <1>3, <1>13 DEF HeadersEnd
<1>14. CASE Block
  <2>1. CASE body = MaxPayload
    BY <1>3, <1>14, <2>1 DEF Block
  <2>2. CASE body # MaxPayload
    BY <1>14, <2>2 DEF Block
  <2> QED
    BY <2>1, <2>2
<1>15. CASE LastChunk
  BY <1>15 DEF LastChunk
<1>16. CASE PeerCloses
  BY <1>3, <1>16 DEF PeerCloses
<1>17. CASE ReadFails
  BY <1>3, <1>17 DEF ReadFails
<1>18. CASE Silence
  BY <1>18 DEF Silence
<1>19. CASE TimesOut
  <2>1. CASE pc = "write"
    <3>1. written' \in BOOLEAN
      BY <1>19, <2>1 DEF TimesOut
    <3> QED
      BY <1>19, <2>1, <3>1 DEF TimesOut
  <2>2. CASE pc # "write"
    BY <1>3, <1>19, <2>2 DEF TimesOut
  <2> QED
    BY <2>1, <2>2
<1>20. CASE UNCHANGED requestVars
  BY <1>20 DEF requestVars
<1> QED
  BY <1>4, <1>5, <1>6, <1>7, <1>8, <1>9, <1>10, <1>11, <1>12, <1>13, <1>14, <1>15,
     <1>16, <1>17, <1>18, <1>19, <1>20 DEF RequestNext

\* No step spends more time than the waits and the pieces account for.
LEMMA AccountedStep ==
  ASSUME NEW p \in Nat, p = PollTimeout, Accounted(p),
         RequestInv, [RequestNext]_requestVars
  PROVE  Accounted(p)'
<1>1. RequestTypeOK
  BY DEF RequestInv
<1>2. /\ waited \in Nat /\ now \in Nat /\ tried \in Nat /\ pieces \in Nat
  BY <1>1 DEF RequestTypeOK
<1>3. \A n \in Nat : \A k \in Nat : k <= n => Span(p, k) <= Span(p, n)
  BY DEF Span
<1>4. /\ tried + 2 + pieces \in Nat /\ tried + 2 + pieces + 1 \in Nat
      /\ tried + 1 + pieces \in Nat /\ tried + 1 \in Nat
      /\ tried + 1 + 2 + pieces \in Nat
  BY <1>2
<1>5. Span(p, tried) \in Nat /\ Span(p, tried + 1) = Span(p, tried) + p
  BY <1>2, SpanFacts
<1>6. /\ Span(p, tried + 1 + pieces) \in Nat /\ Span(p, tried + 2 + pieces) \in Nat
      /\ Span(p, tried + 2 + pieces) = Span(p, tried + 1 + pieces) + p
  <2>1. tried + 2 + pieces = tried + 1 + pieces + 1
    BY <1>2
  <2> QED
    BY <1>4, <2>1, SpanFacts
<1>7. tried >= 1 => Span(p, tried - 1) \in Nat /\ Span(p, tried) = Span(p, tried - 1) + p
  <2>1. SUFFICES ASSUME tried >= 1
        PROVE Span(p, tried - 1) \in Nat /\ Span(p, tried) = Span(p, tried - 1) + p
    OBVIOUS
  <2>2. tried - 1 \in Nat /\ tried = tried - 1 + 1
    BY <1>2, <2>1
  <2> QED
    BY <2>2, SpanFacts
<1>8. Span(p, tried + 1) <= Span(p, tried + 1 + pieces)
  BY <1>2, <1>3, <1>4
<1>9. Span(p, tried) <= Span(p, tried + 2 + pieces)
  BY <1>5, <1>6, <1>8, <1>2
<1>10. waited <= p /\ now <= Span(p, tried + 2 + pieces)
  BY <1>1 DEF Accounted
<1>11. pc # "done" => error = "Success"
  BY DEF RequestInv, ResponseSoFar
<1>12. ReadError # "ConnectionTimeout"
  BY DEF ReadError
<1>13. ASSUME pc \in Reading, pieces' = pieces + 1, tried' = tried, now' = now,
              \/ pc' \in Reading /\ waited' = 0
              \/ pc' = "done" /\ waited' = waited
       PROVE  Accounted(p)'
  <2>1. now <= Span(p, tried + 1 + pieces) + waited
    BY <1>13 DEF Accounted
  <2>2. /\ tried + 1 + (pieces + 1) = tried + 2 + pieces
        /\ tried + 2 + (pieces + 1) = tried + 2 + pieces + 1
    BY <1>2
  <2>3. Span(p, tried + 2 + pieces + 1) = Span(p, tried + 2 + pieces) + p
    BY <1>4, SpanFacts
  <2>4. now' <= Span(p, tried' + 1 + pieces')
    BY <1>2, <1>6, <1>10, <1>13, <2>1, <2>2
  <2>5. now' <= Span(p, tried' + 2 + pieces')
    BY <1>2, <1>6, <1>10, <1>13, <2>2, <2>3
  <2>6. waited' <= p /\ waited' \in Nat /\ now' \in Nat
    BY <1>2, <1>10, <1>13
  <2>7. Span(p, tried' + 1 + pieces') \in Nat
    BY <1>6, <1>13, <2>2
  <2>8. pc' \in Reading => now' <= Span(p, tried' + 1 + pieces') + waited'
    BY <2>4, <2>6, <2>7, <1>13 DEF Reading
  <2> QED
    BY <1>13, <2>5, <2>6, <2>8 DEF Accounted, Reading
<1>14. ASSUME pc' = "done", now' = now, waited' = waited, tried' = tried, pieces' = pieces
       PROVE  Accounted(p)'
  BY <1>10, <1>14 DEF Accounted, Reading
<1>15. CASE Resolve
  <2>1. CASE End("Connection") /\ UNCHANGED <<waited, responseVars, pieces>>
    BY <1>14, <1>15, <2>1 DEF End
  <2>2. CASE tried' = 1 /\ WaitFor("connect") /\ UNCHANGED pieces
    <3>1. now = 0 /\ tried' - 1 = 0
      BY <1>15, <2>2 DEF Resolve, Accounted
    <3>2. Span(p, 0) \in Nat
      BY SpanFacts
    <3>3. tried' + 2 + pieces' \in Nat
      BY <1>2, <2>2
    <3>4. Span(p, tried' + 2 + pieces') \in Nat
      BY <3>3, SpanFacts
    <3> QED
      BY <1>2, <1>11, <1>15, <2>2, <3>1, <3>2, <3>4
      DEF Resolve, Accounted, WaitFor, Reading
  <2> QED
    BY <1>15, <2>1, <2>2 DEF Resolve
<1>16. CASE Connected
  <2>1. now <= Span(p, tried)
    BY <1>2, <1>7, <1>10, <1>16 DEF Connected, Accounted
  <2> QED
    BY <1>2, <1>5, <1>10, <1>11, <1>16, <2>1 DEF Connected, Accounted, WaitFor, Reading
<1>17. CASE ConnectFails
  <2>1. CASE addresses > 1
    <3>1. now <= Span(p, tried)
      BY <1>2, <1>7, <1>10, <1>17 DEF ConnectFails, Accounted
    <3>2. /\ tried' = tried + 1 /\ pieces' = pieces /\ now' = now /\ waited' = 0
          /\ pc' = "connect" /\ error' = "Success"
      BY <1>11, <1>17, <2>1 DEF ConnectFails, WaitFor
    <3>3. tried' - 1 = tried /\ tried' >= 1
      BY <1>2, <3>2
    <3>4. Span(p, tried + 2 + pieces) <= Span(p, tried + 1 + 2 + pieces)
      BY <1>2, <1>3, <1>4
    <3>5. Span(p, tried + 1 + 2 + pieces) \in Nat
      BY <1>4, SpanFacts
    <3>6. now' <= Span(p, tried' + 2 + pieces')
      BY <1>2, <1>6, <1>10, <3>2, <3>4, <3>5
    <3> QED
      BY <1>2, <1>5, <3>1, <3>2, <3>3, <3>6 DEF Accounted, Reading
  <2>2. CASE ~(addresses > 1)
    BY <1>14, <1>17, <2>2 DEF ConnectFails, End
  <2> QED
    BY <2>1, <2>2
<1>18. ASSUME NEW ok \in BOOLEAN, RequestWritten(ok) PROVE Accounted(p)'
  <2>1. now <= Span(p, tried + 1 + pieces)
    BY <1>2, <1>5, <1>6, <1>8, <1>10, <1>18 DEF RequestWritten, Accounted
  <2>2. /\ tried' = tried /\ pieces' = pieces /\ now' = now /\ waited' = 0
        /\ pc' = "status" /\ error' = "Success"
    BY <1>11, <1>18 DEF RequestWritten, WaitFor
  <2> QED
    BY <1>2, <1>6, <1>10, <2>1, <2>2 DEF Accounted, Reading
<1>19. CASE PartOfLine
  BY <1>11, <1>13, <1>19 DEF PartOfLine, Arrives, WaitFor, Reading
<1>20. CASE Interim
  BY <1>11, <1>13, <1>20 DEF Interim, Arrives, WaitFor, Reading
<1>21. CASE InterimEnds
  BY <1>11, <1>13, <1>21 DEF InterimEnds, Arrives, WaitFor, Reading
<1>22. ASSUME NEW s \in Statuses, StatusLine(s) PROVE Accounted(p)'
  BY <1>11, <1>13, <1>22 DEF StatusLine, Arrives, WaitFor, Reading
<1>23. CASE BadLine
  BY <1>12, <1>13, <1>23 DEF BadLine, Arrives, Reading
<1>24. ASSUME NEW f \in Framings \ {"none"}, NEW n \in Lengths \cup {0}, HeadersEnd(f, n)
       PROVE Accounted(p)'
  BY <1>11, <1>13, <1>24 DEF HeadersEnd, Arrives, WaitFor, Reading
<1>25. CASE Block
  BY <1>11, <1>13, <1>25 DEF Block, Arrives, WaitFor, Reading
<1>26. CASE LastChunk
  BY <1>11, <1>13, <1>26 DEF LastChunk, Arrives, Reading
<1>27. CASE PeerCloses
  BY <1>12, <1>14, <1>27 DEF PeerCloses, End
<1>28. CASE ReadFails
  BY <1>12, <1>14, <1>28 DEF ReadFails, End
<1>29. CASE Silence
  <2>1. /\ pc' = pc /\ tried' = tried /\ pieces' = pieces /\ error' = error
        /\ now' = now + 1 /\ waited' = waited + 1 /\ waited # p
        /\ pc \in Waits
    BY <1>29 DEF Silence, Expired
  <2>2. waited' <= p /\ error # "ConnectionTimeout"
    BY <1>2, <1>10, <1>11, <2>1 DEF Waits
  <2>3. CASE pc = "connect"
    <3>1. tried >= 1 /\ now' <= Span(p, tried - 1) + waited'
      BY <1>2, <1>7, <2>1, <2>3 DEF Accounted
    <3>2. now' <= Span(p, tried)
      BY <1>2, <1>7, <2>1, <2>2, <3>1
    <3>3. now' <= Span(p, tried + 2 + pieces)
      BY <1>2, <1>5, <1>6, <1>9, <2>1, <3>2
    <3> QED
      BY <2>1, <2>2, <2>3, <3>1, <3>3 DEF Accounted, Reading
  <2>4. CASE pc = "write"
    <3>1. now' <= Span(p, tried) + waited'
      BY <1>2, <1>5, <2>1, <2>4 DEF Accounted
    <3>2. now' <= Span(p, tried + 2 + pieces)
      BY <1>2, <1>5, <1>6, <1>8, <2>1, <2>2, <3>1
    <3> QED
      BY <2>1, <2>2, <2>4, <3>1, <3>2 DEF Accounted, Reading
  <2>5. CASE pc \in Reading
    <3>1. now' <= Span(p, tried + 1 + pieces) + waited'
      BY <1>2, <1>6, <2>1, <2>5 DEF Accounted
    <3>2. now' <= Span(p, tried + 2 + pieces)
      BY <1>2, <1>6, <2>1, <2>2, <3>1
    <3> QED
      BY <2>1, <2>2, <2>5, <3>1, <3>2 DEF Accounted, Reading
  <2> QED
    BY <2>1, <2>3, <2>4, <2>5 DEF Waits, Reading
<1>30. CASE TimesOut
  <2>1. CASE pc = "write"
    <3>1. now <= Span(p, tried + 1 + pieces)
      BY <1>2, <1>5, <1>6, <1>8, <1>10, <2>1 DEF Accounted
    <3>2. /\ tried' = tried /\ pieces' = pieces /\ now' = now /\ waited' = 0
          /\ pc' = "status" /\ error' = "Success"
      BY <1>11, <1>30, <2>1 DEF TimesOut, WaitFor
    <3> QED
      BY <1>2, <1>6, <1>10, <3>1, <3>2 DEF Accounted, Reading
  <2>2. CASE pc # "write"
    BY <1>12, <1>14, <1>30, <2>2 DEF TimesOut, Expired, End
  <2> QED
    BY <2>1, <2>2
<1>31. CASE UNCHANGED requestVars
  BY <1>31 DEF requestVars, Accounted
<1> QED
  BY <1>15, <1>16, <1>17, <1>18, <1>19, <1>20, <1>21, <1>22, <1>23, <1>24, <1>25,
     <1>26, <1>27, <1>28, <1>29, <1>30, <1>31 DEF RequestNext

\* A connection is given up when its poll has returned 0, and only then.
LEMMA TimeSpentStep ==
  ASSUME RequestInv, [RequestNext]_requestVars
  PROVE  TimeSpent'
<1>1. timeout_seconds \in Timeouts /\ TimeSpent
  BY DEF RequestInv, RequestTypeOK
<1>2. PICK p \in Int : p = PollTimeout
  BY <1>1, PollTimeoutFacts DEF PollTimeout
<1>3. timeout_seconds' = timeout_seconds
  <2> USE DEF requestOf, WaitFor, End
  <2>1. CASE Resolve
    BY <2>1 DEF Resolve
  <2>2. CASE Block
    BY <2>2 DEF Block
  <2>3. ASSUME NEW f \in Framings \ {"none"}, NEW n \in Lengths \cup {0}, HeadersEnd(f, n)
        PROVE  timeout_seconds' = timeout_seconds
    BY <2>3 DEF HeadersEnd
  <2>4. CASE Connected \/ ConnectFails \/ TimesOut \/ Silence \/ PeerCloses \/ ReadFails
    BY <2>4 DEF Connected, ConnectFails, TimesOut, Silence, PeerCloses, ReadFails
  <2>5. CASE PartOfLine \/ Interim \/ InterimEnds \/ BadLine \/ LastChunk
    BY <2>5 DEF PartOfLine, Interim, InterimEnds, BadLine, LastChunk
  <2>6. ASSUME NEW ok \in BOOLEAN, RequestWritten(ok)
        PROVE  timeout_seconds' = timeout_seconds
    BY <2>6 DEF RequestWritten
  <2>7. ASSUME NEW s \in Statuses, StatusLine(s)
        PROVE  timeout_seconds' = timeout_seconds
    BY <2>7 DEF StatusLine
  <2>8. CASE UNCHANGED requestVars
    BY <2>8 DEF requestVars
  <2> QED
    BY <2>1, <2>2, <2>3, <2>4, <2>5, <2>6, <2>7, <2>8 DEF RequestNext
<1>4. PollTimeout' = p
  BY <1>2, <1>3 DEF PollTimeout
<1>5. p >= 0 => Accounted(p)'
  BY <1>1, <1>2, AccountedStep DEF TimeSpent
<1>6. error' = "ConnectionTimeout" => waited' = p
  <2>1. error = "ConnectionTimeout" => waited = p /\ pc = "done"
    BY <1>1, <1>2 DEF TimeSpent, RequestInv, ResponseSoFar
  <2>2. SUFFICES ASSUME error' = "ConnectionTimeout" PROVE waited' = p
    OBVIOUS
  <2>3. CASE UNCHANGED requestVars
    BY <2>1, <2>2, <2>3 DEF requestVars
  <2>4. CASE TimesOut
    BY <1>2, <2>1, <2>2, <2>4 DEF TimesOut, Expired, End, WaitFor, ReadError
  <2>5. CASE RequestNext /\ ~TimesOut
    <3>1. pc # "done"
      BY <2>5 DEF RequestNext, Resolve, Connected, ConnectFails, RequestWritten,
         PartOfLine, Interim, InterimEnds, StatusLine, BadLine, HeadersEnd, Block,
         LastChunk, PeerCloses, ReadFails, Silence, Waits
    <3>2. error' \in {error, "Connection", "Write", "Read", "Success"}
      <4> USE DEF WaitFor, End, ReadError
      <4>1. CASE Resolve \/ Connected \/ ConnectFails \/ PartOfLine \/ Interim \/ InterimEnds
        BY <4>1 DEF Resolve, Connected, ConnectFails, PartOfLine, Interim, InterimEnds
      <4>2. CASE BadLine \/ LastChunk \/ PeerCloses \/ ReadFails \/ Silence
        BY <4>2 DEF BadLine, LastChunk, PeerCloses, ReadFails, Silence
      <4>3. CASE Block
        BY <4>3 DEF Block
      <4>4. ASSUME NEW ok \in BOOLEAN, RequestWritten(ok) PROVE error' = error
        BY <4>4 DEF RequestWritten
      <4>5. ASSUME NEW s \in Statuses, StatusLine(s) PROVE error' = error
        BY <4>5 DEF StatusLine
      <4>6. ASSUME NEW f \in Framings \ {"none"}, NEW n \in Lengths \cup {0}, HeadersEnd(f, n)
            PROVE  error' \in {error, "Write"}
        BY <4>6 DEF HeadersEnd
      <4> QED
        BY <2>5, <4>1, <4>2, <4>3, <4>4, <4>5, <4>6 DEF RequestNext
    <3> QED
      BY <2>1, <2>2, <3>1, <3>2
  <2> QED
    BY <2>3, <2>4, <2>5
<1> HIDE DEF PollTimeout
<1>7. PollTimeout' >= 0 => (Accounted(PollTimeout))'
  <2>1. SUFFICES ASSUME PollTimeout' >= 0 PROVE (Accounted(PollTimeout))'
    OBVIOUS
  <2>2. Accounted(p)'
    BY <1>4, <1>5, <2>1
  <2> QED
    BY <1>4, <2>2 DEF Accounted
<1> QED
  BY <1>4, <1>6, <1>7 DEF TimeSpent

\* No step takes part of a response for one.
LEMMA ResponseStep ==
  ASSUME RequestInv, [RequestNext]_requestVars
  PROVE  ResponseSoFar'
<1>1. RequestTypeOK /\ ResponseSoFar
  BY DEF RequestInv
<1>2. ReadError # "Success"
  BY DEF ReadError
<1>3. 0 \notin Statuses
  BY RequestAssumption
<1>4. \A n \in Lengths \cup {0} : n \in Nat
  BY RequestAssumption
<1>5. body \in Nat /\ length \in Nat
  BY <1>1 DEF RequestTypeOK
<1> USE DEF ResponseSoFar, NoBody, Framed, requestOf
<1>6. ASSUME pc' = "done", error' # "Success", UNCHANGED <<method, status, body>>
      PROVE  ResponseSoFar'
  BY <1>1, <1>6
<1>7. CASE Resolve
  <2>1. CASE End("Connection") /\ UNCHANGED responseVars
    BY <1>6, <1>7, <2>1 DEF Resolve, End, responseVars
  <2>2. CASE WaitFor("connect") /\ UNCHANGED <<written, responseVars>>
    BY <1>1, <1>7, <2>2 DEF Resolve, WaitFor, responseVars
  <2> QED
    BY <1>7, <2>1, <2>2 DEF Resolve
<1>8. CASE Connected
  BY <1>1, <1>8 DEF Connected, WaitFor, responseVars
<1>9. CASE ConnectFails
  <2>1. CASE addresses > 1
    BY <1>1, <1>9, <2>1 DEF ConnectFails, WaitFor, responseVars
  <2>2. CASE ~(addresses > 1)
    BY <1>6, <1>9, <2>2 DEF ConnectFails, End, responseVars
  <2> QED
    BY <2>1, <2>2
<1>10. ASSUME NEW ok \in BOOLEAN, RequestWritten(ok) PROVE ResponseSoFar'
  BY <1>1, <1>10 DEF RequestWritten, WaitFor, responseVars
<1>11. CASE PartOfLine
  BY <1>1, <1>11 DEF PartOfLine, Arrives, WaitFor, responseVars
<1>12. CASE Interim
  BY <1>1, <1>12 DEF Interim, Arrives, WaitFor, responseVars
<1>13. CASE InterimEnds
  BY <1>1, <1>13 DEF InterimEnds, Arrives, WaitFor, responseVars
<1>14. ASSUME NEW s \in Statuses, StatusLine(s) PROVE ResponseSoFar'
  BY <1>1, <1>14 DEF StatusLine, Arrives, WaitFor
<1>15. CASE BadLine
  BY <1>2, <1>6, <1>15 DEF BadLine, responseVars
<1>16. ASSUME NEW f \in Framings \ {"none"}, NEW n \in Lengths \cup {0}, HeadersEnd(f, n)
       PROVE ResponseSoFar'
  <2>1. /\ pc = "headers" /\ f # "none" /\ framing' = f /\ length' = n
        /\ UNCHANGED <<method, status, body, ending, written>>
        /\ body = 0 /\ status \in Statuses /\ error = "Success" /\ ending = "none"
    BY <1>1, <1>16 DEF HeadersEnd, Arrives, WaitFor
  <2>2. CASE ~written
    BY <1>6, <1>16, <2>1, <2>2 DEF HeadersEnd
  <2>3. CASE written /\ (NoBody(status) \/ (f = "length" /\ n = 0))
    <3>1. pc' = "done" /\ error' = "Success"
      BY <1>16, <2>1, <2>3 DEF HeadersEnd
    <3> QED
      BY <2>1, <2>3, <3>1
  <2>4. CASE written /\ ~NoBody(status) /\ ~(f = "length" /\ n = 0)
    <3>1. pc' = "body" /\ error' = "Success"
      BY <1>16, <2>1, <2>4 DEF HeadersEnd, WaitFor
    <3>2. f = "length" => body < n
      BY <1>4, <2>1, <2>4
    <3> QED
      BY <2>1, <2>4, <3>1, <3>2
  <2> QED
    BY <2>2, <2>3, <2>4
<1>17. CASE Block
  <2>1. /\ pc = "body" /\ written /\ status \in Statuses /\ framing # "none"
        /\ ~NoBody(status) /\ error = "Success" /\ ending = "none"
        /\ framing = "length" => body < length
        /\ UNCHANGED <<method, status, framing, length, ending, written>>
    BY <1>1, <1>17 DEF Block, Arrives, WaitFor
  <2>2. CASE body = MaxPayload
    BY <1>6, <1>17, <2>1, <2>2 DEF Block
  <2>3. CASE body # MaxPayload /\ framing = "length" /\ body + 1 = length
    <3>1. body' = length /\ pc' = "done" /\ error' = "Success"
      BY <1>17, <2>1, <2>3 DEF Block
    <3> QED
      BY <2>1, <2>3, <3>1
  <2>4. CASE body # MaxPayload /\ ~(framing = "length" /\ body + 1 = length)
    <3>1. body' = body + 1 /\ pc' = "body" /\ error' = "Success"
      BY <1>17, <2>1, <2>4 DEF Block, WaitFor
    <3>2. framing = "length" => body' < length
      BY <1>5, <2>1, <2>4, <3>1
    <3> QED
      BY <2>1, <3>1, <3>2
  <2> QED
    BY <2>2, <2>3, <2>4
<1>18. CASE LastChunk
  BY <1>1, <1>18 DEF LastChunk, Arrives
<1>19. CASE PeerCloses
  <2>1. CASE CloseEndsBody
    BY <1>1, <1>19, <2>1 DEF PeerCloses, CloseEndsBody, End
  <2>2. CASE ~CloseEndsBody
    BY <1>2, <1>6, <1>19, <2>2 DEF PeerCloses, End
  <2> QED
    BY <2>1, <2>2
<1>20. CASE ReadFails
  BY <1>2, <1>6, <1>20 DEF ReadFails, End, responseVars
<1>21. CASE Silence
  <2>1. /\ pc' = pc /\ pc # "done"
        /\ UNCHANGED <<method, written, status, framing, length, body, error, ending>>
    BY <1>21 DEF Silence, Waits, responseVars
  <2> QED
    BY <1>1, <2>1
<1>22. CASE TimesOut
  <2>1. CASE pc = "write"
    <3>1. /\ pc' = "status"
          /\ UNCHANGED <<method, status, framing, length, body, error, ending>>
      BY <1>22, <2>1 DEF TimesOut, WaitFor, responseVars
    <3>2. /\ error = "Success" /\ ending = "none" /\ framing = "none" /\ body = 0
      BY <1>1, <2>1
    <3> QED
      BY <3>1, <3>2
  <2>2. CASE pc # "write"
    BY <1>2, <1>6, <1>22, <2>2 DEF TimesOut, End, responseVars
  <2> QED
    BY <2>1, <2>2
<1>23. CASE UNCHANGED requestVars
  <2>1. /\ pc' = pc /\ error' = error /\ ending' = ending /\ framing' = framing
        /\ body' = body /\ status' = status /\ length' = length /\ method' = method
    BY ONLY <1>23 DEF requestVars
  <2>2. written' <=> written
    BY ONLY <1>23, Zenon DEF requestVars
  <2>3. Framed' <=> Framed
    BY ONLY <2>1 DEF Framed
  <2> HIDE DEF Framed
  <2> QED
    BY <1>1, <2>1, <2>2, <2>3, SMT
<1> QED
  BY <1>7, <1>8, <1>9, <1>10, <1>11, <1>12, <1>13, <1>14, <1>15, <1>16, <1>17, <1>18,
     <1>19, <1>20, <1>21, <1>22, <1>23 DEF RequestNext

----------------------------------------------------------------------------
\* The inductive invariant holds of every request.
THEOREM RequestInvariantHolds == RequestSpec => []RequestInv
<1>1. RequestInv /\ [RequestNext]_requestVars => RequestInv'
  BY RequestTypeStep, TimeSpentStep, ResponseStep DEF RequestInv
<1> QED
  BY <1>1, RequestInitInv, PTL DEF RequestSpec

\* The client reports a response only when it has all of one.
THEOREM ResponsesAreComplete == RequestSpec => []OnlyCompleteResponses
<1>1. RequestInv => OnlyCompleteResponses
  <2> SUFFICES ASSUME RequestInv, Done, error = "Success" PROVE OnlyCompleteResponses
    BY DEF OnlyCompleteResponses
  <2>1. ResponseSoFar /\ pc = "done" /\ error = "Success"
    BY DEF RequestInv, Done
  <2>2. /\ written /\ status \in Statuses /\ framing # "none"
        /\ ~NoBody(status) => Framed
    BY ONLY <2>1 DEF ResponseSoFar
  <2> QED
    BY <2>2 DEF OnlyCompleteResponses, NoBody, Framed
<1> QED
  BY <1>1, RequestInvariantHolds, PTL

\* The timeout of poll, when it is not negative, bounds each wait of a request,
\* and with the addresses and what arrives, the whole of it; a connection is
\* given up after exactly that time, which is timeout_seconds if the cast to int
\* has not changed it.
THEOREM TimeIsBounded == RequestSpec => []TimeBoundedByProgress
<1>1. RequestInv => TimeBoundedByProgress
  <2> SUFFICES ASSUME RequestInv PROVE TimeBoundedByProgress
    OBVIOUS
  <2>1. timeout_seconds \in Timeouts /\ TimeSpent
    BY DEF RequestInv, RequestTypeOK
  <2>2. timeout_seconds * MILLIS < IntLimit => PollTimeout = timeout_seconds * MILLIS
    BY <2>1, PollTimeoutFacts DEF PollTimeout
  <2>3. PollTimeout >= 0 => now <= PollTimeout * (tried + 2 + pieces)
    BY <2>1 DEF TimeSpent, Accounted, Span
  <2> QED
    BY <2>1, <2>2, <2>3 DEF TimeSpent, TimeBoundedByProgress
<1> QED
  BY <1>1, RequestInvariantHolds, PTL

\* perform_request may take a request for one step with one of Replies.
THEOREM OutcomesAreReplies == RequestSpec => []OutcomeIsAReply
<1>1. RequestInv => OutcomeIsAReply
  <2> SUFFICES ASSUME RequestInv, Done,
                      NEW b \in IF body = 0 THEN {"none"} ELSE Monitor!Bodies \ {"none"}
               PROVE  (IF error = "Success"
                       THEN [error |-> "", status |-> status, body |-> b]
                       ELSE [error |-> error, status |-> 0, body |-> "none"])
                        \in Monitor!Replies(method)
    BY DEF OutcomeIsAReply
  <2>1. CASE error = "Success"
    <3>1. ResponseSoFar /\ pc = "done"
      BY DEF RequestInv, Done
    <3>2. status \in Statuses /\ (NoBody(status) => body = 0)
      BY ONLY <2>1, <3>1 DEF ResponseSoFar
    <3>3. b \in Monitor!Bodies /\ (NoBody(status) => b = "none")
      BY <3>2 DEF Monitor!Bodies
    <3> QED
      BY <2>1, <3>2, <3>3 DEF Monitor!Replies, Monitor!HttpReplies, NoBody
  <2>2. CASE error # "Success"
    <3>1. error \in Errors
      BY <2>2 DEF RequestInv, RequestTypeOK
    <3> QED
      BY <2>2, <3>1 DEF Monitor!Replies, Monitor!TransportFailures
  <2> QED
    BY <2>1, <2>2
<1> QED
  BY <1>1, RequestInvariantHolds, PTL
=============================================================================
