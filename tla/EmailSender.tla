----------------------------- MODULE EmailSender -----------------------------
(***************************************************************************)
(* EmailSender::send_email and the read_callback through which libcurl      *)
(* pulls the message, mail after mail on one EmailSender.                   *)
(*                                                                          *)
(* libcurl is external: it takes the options, talks to the server, calls    *)
(* read_callback with buffers of whatever size it likes, gives up when one  *)
(* of the two timeouts has passed, and may fail at any moment.  A header    *)
(* line, or the body, is one unit of the message and of a buffer.  Time     *)
(* runs in units of ten seconds.                                            *)
(***************************************************************************)
EXTENDS Integers, Sequences

CONSTANTS
  Recipients,   \* mail addresses
  MaxRecipients,\* bound: addresses of one mail
  BufferSizes,  \* what libcurl's buffers hold
  MaxMails      \* bound: send_email calls

ASSUME EmailAssumption ==
  /\ MaxRecipients \in Nat
  /\ BufferSizes \subseteq Nat \ {0}
  /\ MaxMails \in Nat

\* CURLOPT_TIMEOUT and CURLOPT_CONNECTTIMEOUT, 30 and 10 seconds.
TIMEOUT == 3
CONNECTTIMEOUT == 1

VARIABLES
  pc,             \* where send_email is; "idle" outside a call
  recipients,     \* its argument
  recipient_list, \* the curl_slist; <<>> is nullptr
  appended,       \* recipients handed to curl_slist_append
  payload, index, \* upload_status
  timeouts,       \* [total, connect] given to libcurl; 0 is "no limit"
  returned,       \* the return value, meaningful when pc = "returned"
  stage,          \* libcurl: how far the transfer is
  elapsed,        \* libcurl: time since the transfer was started
  envelope,       \* server: the recipients it accepted
  wire,           \* libcurl: the message as read so far
  code,           \* libcurl: what curl_easy_perform returns
  append_failed,  \* history: curl_slist_append ran out of memory
  live_handles,   \* history: handles not yet cleaned up
  live_nodes,     \* history: list nodes not yet freed
  lost_nodes,     \* history: those no pointer leads to any more
  mails           \* send_email calls so far

senderVars == <<recipients, recipient_list, appended, payload, index, timeouts,
                returned>>
curlVars == <<stage, elapsed, envelope, wire, code>>
memoryVars == <<append_failed, live_handles, live_nodes, lost_nodes>>
vars == <<pc, senderVars, curlVars, memoryVars, mails>>

Lines == Recipients \cup {"From", "Subject", "Content-Type", "", "body"}

\* The message: its headers, the empty line, and the body.
Payload(rs) ==
  <<"From">> \o rs \o <<"Subject", "Content-Type", "", "body">>

NoTimeouts == [total |-> 0, connect |-> 0]

Init ==
  /\ pc = "idle"
  /\ recipients = <<>> /\ recipient_list = <<>> /\ appended = 0
  /\ payload = <<>> /\ index = 0
  /\ timeouts = NoTimeouts
  /\ returned = FALSE
  /\ stage = "none" /\ elapsed = 0 /\ envelope = <<>> /\ wire = <<>>
  /\ code = "none"
  /\ append_failed = FALSE /\ live_handles = 0
  /\ live_nodes = 0 /\ lost_nodes = 0
  /\ mails = 0

----------------------------------------------------------------------------
Refused_NoHandleCheck(rs, handle) == rs = <<>>

Refused(rs, handle) == rs = <<>> \/ ~handle

\* The call: nothing is done for an empty list of recipients, nor without a
\* handle.  A call's locals are new.
SendEmail(rs, handle) ==
  /\ pc \in {"idle", "returned"}
  /\ mails < MaxMails
  /\ mails' = mails + 1
  /\ recipients' = rs
  /\ recipient_list' = <<>> /\ appended' = 0
  /\ payload' = <<>> /\ index' = 0
  /\ timeouts' = NoTimeouts
  /\ returned' = FALSE
  /\ stage' = "none" /\ elapsed' = 0 /\ envelope' = <<>> /\ wire' = <<>>
  /\ code' = "none"
  /\ append_failed' = FALSE
  /\ IF Refused(rs, handle)
     THEN pc' = "returned" /\ UNCHANGED live_handles
     ELSE pc' = "append" /\ live_handles' = live_handles + (IF handle THEN 1 ELSE 0)
  /\ UNCHANGED <<live_nodes, lost_nodes>>

\* curl_slist_append: the new list, or nullptr when memory is short.  The
\* code assigns either to recipient_list; the list it had is then lost.
AppendRecipient(memory) ==
  /\ pc = "append"
  /\ appended < Len(recipients)
  /\ appended' = appended + 1
  /\ IF memory
     THEN /\ recipient_list' = Append(recipient_list, recipients[appended + 1])
          /\ live_nodes' = live_nodes + 1
          /\ UNCHANGED <<append_failed, lost_nodes>>
     ELSE /\ recipient_list' = <<>>
          /\ append_failed' = TRUE
          /\ lost_nodes' = lost_nodes + Len(recipient_list)
          /\ UNCHANGED live_nodes
  /\ UNCHANGED <<pc, recipients, payload, index, timeouts, returned, curlVars,
                 live_handles, mails>>

Timeouts_ConnectOnly == [total |-> 0, connect |-> CONNECTTIMEOUT]

Timeouts == [total |-> TIMEOUT, connect |-> CONNECTTIMEOUT]

\* The payload, upload_status, the options, and the call of curl_easy_perform.
Prepare ==
  /\ pc = "append"
  /\ appended = Len(recipients)
  /\ payload' = Payload(recipients)
  /\ index' = 0
  /\ timeouts' = Timeouts
  /\ stage' = "connect"
  /\ pc' = "perform"
  /\ UNCHANGED <<recipients, recipient_list, appended, returned, elapsed,
                 envelope, wire, code, memoryVars, mails>>

----------------------------------------------------------------------------
\* Inside curl_easy_perform.

\* Connected, authenticated; the server takes the sender and every recipient
\* of the list.  Without a list there is no mail to transfer: libcurl sends
\* the server a command instead, which may well succeed.
Connected ==
  /\ pc = "perform" /\ stage = "connect"
  /\ elapsed' = elapsed
  /\ IF recipient_list # <<>>
     THEN stage' = "data" /\ envelope' = recipient_list /\ code' = code
     ELSE stage' = "done" /\ envelope' = envelope /\ code' = "ok"
  /\ UNCHANGED <<pc, senderVars, wire, memoryVars, mails>>

Remaining == Len(payload) - index

BytesToCopy(size) == IF Remaining < size THEN Remaining ELSE size

Advanced_ByOne(size) == index + 1

Advanced(size) == index + BytesToCopy(size)

\* read_callback, for a buffer of this size: 0 tells libcurl that the message
\* is complete.
ReadCallback(size) ==
  /\ pc = "perform" /\ stage = "data"
  /\ IF Remaining = 0
     THEN stage' = "sent" /\ UNCHANGED <<index, wire>>
     ELSE /\ wire' = wire \o SubSeq(payload, index + 1, index + BytesToCopy(size))
          /\ index' = Advanced(size)
          /\ UNCHANGED stage
  /\ UNCHANGED <<pc, recipients, recipient_list, appended, payload, timeouts,
                 returned, elapsed, envelope, code, memoryVars, mails>>

\* The server takes the complete message.
Accepted ==
  /\ pc = "perform" /\ stage = "sent"
  /\ stage' = "done" /\ code' = "ok"
  /\ UNCHANGED <<pc, senderVars, elapsed, envelope, wire, memoryVars, mails>>

\* Any error the network, TLS or the server makes of the transfer.
TransferFails ==
  /\ pc = "perform" /\ stage \in {"connect", "data", "sent"}
  /\ stage' = "done" /\ code' = "error"
  /\ UNCHANGED <<pc, senderVars, elapsed, envelope, wire, memoryVars, mails>>

Limit == IF stage = "connect" THEN timeouts.connect ELSE timeouts.total

\* Time passes on a silent peer, until libcurl gives up.
Waits ==
  /\ pc = "perform" /\ stage \in {"connect", "data", "sent"}
  /\ Limit # 0
  /\ IF elapsed < Limit
     THEN elapsed' = elapsed + 1 /\ UNCHANGED <<stage, code>>
     ELSE stage' = "done" /\ code' = "error" /\ UNCHANGED elapsed
  /\ UNCHANGED <<pc, senderVars, envelope, wire, memoryVars, mails>>

----------------------------------------------------------------------------
ReturnValue_Always == TRUE

ReturnValue == code = "ok"

HandlesAfterCleanup_OkOnly == IF code = "ok" THEN live_handles - 1 ELSE live_handles

\* curl_easy_cleanup
HandlesAfterCleanup == live_handles - 1

\* curl_easy_perform is back: the list and the handle are freed, and the code
\* decides what send_email returns.
Return ==
  /\ pc = "perform" /\ stage = "done"
  /\ live_nodes' = live_nodes - Len(recipient_list)
  /\ recipient_list' = <<>>
  /\ live_handles' = HandlesAfterCleanup
  /\ returned' = ReturnValue
  /\ pc' = "returned"
  /\ UNCHANGED <<recipients, appended, payload, index, timeouts, curlVars,
                 append_failed, lost_nodes, mails>>

RecipientLists == UNION { [1 .. n -> Recipients] : n \in 0 .. MaxRecipients }

Next ==
  \/ \E rs \in RecipientLists, handle \in BOOLEAN : SendEmail(rs, handle)
  \/ \E memory \in BOOLEAN : AppendRecipient(memory)
  \/ Prepare
  \/ Connected
  \/ \E size \in BufferSizes : ReadCallback(size)
  \/ Accepted
  \/ TransferFails
  \/ Waits
  \/ Return

\* send_email's own steps are taken, and time passes; whether the network and
\* the server ever answer is not assumed.
Fairness ==
  /\ WF_vars(\E memory \in BOOLEAN : AppendRecipient(memory))
  /\ WF_vars(Prepare)
  /\ WF_vars(Waits)
  /\ WF_vars(Return)

Spec == Init /\ [][Next]_vars /\ Fairness

----------------------------------------------------------------------------
\* Every variable holds a value of its type.
TypeOK ==
  /\ pc \in {"idle", "append", "perform", "returned"}
  /\ recipients \in Seq(Recipients)
  /\ recipient_list \in Seq(Recipients)
  /\ appended \in 0 .. Len(recipients)
  /\ payload \in Seq(Lines)
  /\ index \in 0 .. Len(payload)
  /\ timeouts \in [total : {0, TIMEOUT}, connect : {0, CONNECTTIMEOUT}]
  /\ returned \in BOOLEAN
  /\ stage \in {"none", "connect", "data", "sent", "done"}
  /\ elapsed \in 0 .. TIMEOUT
  /\ envelope \in Seq(Recipients)
  /\ wire \in Seq(Lines)
  /\ code \in {"none", "ok", "error"}
  /\ append_failed \in BOOLEAN
  /\ live_handles \in Nat
  /\ live_nodes \in Nat
  /\ lost_nodes \in Nat
  /\ mails \in 0 .. MaxMails

\* Whatever buffers libcurl offers, what it has read is the beginning of the
\* message, each part once and in order.
UploadIsPrefix == wire = SubSeq(payload, 1, index)

\* send_email returns true only for a mail whose every recipient the server
\* took, and whose message it got to the last line; unless memory ran out
\* while the list of recipients was built.
TrueMeansDelivered ==
  pc = "returned" /\ returned /\ ~append_failed =>
    /\ recipients # <<>>
    /\ envelope = recipients
    /\ wire = Payload(recipients)

\* However often and on whichever path the calls ended, a returned call leaves
\* no handle, and no node of its list but those that an append lost.
NothingLeaks ==
  pc = "returned" =>
    /\ live_handles = 0
    /\ live_nodes = lost_nodes
    /\ ~append_failed /\ mails = 1 => live_nodes = 0

\* A call ends, even when the peer falls silent in the middle of it.
SendEnds == pc = "append" ~> pc = "returned"
=============================================================================
