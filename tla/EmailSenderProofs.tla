-------------------------- MODULE EmailSenderProofs --------------------------
(***************************************************************************)
(* What send_email guarantees for every list of recipients, every size of   *)
(* libcurl's buffers and every way a transfer may end: SenderInv is         *)
(* inductive, and the invariants of EmailSender follow from it.             *)
(***************************************************************************)
EXTENDS EmailSender, SequenceTheorems, TLAPS

Busy == pc \in {"append", "perform"}

\* One handle while the call is between its init and its cleanup; every node is
\* in the list or lost, and none was lost by a first mail whose appends worked.
Memory ==
  /\ live_handles = IF Busy THEN 1 ELSE 0
  /\ live_nodes = lost_nodes + Len(recipient_list)
  /\ ~Busy => recipient_list = <<>>
  /\ mails = 0 => pc = "idle" /\ lost_nodes = 0
  /\ (mails = 1 /\ ~append_failed) => lost_nodes = 0

\* What the list has got is what was handed to curl_slist_append.
Listed ==
  Busy => /\ recipients # <<>>
          /\ ~append_failed => recipient_list = SubSeq(recipients, 1, appended)

NothingYet ==
  payload = <<>> /\ index = 0 /\ wire = <<>> /\ envelope = <<>> /\ stage = "none"

\* The envelope is the list, and the message went out to its last line before
\* the server was asked to take it.
Transferred ==
  /\ appended = Len(recipients)
  /\ payload = Payload(recipients)
  /\ stage # "none"
  /\ stage \in {"data", "sent"} => envelope = recipient_list
  /\ stage = "sent" => index = Len(payload)
  /\ (stage = "done" /\ code = "ok" /\ recipient_list # <<>>) =>
       envelope = recipient_list /\ index = Len(payload)

\* The inductive invariant of send_email.
SenderInv ==
  /\ TypeOK
  /\ UploadIsPrefix
  /\ Memory
  /\ Listed
  /\ pc \in {"idle", "append"} => NothingYet
  /\ pc = "perform" => Transferred
  /\ TrueMeansDelivered

----------------------------------------------------------------------------
\* A message is a sequence of lines.
LEMMA PayloadTyped ==
  ASSUME NEW rs \in Seq(Recipients)
  PROVE  Payload(rs) \in Seq(Lines)
<1>1. rs \in Seq(Lines)
  BY SeqMonotonic DEF Lines
<1>2. /\ <<"From">> \in Seq(Lines)
      /\ <<"Subject", "Content-Type", "", "body">> \in Seq(Lines)
  BY DEF Lines
<1> QED
  BY <1>1, <1>2, ConcatProperties DEF Payload

\* The lists of recipients a call is tried with are sequences.
LEMMA ListsAreSequences == RecipientLists \subseteq Seq(Recipients)
BY EmailAssumption, SeqDef DEF RecipientLists

\* The time-outs a call starts with, and the empty sequences, are typed.
LEMMA StartTyped ==
  /\ NoTimeouts \in [total : {0, TIMEOUT}, connect : {0, CONNECTTIMEOUT}]
  /\ <<>> \in Seq(Recipients) /\ <<>> \in Seq(Lines) /\ Len(<<>>) = 0
  /\ 0 \in 0 .. MaxMails /\ 0 \in 0 .. TIMEOUT
<1>1. NoTimeouts \in [total : {0, TIMEOUT}, connect : {0, CONNECTTIMEOUT}]
  BY DEF NoTimeouts
<1>2. 0 \in 0 .. MaxMails /\ 0 \in 0 .. TIMEOUT
  BY EmailAssumption DEF TIMEOUT
<1> QED
  BY <1>1, <1>2, EmptySeq

\* The invariant reads nothing but the variables of the sender.
LEMMA SenderStutter ==
  ASSUME SenderInv, UNCHANGED vars
  PROVE  SenderInv'
BY DEF SenderInv, TypeOK, UploadIsPrefix, Memory, Busy, Listed, NothingYet,
       Transferred, TrueMeansDelivered, vars, senderVars, curlVars, memoryVars

\* No mail has been asked for yet.
LEMMA SenderInitInv == Init => SenderInv
<1> SUFFICES ASSUME Init PROVE SenderInv
  OBVIOUS
<1>1. SubSeq(payload, 1, index) = <<>>
  BY SubSeqEmpty DEF Init
<1>2. TypeOK
  <2>1. timeouts \in [total : {0, TIMEOUT}, connect : {0, CONNECTTIMEOUT}]
        /\ elapsed \in 0 .. TIMEOUT /\ mails \in 0 .. MaxMails
    BY StartTyped DEF Init
  <2>2. /\ recipients \in Seq(Recipients) /\ recipient_list \in Seq(Recipients)
        /\ payload \in Seq(Lines) /\ wire \in Seq(Lines) /\ envelope \in Seq(Recipients)
    BY StartTyped DEF Init
  <2>3. appended \in 0 .. Len(recipients) /\ index \in 0 .. Len(payload)
    BY DEF Init
  <2> QED
    BY <2>1, <2>2, <2>3 DEF Init, TypeOK
<1>3. Memory
  BY DEF Init, Memory, Busy
<1> QED
  BY <1>1, <1>2, <1>3
  DEF Init, SenderInv, UploadIsPrefix, Busy, Listed, NothingYet, TrueMeansDelivered

\* A new call starts with no list, no message and at most one handle, whatever
\* the call before it left behind.
LEMMA SendEmailInv ==
  ASSUME SenderInv, NEW rs \in RecipientLists, NEW handle \in BOOLEAN,
         SendEmail(rs, handle)
  PROVE  SenderInv'
<1> USE DEF SendEmail
<1>1. rs \in Seq(Recipients)
  BY ListsAreSequences
<1>2. TypeOK /\ Memory /\ ~Busy
  BY DEF SenderInv, Busy
<1>3. \/ pc' = "returned" /\ live_handles' = 0
      \/ pc' = "append" /\ live_handles' = 1 /\ rs # <<>>
  BY <1>2 DEF Refused, Memory
<1>4. TypeOK'
  <2>1. mails' \in 0 .. MaxMails
    BY <1>2, EmailAssumption DEF TypeOK
  <2>2. live_handles' \in Nat /\ pc' \in {"append", "returned"}
    BY <1>3
  <2>3. /\ recipients' \in Seq(Recipients) /\ recipient_list' \in Seq(Recipients)
        /\ payload' \in Seq(Lines) /\ wire' \in Seq(Lines)
        /\ envelope' \in Seq(Recipients)
    BY <1>1, StartTyped
  <2>4. appended' \in 0 .. Len(recipients') /\ index' \in 0 .. Len(payload')
    BY <1>1
  <2>5. timeouts' \in [total : {0, TIMEOUT}, connect : {0, CONNECTTIMEOUT}]
        /\ elapsed' \in 0 .. TIMEOUT
    BY StartTyped
  <2> QED
    BY <1>2, <2>1, <2>2, <2>3, <2>4, <2>5 DEF TypeOK
<1>5. SubSeq(payload', 1, index') = <<>>
  BY SubSeqEmpty
<1>6. Memory'
  BY <1>2, <1>3 DEF Memory, Busy, TypeOK
<1>7. SubSeq(rs, 1, 0) = <<>>
  BY SubSeqEmpty
<1>8. Listed'
  BY <1>3, <1>7 DEF Listed, Busy
<1> QED
  BY <1>3, <1>4, <1>5, <1>6, <1>8
  DEF SenderInv, UploadIsPrefix, NothingYet, TrueMeansDelivered

\* An append extends the list by the next recipient, or loses all of it.
LEMMA AppendRecipientInv ==
  ASSUME SenderInv, NEW memory \in BOOLEAN, AppendRecipient(memory)
  PROVE  SenderInv'
<1> USE DEF AppendRecipient, curlVars
<1>1. TypeOK /\ Memory /\ Listed /\ NothingYet /\ Busy /\ pc = "append"
  BY DEF SenderInv, Busy
<1>2. recipients[appended + 1] \in Recipients /\ appended + 1 \in 1 .. Len(recipients)
  BY <1>1, ElementOfSeq DEF TypeOK
<1>3. Len(recipient_list) \in Nat
  BY <1>1 DEF TypeOK
<1>4. CASE memory
  <2>1. /\ recipient_list' \in Seq(Recipients)
        /\ Len(recipient_list') = Len(recipient_list) + 1
    <3>1. /\ recipient_list \in Seq(Recipients)
          /\ recipient_list' = Append(recipient_list, recipients[appended + 1])
      BY <1>1, <1>4 DEF TypeOK
    <3> QED
      BY <1>2, <3>1, AppendProperties
  <2>2. TypeOK'
    BY <1>1, <1>2, <1>4, <2>1 DEF TypeOK
  <2>3. Memory'
    BY <1>1, <1>3, <1>4, <2>1 DEF Memory, Busy, TypeOK
  <2>4. ~append_failed' => recipient_list' = SubSeq(recipients', 1, appended')
    <3> SUFFICES ASSUME ~append_failed
                 PROVE  recipient_list' = SubSeq(recipients, 1, appended + 1)
      BY <1>1, <1>4
    <3>1. recipients \in Seq(Recipients) /\ appended \in Nat
      BY <1>1 DEF TypeOK
    <3>2. /\ SubSeq(recipients, 1, appended) \in Seq(Recipients)
          /\ SubSeq(recipients, 1, appended + 1) =
               SubSeq(recipients, 1, appended) \o <<recipients[appended + 1]>>
      <4>1. \A i \in 1 .. appended : recipients[i] \in Recipients
        BY <1>2, <3>1, ElementOfSeq
      <4>2. (appended + 1) - 1 = appended
        BY <3>1
      <4>3. appended + 1 \in 1 .. Len(recipients) /\ 1 \in 1 .. Len(recipients)
        BY <1>2, <3>1
      <4>4. SubSeq(recipients, 1, appended + 1) =
              SubSeq(recipients, 1, (appended + 1) - 1) \o <<recipients[appended + 1]>>
        BY <3>1, <4>3, SubSeqRecursiveSecond
      <4> QED
        BY <3>1, <4>1, <4>2, <4>4, SubSeqProperties
    <3>3. recipient_list = SubSeq(recipients, 1, appended)
      BY <1>1 DEF Listed
    <3>4. recipient_list' =
            SubSeq(recipients, 1, appended) \o <<recipients[appended + 1]>>
      BY <1>2, <1>4, <3>2, <3>3, AppendIsConcat
    <3> QED
      BY <3>2, <3>4
  <2> QED
    BY <1>1, <2>2, <2>3, <2>4
    DEF SenderInv, UploadIsPrefix, Listed, NothingYet, Busy, TrueMeansDelivered
<1>5. CASE ~memory
  <2>1. TypeOK'
    BY <1>1, <1>2, <1>3, <1>5 DEF TypeOK
  <2>2. Memory'
    BY <1>1, <1>3, <1>5 DEF Memory, Busy, TypeOK
  <2> QED
    BY <1>1, <1>5, <2>1, <2>2
    DEF SenderInv, UploadIsPrefix, Listed, NothingYet, Busy, TrueMeansDelivered
<1> QED
  BY <1>4, <1>5

\* The message is complete before libcurl is called.
LEMMA PrepareInv ==
  ASSUME SenderInv, Prepare
  PROVE  SenderInv'
<1> USE DEF Prepare, memoryVars
<1>1. TypeOK /\ Memory /\ Listed /\ NothingYet /\ Busy /\ pc = "append"
  BY DEF SenderInv, Busy
<1>2. Payload(recipients) \in Seq(Lines)
  BY <1>1, PayloadTyped DEF TypeOK
<1>3. TypeOK'
  BY <1>1, <1>2 DEF TypeOK, Timeouts, TIMEOUT, CONNECTTIMEOUT
<1>4. SubSeq(payload', 1, index') = <<>>
  BY SubSeqEmpty
<1> QED
  BY <1>1, <1>3, <1>4
  DEF SenderInv, UploadIsPrefix, Memory, Listed, NothingYet, Busy, Transferred,
      TrueMeansDelivered

\* The server takes the whole list or is sent no mail at all.
LEMMA ConnectedInv ==
  ASSUME SenderInv, Connected
  PROVE  SenderInv'
<1> USE DEF Connected, senderVars, memoryVars
<1>1. TypeOK /\ Memory /\ Listed /\ Transferred /\ UploadIsPrefix /\ pc = "perform"
  BY DEF SenderInv
<1>2. TypeOK'
  BY <1>1 DEF TypeOK
<1>3. Memory' /\ Listed' /\ Transferred' /\ UploadIsPrefix'
  BY <1>1 DEF Memory, Listed, Transferred, UploadIsPrefix, Busy
<1> QED
  BY <1>1, <1>2, <1>3 DEF SenderInv, TrueMeansDelivered

\* A buffer continues the message where the last one ended; it is empty only
\* when there is nothing left.
LEMMA ReadCallbackInv ==
  ASSUME SenderInv, NEW size \in BufferSizes, ReadCallback(size)
  PROVE  SenderInv'
<1> USE DEF ReadCallback, memoryVars
<1>1. TypeOK /\ Memory /\ Listed /\ Transferred /\ UploadIsPrefix /\ pc = "perform"
  BY DEF SenderInv
<1>2. payload \in Seq(Lines) /\ index \in 0 .. Len(payload) /\ Len(payload) \in Nat
  BY <1>1 DEF TypeOK
<1>3. Memory' /\ Listed'
  BY <1>1 DEF Memory, Listed, Busy
<1>4. CASE Remaining = 0
  <2>1. index = Len(payload)
    BY <1>2, <1>4 DEF Remaining
  <2>2. TypeOK' /\ Transferred' /\ UploadIsPrefix'
    BY <1>1, <1>4, <2>1 DEF TypeOK, Transferred, UploadIsPrefix
  <2> QED
    BY <1>1, <1>3, <2>2 DEF SenderInv, TrueMeansDelivered
<1>5. CASE Remaining # 0
  <2> DEFINE next == index + BytesToCopy(size)
  <2>1. next \in index .. Len(payload) /\ index + 1 \in 1 .. Len(payload) + 1
    BY <1>2, EmailAssumption DEF BytesToCopy, Remaining
  <2>2. SubSeq(payload, 1, index) \o SubSeq(payload, index + 1, next) =
          SubSeq(payload, 1, next)
    BY <1>2, <2>1, ConcatAdjacentSubSeq
  <2>3. UploadIsPrefix'
    BY <1>1, <1>5, <2>2 DEF UploadIsPrefix, Advanced
  <2>4. SubSeq(payload, 1, next) \in Seq(Lines)
    <3>1. \A i \in 1 .. next : payload[i] \in Lines
      BY <1>2, <2>1, ElementOfSeq
    <3>2. next \in Int
      BY <1>2, <2>1
    <3> QED
      BY <3>1, <3>2, SubSeqProperties
  <2>5. TypeOK'
    BY <1>1, <1>5, <2>1, <2>2, <2>3, <2>4 DEF TypeOK, UploadIsPrefix, Advanced
  <2>6. Transferred'
    BY <1>1, <1>5 DEF Transferred
  <2> QED
    BY <1>1, <1>3, <2>3, <2>5, <2>6 DEF SenderInv, TrueMeansDelivered
<1> QED
  BY <1>4, <1>5

\* libcurl's other steps: the transfer ends, or time passes.
LEMMA TransferStepInv ==
  ASSUME SenderInv, Accepted \/ TransferFails \/ Waits
  PROVE  SenderInv'
<1> USE DEF Accepted, TransferFails, Waits, senderVars, memoryVars
<1>1. TypeOK /\ Memory /\ Listed /\ Transferred /\ UploadIsPrefix /\ pc = "perform"
  BY DEF SenderInv
<1>2. TypeOK'
  <2>1. elapsed' \in 0 .. TIMEOUT
    BY <1>1 DEF TypeOK, Limit, TIMEOUT, CONNECTTIMEOUT
  <2> QED
    BY <1>1, <2>1 DEF TypeOK
<1>3. Memory' /\ Listed' /\ UploadIsPrefix'
  BY <1>1 DEF Memory, Listed, UploadIsPrefix, Busy
<1>4. Transferred'
  BY <1>1 DEF Transferred
<1> QED
  BY <1>1, <1>2, <1>3, <1>4 DEF SenderInv, TrueMeansDelivered

\* send_email frees what it holds, and says true for a transfer that went well.
LEMMA ReturnInv ==
  ASSUME SenderInv, Return
  PROVE  SenderInv'
<1> USE DEF Return, curlVars
<1>1. TypeOK /\ Memory /\ Listed /\ Transferred /\ UploadIsPrefix /\ Busy
      /\ pc = "perform" /\ stage = "done"
  BY DEF SenderInv, Busy
<1>2. Len(recipient_list) \in Nat /\ live_nodes' = lost_nodes
  BY <1>1 DEF TypeOK, Memory
<1>3. TypeOK'
  BY <1>1, <1>2 DEF TypeOK, Memory, HandlesAfterCleanup, ReturnValue
<1>4. Memory'
  BY <1>1, <1>2 DEF Memory, Busy, HandlesAfterCleanup
<1>5. TrueMeansDelivered'
  <2> SUFFICES ASSUME code = "ok", ~append_failed
               PROVE  /\ recipients # <<>>
                      /\ envelope = recipients
                      /\ wire = Payload(recipients)
    BY DEF TrueMeansDelivered, ReturnValue
  <2>1. recipients \in Seq(Recipients) /\ payload \in Seq(Lines)
    BY <1>1 DEF TypeOK
  <2>2. recipients # <<>> /\ recipient_list = recipients
    BY <1>1, <2>1, SubSeqFull DEF Listed, Transferred
  <2>3. envelope = recipients /\ wire = SubSeq(payload, 1, Len(payload))
    BY <1>1, <2>2 DEF Transferred, UploadIsPrefix
  <2> QED
    BY <1>1, <2>1, <2>2, <2>3, SubSeqFull DEF Transferred
<1>6. UploadIsPrefix'
  BY <1>1 DEF UploadIsPrefix
<1> QED
  BY <1>3, <1>4, <1>5, <1>6 DEF SenderInv, Listed, Busy

\* Every step of the sender keeps the invariant.
LEMMA SenderNextInv ==
  ASSUME SenderInv, [Next]_vars
  PROVE  SenderInv'
<1>1. CASE Next
  BY <1>1, SendEmailInv, AppendRecipientInv, PrepareInv, ConnectedInv,
     ReadCallbackInv, TransferStepInv, ReturnInv
  DEF Next
<1> QED
  BY <1>1, SenderStutter

\* The inductive invariant holds of every sequence of mails.
THEOREM SenderInvariantHolds == Spec => []SenderInv
BY SenderInitInv, SenderNextInv, PTL DEF Spec

\* The locals of send_email, the upload and the counters keep their types.
THEOREM SenderTypeCorrect == Spec => []TypeOK
<1>1. SenderInv => TypeOK
  BY DEF SenderInv
<1> QED
  BY <1>1, SenderInvariantHolds, PTL

\* read_callback hands out the message from its beginning, without a gap or a
\* repetition, for every sequence of buffer sizes.
THEOREM UploadIsAPrefix == Spec => []UploadIsPrefix
<1>1. SenderInv => UploadIsPrefix
  BY DEF SenderInv
<1> QED
  BY <1>1, SenderInvariantHolds, PTL

\* A true from send_email means that the whole message went to every recipient,
\* unless memory ran out for the list.
THEOREM TrueIsDelivered == Spec => []TrueMeansDelivered
<1>1. SenderInv => TrueMeansDelivered
  BY DEF SenderInv
<1> QED
  BY <1>1, SenderInvariantHolds, PTL

\* However many mails are sent and however they end, each returned call has
\* freed its handle and its list.
THEOREM NoLeak == Spec => []NothingLeaks
<1>1. SenderInv => NothingLeaks
  <2> SUFFICES ASSUME SenderInv, pc = "returned" PROVE NothingLeaks
    BY DEF NothingLeaks
  <2>1. Memory /\ TypeOK
    BY DEF SenderInv
  <2> QED
    BY <2>1 DEF Memory, Busy, TypeOK, NothingLeaks
<1> QED
  BY <1>1, SenderInvariantHolds, PTL
=============================================================================
