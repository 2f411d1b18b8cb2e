---------------------------- MODULE UploadProofs ----------------------------
(***************************************************************************)
(* TLAPS proofs about Upload, for every limit, body and timeout.           *)
(***************************************************************************)
EXTENDS Upload, TLAPS

\* The counter of countingReader and what the provider has got agree, and stay
\* within the limit and within what the recipient has sent; each way the copying
\* ends says how far it got, the provider stores only after the last chunk, and
\* the response and the records follow from how the handler ended.
UploadInv ==
    /\ TypeOK
    /\ got = n /\ n <= sent /\ n <= MaxUploadSize
    /\ copying = "off" => n = 0
    /\ copying = "eof" => n = size
    /\ copying = "too_large" => size > MaxUploadSize
    /\ reply = Stored => copying = "eof"
    /\ handler = "new" => copying = "off" /\ trail = {}
    /\ handler # "done" => answer = 0
    /\ copying # "off" => "upload-start" \in trail
    /\ answer = 201 => reply = Stored
    /\ answer = 413 => size > MaxUploadSize
    /\ answer = 400 => copying = "off"
    /\ answer \in {403, 404, 410} => reply \in Refusals
    /\ "upload-complete" \in trail =>
          handler = "done" /\ "upload-start" \in trail /\ reply = Stored /\ fileSize = n

\* What the recipient is told of an error is neither success nor the limit.
LEMMA ErrorAnswer ==
    ASSUME NEW err
    PROVE  /\ RecipientStatus(err) \in {403, 404, 410, 500, 503}
           /\ AuditOf(err) \subseteq {"access-denied", "share-expired"}
BY DEF RecipientStatus, AuditOf

\* The invariant holds when the request arrives.
LEMMA UploadInit == Init => UploadInv
BY UploadConfig DEF Init, UploadInv, TypeOK, NoReply, Stored, Chunked, Refusals

\* A failed upload is answered and recorded for what it is, whatever the error.
LEMMA UploadFails ==
    ASSUME UploadInv, handler = "waiting", NEW err,
           RecipientStatus(err) \in {500, 503} \/ reply \in Refusals,
           Respond(RecipientStatus(err), AuditOf(err)),
           UNCHANGED <<request, sent, present, elapsed, n, copying, got, reply, fileSize>>
    PROVE  UploadInv'
<1> USE UploadConfig DEF Stored, NoReply, Chunked, Refusals
<1> DEFINE status == RecipientStatus(err)
           records == AuditOf(err)
<1>1. /\ status \in {403, 404, 410, 500, 503}
      /\ records \subseteq {"access-denied", "share-expired"}
  BY ErrorAnswer
<1>2. handler' = "done" /\ answer' = status /\ trail' = trail \cup records
  BY DEF Respond
<1>3. /\ UNCHANGED <<size, declared, named, sent, present, elapsed, n, copying, got, reply,
                      fileSize>>
  BY DEF request
<1> HIDE DEF status, records
<1>4. TypeOK'
  BY <1>1, <1>2, <1>3 DEF UploadInv, TypeOK
<1>5. "upload-complete" \notin trail'
  BY <1>1, <1>2 DEF UploadInv
<1>6. answer' # 201 /\ answer' # 413 /\ answer' # 400
  BY <1>1, <1>2
<1>7. answer' \in {403, 404, 410} => reply' \in Refusals
  BY <1>2, <1>3 DEF status
<1> QED
  BY <1>2, <1>3, <1>4, <1>5, <1>6, <1>7 DEF UploadInv, TypeOK

\* Every step of the recipient, the handler, the transport and the provider keeps
\* the invariant.
LEMMA UploadStep == UploadInv /\ [Next]_vars => UploadInv'
<1> SUFFICES ASSUME UploadInv, [Next]_vars PROVE UploadInv'
  OBVIOUS
<1> USE UploadConfig DEF Stored, NoReply, Chunked, Refusals
<1>1. CASE SendBody
  <2>1. /\ sent < size /\ sent' = sent + 1
        /\ UNCHANGED <<size, declared, named, present, handler, elapsed, n, copying, got,
                       reply, answer, trail, fileSize>>
    BY <1>1 DEF SendBody, request
  <2> QED
    BY <2>1 DEF UploadInv, TypeOK
<1>2. CASE Disconnect
  <2>1. /\ present' \in BOOLEAN
        /\ UNCHANGED <<size, declared, named, sent, handler, elapsed, n, copying, got,
                       reply, answer, trail, fileSize>>
    BY <1>2 DEF Disconnect, request
  <2> QED
    BY <2>1 DEF UploadInv, TypeOK
<1>3. CASE Begin
  <2>1. /\ handler = "new"
        /\ UNCHANGED <<size, declared, named, sent, present, elapsed, n, got, reply, fileSize>>
    BY <1>3 DEF Begin, request
  <2>2. \/ declared > MaxUploadSize /\ handler' = "done" /\ answer' = 413
            /\ trail' = trail /\ copying' = copying
        \/ handler' = "done" /\ answer' = 400 /\ trail' = trail /\ copying' = copying
        \/ handler' = "waiting" /\ answer' = answer /\ trail' = trail \cup {"upload-start"}
            /\ copying' = "on"
    BY <1>3 DEF Begin, Respond
  <2>3. declared > MaxUploadSize => size > MaxUploadSize
    BY DEF UploadInv, TypeOK
  <2>4. answer = 0
    BY <2>1 DEF UploadInv
  <2>5. n = 0 /\ copying = "off" /\ trail = {}
    BY <2>1 DEF UploadInv
  <2>6. TypeOK'
    BY <2>1, <2>2, <2>4, <2>5 DEF UploadInv, TypeOK
  <2>7. reply # Stored
    BY <2>5 DEF UploadInv
  <2> QED
    BY <2>1, <2>2, <2>3, <2>4, <2>5, <2>6, <2>7 DEF UploadInv, TypeOK
<1>4. CASE Complete
  BY <1>4 DEF Complete, Respond, UploadInv, TypeOK, request
<1>5. CASE BodyFailed
  <2>1. CASE copying = "too_large"
    <3>1. /\ handler' = "done" /\ answer' = 413 /\ trail' = trail
          /\ UNCHANGED <<size, declared, named, sent, present, elapsed, n, copying, got,
                         reply, fileSize>>
      BY <1>5, <2>1 DEF BodyFailed, Respond, request
    <3>2. handler = "waiting"
      BY <1>5 DEF BodyFailed
    <3> QED
      BY <2>1, <3>1, <3>2 DEF UploadInv, TypeOK
  <2>2. CASE copying # "too_large"
    <3>1. /\ handler = "waiting"
          /\ Respond(RecipientStatus("transport"), AuditOf("transport"))
          /\ UNCHANGED <<request, sent, present, elapsed, n, copying, got, reply, fileSize>>
      BY <1>5, <2>2 DEF BodyFailed
    <3>2. RecipientStatus("transport") = 503
      BY DEF RecipientStatus
    <3> QED
      BY <3>1, <3>2, UploadFails
  <2> QED
    BY <2>1, <2>2
<1>6. CASE Refused
  <2> DEFINE err == MapErrorStatus(reply)
  <2>1. /\ handler = "waiting" /\ Respond(RecipientStatus(err), AuditOf(err))
        /\ reply \in Refusals
        /\ UNCHANGED <<request, sent, present, elapsed, n, copying, got, reply, fileSize>>
    BY <1>6 DEF Refused
  <2> HIDE DEF err
  <2> QED
    BY <2>1, UploadFails
<1>7. CASE GiveUp
  <2>1. /\ handler = "waiting"
        /\ Respond(RecipientStatus("transport"), AuditOf("transport"))
        /\ UNCHANGED <<request, sent, present, elapsed, n, copying, got, reply, fileSize>>
    BY <1>7 DEF GiveUp
  <2>2. RecipientStatus("transport") = 503
    BY DEF RecipientStatus
  <2> QED
    BY <2>1, <2>2, UploadFails
<1>8. CASE Copy
  BY <1>8 DEF Copy, Allowance, UploadInv, TypeOK, request
<1>9. CASE Overrun
  BY <1>9 DEF Overrun, Allowance, UploadInv, TypeOK, request
<1>10. CASE EndOfBody
  BY <1>10 DEF EndOfBody, UploadInv, TypeOK, request
<1>11. CASE BrokenBody
  <2>1. /\ copying = "on" /\ copying' = "broken"
        /\ UNCHANGED <<size, declared, named, sent, present, handler, elapsed, n, got,
                       reply, answer, trail, fileSize>>
    BY <1>11 DEF BrokenBody, request
  <2> QED
    BY <2>1 DEF UploadInv, TypeOK
<1>12. CASE Store
  BY <1>12 DEF Store, UploadInv, TypeOK, request
<1>13. CASE Refuse
  BY <1>13 DEF Refuse, UploadInv, TypeOK, request
<1>14. CASE Tick
  BY <1>14 DEF Tick, UploadInv, TypeOK, request
<1>15. CASE UNCHANGED vars
  BY <1>15 DEF vars, UploadInv, TypeOK, request
<1> QED
  BY <1>1, <1>2, <1>3, <1>4, <1>5, <1>6, <1>7, <1>8, <1>9, <1>10, <1>11, <1>12,
     <1>13, <1>14, <1>15 DEF Next, Handle, Transport

\* The invariant holds throughout an upload.
THEOREM UploadInvariant == Spec => []UploadInv
BY UploadInit, UploadStep, PTL DEF Spec

\* The state has its type.
THEOREM UploadTyped == Spec => []TypeOK
<1>1. UploadInv => TypeOK
  BY DEF UploadInv
<1> QED
  BY UploadInvariant, <1>1, PTL

\* What passes on is on record, and a completion gives the size of the file.
THEOREM UploadOnRecord == Spec => []OnRecord
<1>1. UploadInv => OnRecord
  BY UploadConfig DEF UploadInv, OnRecord, TypeOK
<1> QED
  BY UploadInvariant, <1>1, PTL

-----------------------------------------------------------------------------
(* The refinement of Transfer *)

\* What the provider stores is the whole file, and keeps to the limit.
LEMMA StoredIsWhole ==
    ASSUME UploadInv, reply = Stored
    PROVE  got = size /\ size <= MaxUploadSize
BY UploadConfig DEF UploadInv, TypeOK

\* At the start nothing is kept, told or recorded.
LEMMA OutcomeInit == Init => Outcome!Init
BY UploadConfig DEF Init, Outcome!Init, Copied, Told, Recorded, NoReply, Stored

\* An error is told as a refusal of the provider's or leaves the matter open, and
\* the handler has nothing else to say.
LEMMA OutcomeFails ==
    ASSUME UploadInv, handler = "waiting", NEW err,
           RecipientStatus(err) \in {500, 503} \/ reply \in Refusals,
           Respond(RecipientStatus(err), AuditOf(err)),
           UNCHANGED <<request, sent, present, elapsed, n, copying, got, reply, fileSize>>
    PROVE  Outcome!Next
<1>1. /\ RecipientStatus(err) \in {403, 404, 410, 500, 503}
      /\ AuditOf(err) \subseteq {"access-denied", "share-expired"}
  BY ErrorAnswer
<1>2. /\ answer = 0 /\ answer' = RecipientStatus(err)
      /\ trail' = trail \cup AuditOf(err)
      /\ UNCHANGED <<size, got, reply, fileSize>>
  BY DEF Respond, request, UploadInv
<1>3. Copied' = Copied
  BY <1>2 DEF Copied
<1>4. Recorded' <=> Recorded
  BY <1>1, <1>2 DEF Recorded
<1>5. Told = "nothing"
  BY <1>2 DEF Told
<1>6. CASE RecipientStatus(err) \in {500, 503}
  <2>1. Told' = "open"
    BY <1>2, <1>6 DEF Told
  <2>2. Outcome!LeaveOpen
    BY <1>2, <1>3, <1>4, <1>5, <2>1 DEF Outcome!LeaveOpen, Recorded
  <2> QED
    BY <2>2 DEF Outcome!Next
<1>7. CASE RecipientStatus(err) \notin {500, 503}
  <2>1. Told' = "refused"
    BY <1>1, <1>2, <1>7 DEF Told
  <2>2. Copied = "none"
    BY <1>7 DEF Copied, Refusals, Stored
  <2>3. Outcome!Refuse
    BY <1>2, <1>3, <1>4, <1>5, <2>1, <2>2 DEF Outcome!Refuse, Recorded
  <2> QED
    BY <2>3 DEF Outcome!Next
<1> QED
  BY <1>6, <1>7

\* Every step keeps a file, confirms, refuses, leaves the matter open, or does
\* not show.
LEMMA OutcomeStep ==
    UploadInv /\ [Next]_vars
      => [Outcome!Next]_<<size <= MaxUploadSize, Copied, Told, Recorded>>
<1> SUFFICES ASSUME UploadInv, [Next]_vars
             PROVE  [Outcome!Next]_<<size <= MaxUploadSize, Copied, Told, Recorded>>
  OBVIOUS
<1>1. CASE UNCHANGED <<size, got, reply, answer, trail, fileSize>>
  BY <1>1 DEF Copied, Told, Recorded
<1>2. CASE Begin
  <2>1. /\ handler = "new" /\ answer = 0 /\ reply # Stored
        /\ UNCHANGED <<size, declared, got, reply, fileSize>>
    BY <1>2 DEF Begin, request, UploadInv
  <2>2. \/ declared > MaxUploadSize /\ answer' = 413 /\ trail' = trail
        \/ answer' = 400 /\ trail' = trail
        \/ answer' = answer /\ trail' = trail \cup {"upload-start"}
    BY <1>2 DEF Begin, Respond
  <2>3. declared > MaxUploadSize => ~(size <= MaxUploadSize)
    BY UploadConfig DEF UploadInv, TypeOK, Chunked
  <2>4. Copied = "none" /\ Copied' = "none" /\ Told = "nothing"
    BY <2>1 DEF Copied, Told, UploadInv
  <2>5. Recorded' = Recorded
    <3>1. "upload-complete" \notin trail /\ "upload-complete" \notin trail'
      BY <2>1, <2>2 DEF UploadInv
    <3> QED
      BY <3>1 DEF Recorded
  <2>6. CASE declared > MaxUploadSize /\ answer' = 413
    <3>1. Told' = "too_large"
      BY <2>6 DEF Told
    <3> QED
      BY <2>1, <2>3, <2>4, <2>5, <2>6, <3>1
         DEF Outcome!Refuse, Outcome!Next
  <2>7. CASE answer' = 400
    <3>1. Told' = "refused"
      BY <2>7 DEF Told
    <3> QED
      BY <2>1, <2>4, <2>5, <3>1 DEF Outcome!Refuse, Outcome!Next
  <2>8. CASE answer' = answer
    BY <2>1, <2>4, <2>5, <2>8 DEF Told
  <2> QED
    BY <2>2, <2>6, <2>7, <2>8
<1>3. CASE Complete
  <2>1. /\ reply = Stored /\ answer = 0 /\ answer' = 201
        /\ trail' = trail \cup {"upload-complete"} /\ fileSize' = n
        /\ UNCHANGED <<size, got, reply>>
    BY <1>3 DEF Complete, Respond, request, UploadInv
  <2>2. got = size /\ n = size
    BY <2>1, StoredIsWhole DEF UploadInv
  <2>3. Copied = "whole" /\ Copied' = "whole"
    BY <2>1, <2>2 DEF Copied
  <2>4. Told = "nothing" /\ Told' = "kept"
    BY <2>1 DEF Told
  <2>5. Recorded'
    BY <2>1, <2>2 DEF Recorded
  <2> QED
    BY <2>1, <2>3, <2>4, <2>5 DEF Outcome!Confirm, Outcome!Next
<1>4. CASE BodyFailed
  <2>1. CASE copying = "too_large"
    <3>1. /\ handler = "waiting" /\ answer' = 413 /\ trail' = trail
          /\ UNCHANGED <<size, got, reply, fileSize>>
      BY <1>4, <2>1 DEF BodyFailed, Respond, request
    <3>2. answer = 0 /\ ~(size <= MaxUploadSize) /\ reply # Stored
      BY <2>1, <3>1, UploadConfig DEF UploadInv, TypeOK
    <3>3. Copied = "none" /\ Copied' = "none"
      BY <3>1, <3>2 DEF Copied
    <3>4. Told = "nothing" /\ Told' = "too_large"
      BY <3>1, <3>2 DEF Told
    <3>5. Recorded' <=> Recorded
      BY <3>1 DEF Recorded
    <3> QED
      BY <3>1, <3>2, <3>3, <3>4, <3>5 DEF Outcome!Refuse, Outcome!Next, Recorded
  <2>2. CASE copying # "too_large"
    <3>1. /\ handler = "waiting"
          /\ Respond(RecipientStatus("transport"), AuditOf("transport"))
          /\ UNCHANGED <<request, sent, present, elapsed, n, copying, got, reply, fileSize>>
      BY <1>4, <2>2 DEF BodyFailed
    <3>2. RecipientStatus("transport") = 503
      BY DEF RecipientStatus
    <3> QED
      BY <3>1, <3>2, OutcomeFails
  <2> QED
    BY <2>1, <2>2
<1>5. CASE Refused
  <2> DEFINE err == MapErrorStatus(reply)
  <2>1. /\ handler = "waiting" /\ Respond(RecipientStatus(err), AuditOf(err))
        /\ reply \in Refusals
        /\ UNCHANGED <<request, sent, present, elapsed, n, copying, got, reply, fileSize>>
    BY <1>5 DEF Refused
  <2> HIDE DEF err
  <2> QED
    BY <2>1, OutcomeFails
<1>6. CASE GiveUp
  <2>1. /\ handler = "waiting"
        /\ Respond(RecipientStatus("transport"), AuditOf("transport"))
        /\ UNCHANGED <<request, sent, present, elapsed, n, copying, got, reply, fileSize>>
    BY <1>6 DEF GiveUp
  <2>2. RecipientStatus("transport") = 503
    BY DEF RecipientStatus
  <2> QED
    BY <2>1, <2>2, OutcomeFails
<1>7. CASE Copy
  <2>1. /\ reply = NoReply /\ reply' = reply
        /\ UNCHANGED <<size, answer, trail, fileSize>>
    BY <1>7 DEF Copy, request
  <2>2. Copied = "none" /\ Copied' = "none"
    BY <2>1 DEF Copied, NoReply, Stored
  <2> QED
    BY <2>1, <2>2 DEF Told, Recorded
<1>8. CASE Store
  <2>1. /\ copying = "eof" /\ reply = NoReply /\ reply' = Stored
        /\ UNCHANGED <<size, got, answer, trail, fileSize>>
    BY <1>8 DEF Store, request
  <2>2. got = size /\ size <= MaxUploadSize
    BY <2>1, UploadConfig DEF UploadInv, TypeOK
  <2>3. answer \in {0, 500, 503}
    BY <2>1, <2>2, UploadConfig DEF UploadInv, TypeOK, NoReply, Stored, Refusals
  <2>4. Copied = "none" /\ Copied' = "whole"
    BY <2>1, <2>2 DEF Copied, NoReply, Stored
  <2>5. Told \in {"nothing", "open"} /\ Told' = Told
    BY <2>1, <2>3 DEF Told
  <2> QED
    BY <2>1, <2>2, <2>4, <2>5 DEF Outcome!Keep, Outcome!Next, Recorded
<1>9. CASE Refuse
  <2>1. /\ reply = NoReply /\ reply' \in Refusals
        /\ UNCHANGED <<size, answer, trail, fileSize>>
    BY <1>9 DEF Refuse, request
  <2>2. Copied = "none" /\ Copied' = "none"
    BY <2>1 DEF Copied, NoReply, Stored, Refusals
  <2> QED
    BY <2>1, <2>2 DEF Told, Recorded
<1> QED
  BY <1>1, <1>2, <1>3, <1>4, <1>5, <1>6, <1>7, <1>8, <1>9
     DEF Next, Handle, Transport, vars, SendBody, Disconnect, Overrun, EndOfBody,
         BrokenBody, Tick, request

\* The upload promises what Transfer says, for every limit, body and timeout: the
\* file is kept whole or not at all, a verdict is true and final, and only 500 and
\* 503 leave the matter open.
THEOREM UploadImplementsTransfer == Spec => ImplementsTransfer
BY OutcomeInit, OutcomeStep, UploadInvariant, PTL
   DEF Spec, ImplementsTransfer, Outcome!Spec

\* Once the recipient has a verdict, it stays as true as it was: nothing is told, kept
\* or recorded any more.
VerdictFinal ==
    Told \in {"kept", "refused", "too_large"} =>
        /\ Told' = Told
        /\ Copied' = Copied
        /\ Recorded' = Recorded

\* A verdict is final, whatever the provider and the transport still do with the body
\* after writeProviderError has answered: a file that was refused does not turn up
\* later, and one that was confirmed is not lost.
THEOREM UploadVerdictFinal == Spec => [][VerdictFinal]_vars
<1>1. ASSUME UploadInv, [Next]_vars PROVE VerdictFinal
  <2>1. Outcome!Next \/ UNCHANGED <<size <= MaxUploadSize, Copied, Told, Recorded>>
    BY <1>1, OutcomeStep
  <2>2. Outcome!Next => Told \in {"nothing", "open"}
    BY DEF Outcome!Next, Outcome!Keep, Outcome!Confirm, Outcome!Refuse, Outcome!LeaveOpen
  <2> QED
    BY <2>1, <2>2 DEF VerdictFinal
<1>2. UploadInv /\ [Next]_vars => [VerdictFinal]_vars
  BY <1>1
<1> QED
  BY UploadInvariant, <1>2, PTL DEF Spec
==============================================================================
