--------------------------- MODULE DownloadProofs ---------------------------
(***************************************************************************)
(* TLAPS proofs about Download, for every file, timeout and window.        *)
(***************************************************************************)
EXTENDS Download, TLAPS

\* Nothing is written before the start is on record; a body at its end was offered
\* to its last unit; a completion is recorded, and the recipient satisfied, only
\* once nothing is written any more, and of a declared length only when all is.
DownloadInv ==
    /\ TypeOK
    /\ handler = "calling" => n = 0 /\ answer = 0 /\ trail = {}
    /\ handler = "copying" => answer = 200
    /\ answer = 200 => declared = known /\ "download-start" \in trail
    /\ n > 0 => answer = 200
    /\ body = "eof" => offered = size
    /\ "download-complete" \in trail =>
          /\ handler = "done" /\ answer = 200
          /\ n = size /\ fileSize = size
    /\ verdict = "whole" =>
          /\ handler = "done" /\ answer = 200 /\ got = n
          /\ known = TRUE => n = size

\* What the recipient is told of an error is no success, and no start is recorded.
LEMMA DownloadErrorAnswer ==
    ASSUME NEW err
    PROVE  /\ RecipientStatus(err) \in {403, 404, 410, 500, 503}
           /\ AuditOf(err) \subseteq {"access-denied", "share-expired"}
BY DEF RecipientStatus, AuditOf

\* The invariant holds when the request arrives.
LEMMA DownloadInit == Init => DownloadInv
<1> SUFFICES ASSUME Init PROVE DownloadInv
  OBVIOUS
<1>1. /\ size \in 0 .. MaxSize /\ known \in BOOLEAN /\ declared \in BOOLEAN
      /\ present \in BOOLEAN
  BY DEF Init
<1>2. /\ elapsed = 0 /\ handler = "calling" /\ body = "none"
      /\ offered = 0 /\ n = 0 /\ got = 0
      /\ answer = 0 /\ verdict = "open" /\ trail = {} /\ fileSize = 0
  BY DEF Init
<1> QED
  BY <1>1, <1>2, DownloadConfig DEF DownloadInv, TypeOK

\* A call that fails, for whatever reason, keeps the invariant.
LEMMA DownloadFails ==
    ASSUME DownloadInv, NEW status, Fail(status)
    PROVE  DownloadInv'
<1> DEFINE told == RecipientStatus(MapErrorStatus(status))
           records == AuditOf(MapErrorStatus(status))
<1>1. /\ told \in {403, 404, 410, 500, 503}
      /\ records \subseteq {"access-denied", "share-expired"}
  BY DownloadErrorAnswer
<1>2. /\ handler = "calling" /\ handler' = "done"
      /\ answer' = told /\ trail' = trail \cup records
      /\ UNCHANGED <<size, known, declared, elapsed, body, offered, n, got, present,
                     verdict, fileSize>>
  BY DEF Fail
<1> HIDE DEF told, records
<1>3. n = 0 /\ trail = {}
  BY <1>2 DEF DownloadInv
<1>4. verdict # "whole"
  BY <1>2 DEF DownloadInv
<1>5. TypeOK'
  BY <1>1, <1>2, <1>3 DEF DownloadInv, TypeOK
<1> QED
  BY <1>1, <1>2, <1>3, <1>4, <1>5 DEF DownloadInv, TypeOK

\* Every step of the provider, the handler and the network keeps the invariant.
LEMMA DownloadStep == DownloadInv /\ [Next]_vars => DownloadInv'
<1> SUFFICES ASSUME DownloadInv, [Next]_vars PROVE DownloadInv'
  OBVIOUS
<1> USE DownloadConfig
<1>1. CASE Open
  BY <1>1 DEF Open, DownloadInv, TypeOK
<1>2. CASE Offer
  BY <1>2 DEF Offer, DownloadInv, TypeOK
<1>3. CASE Break
  BY <1>3 DEF Break, DownloadInv, TypeOK
<1>4. CASE Expire
  <2>1. CASE Fail(0)
    BY <2>1, DownloadFails
  <2>2. CASE ~Fail(0)
    <3>1. /\ body = "open" /\ body' = "broken"
          /\ UNCHANGED <<size, known, declared, elapsed, handler, offered, n, got, present,
                         answer, verdict, trail, fileSize>>
      BY <1>4, <2>2 DEF Expire
    <3> QED
      BY <3>1 DEF DownloadInv, TypeOK
  <2> QED
    BY <2>1, <2>2
<1>5. CASE Refused
  BY <1>5, DownloadFails DEF Refused
<1>6. CASE Start
  BY <1>6 DEF Start, DownloadInv, TypeOK
<1>7. CASE Copy
  BY <1>7 DEF Copy, DownloadInv, TypeOK
<1>8. CASE Complete
  BY <1>8 DEF Complete, DownloadInv, TypeOK
<1>9. CASE Interrupted
  <2>1. /\ handler = "copying" /\ handler' = "done"
        /\ UNCHANGED <<size, known, declared, elapsed, body, offered, n, got, present, answer,
                       verdict, trail, fileSize>>
    BY <1>9 DEF Interrupted
  <2> QED
    BY <2>1 DEF DownloadInv, TypeOK
<1>10. CASE Deliver
  <2>1. /\ got < n /\ got' = got + 1
        /\ UNCHANGED <<size, known, declared, elapsed, handler, body, offered, n, present,
                       answer, verdict, trail, fileSize>>
    BY <1>10 DEF Deliver
  <2> QED
    BY <2>1 DEF DownloadInv, TypeOK
<1>11. CASE Finish
  <2>1. /\ handler = "done" /\ answer = 200 /\ got = n
        /\ UNCHANGED <<size, known, declared, elapsed, handler, body, offered, n, got,
                       present, answer, trail, fileSize>>
    BY <1>11 DEF Finish
  <2>2. declared = known
    BY <2>1 DEF DownloadInv
  <2>3. \/ verdict' = "cut"
        \/ verdict' = "whole" /\ (known = TRUE => ~(n < size))
    BY <1>11, <2>2 DEF Finish
  <2>4. n \in Int /\ size \in Int /\ n <= size
    BY DEF DownloadInv, TypeOK
  <2>5. known = TRUE /\ verdict' = "whole" => n = size
    BY <2>3, <2>4
  <2> QED
    BY <2>1, <2>3, <2>5 DEF DownloadInv, TypeOK
<1>12. CASE Leave
  <2>1. /\ present' \in BOOLEAN /\ verdict' = "cut"
        /\ UNCHANGED <<size, known, declared, elapsed, handler, body, offered, n, got, answer,
                       trail, fileSize>>
    BY <1>12 DEF Leave
  <2> QED
    BY <2>1 DEF DownloadInv, TypeOK
<1>13. CASE Tick
  BY <1>13 DEF Tick, DownloadInv, TypeOK
<1>14. CASE UNCHANGED vars
  BY <1>14 DEF vars, DownloadInv, TypeOK
<1> QED
  BY <1>1, <1>2, <1>3, <1>4, <1>5, <1>6, <1>7, <1>8, <1>9, <1>10, <1>11, <1>12,
     <1>13, <1>14 DEF Next, Handle

\* The invariant holds throughout a download.
THEOREM DownloadInvariant == Spec => []DownloadInv
BY DownloadInit, DownloadStep, PTL DEF Spec

\* The state has its type.
THEOREM DownloadTyped == Spec => []TypeOK
<1>1. DownloadInv => TypeOK
  BY DEF DownloadInv
<1> QED
  BY DownloadInvariant, <1>1, PTL

\* No byte leaves unrecorded, and a completion on record is one of the whole file.
THEOREM DownloadOnRecord == Spec => []OnRecord
<1>1. DownloadInv => OnRecord
  <2> SUFFICES ASSUME DownloadInv PROVE OnRecord
    OBVIOUS
  <2>1. got > 0 => n > 0
    BY DEF DownloadInv, TypeOK
  <2> QED
    BY <2>1 DEF DownloadInv, OnRecord
<1> QED
  BY DownloadInvariant, <1>1, PTL

\* Of a file of declared length the recipient takes nothing short of it for whole.
THEOREM DownloadDeclaredMeansWhole == Spec => []DeclaredMeansWhole
<1>1. DownloadInv => DeclaredMeansWhole
  <2> SUFFICES ASSUME DownloadInv, known, verdict = "whole" PROVE got = size
    BY DEF DeclaredMeansWhole
  <2>1. known = TRUE
    BY DEF DownloadInv, TypeOK
  <2> QED
    BY <2>1 DEF DownloadInv
<1> QED
  BY DownloadInvariant, <1>1, PTL
=============================================================================
