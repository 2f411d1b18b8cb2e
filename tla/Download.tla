------------------------------ MODULE Download ------------------------------
(***************************************************************************)
(* One download through the streaming proxy: HandleDownload,               *)
(* HandleFolderFileDownload and streamContent of internal/proxy/proxy.go   *)
(* on top of Download and DownloadFolderFile of internal/provider/client.go. *)
(*                                                                         *)
(* The handler copies from the provider into the response; what it has     *)
(* written reaches the recipient later, if at all.  When the handler       *)
(* returns, the HTTP server ends the response: with a declared length the  *)
(* recipient can tell a short body, with chunked encoding the server       *)
(* writes the last chunk and the body looks complete.                      *)
(***************************************************************************)
EXTENDS ProviderStatus

CONSTANTS
    MaxSize,       \* bound: the largest file
    StreamTimeout, \* PROVIDER_TIMEOUT
    Window         \* what fits between the handler and the recipient

ASSUME DownloadConfig ==
    /\ MaxSize \in Nat /\ StreamTimeout \in Nat \ {0}
    /\ Window \in Nat \ {0}

VARIABLES
    size,     \* length of the file
    known,    \* does the provider declare it (ContentLength >= 0)?
    declared, \* does the response declare it (Content-Length)?
    elapsed,  \* time since the provider was called
    handler,  \* where the handler is
    body,     \* the provider's body: "none", "open", "eof" or "broken"
    offered,  \* how much of the file the provider has sent
    n,        \* how much the handler has written to the response
    got,      \* how much has reached the recipient
    present,  \* is the recipient still there?
    answer,   \* status of the response, 0: none yet
    verdict,  \* what the recipient makes of the body: "open", "whole", "cut"
    trail,    \* audit and completion records
    fileSize  \* file_size of the completion record

vars == <<size, known, declared, elapsed, handler, body, offered, n, got, present, answer,
          verdict, trail, fileSize>>

-----------------------------------------------------------------------------
(* The provider (external) *)

\* It opens the file.
Open ==
    /\ handler = "calling" /\ body = "none"
    /\ body' = "open"
    /\ UNCHANGED <<size, known, declared, elapsed, handler, offered, n, got, present, answer,
                   verdict, trail, fileSize>>

Offer ==
    /\ body = "open"
    /\ IF offered < size THEN offered' = offered + 1 /\ UNCHANGED body
                         ELSE body' = "eof" /\ UNCHANGED offered
    /\ UNCHANGED <<size, known, declared, elapsed, handler, n, got, present, answer, verdict,
                   trail, fileSize>>

\* The backend fails to read on, or the link breaks.
Break ==
    /\ body = "open"
    /\ body' = "broken"
    /\ UNCHANGED <<size, known, declared, elapsed, handler, offered, n, got, present, answer,
                   verdict, trail, fileSize>>

-----------------------------------------------------------------------------
(* The handler *)

Fail(status) ==
    LET err == MapErrorStatus(status) IN
    /\ handler = "calling" /\ body = "none"
    /\ handler' = "done"
    /\ answer' = RecipientStatus(err)
    /\ trail' = trail \cup AuditOf(err)
    /\ UNCHANGED <<size, known, declared, elapsed, body, offered, n, got, present, verdict, fileSize>>

\* provider.Download failed.
Refused == \E status \in Refusals : Fail(status)

\* Mutant: the timeout covers only the wait for the answer.
ExpireCall == elapsed >= StreamTimeout /\ Fail(0)

\* The timeout of streamClient covers the call and the reading of the body.
Expire ==
    /\ elapsed >= StreamTimeout
    /\ \/ Fail(0)
       \/ /\ body = "open"
          /\ body' = "broken"
          /\ UNCHANGED <<size, known, declared, elapsed, handler, offered, n, got, present,
                         answer, verdict, trail, fileSize>>

\* Mutant: Content-Length is not passed on.
StartChunked ==
    /\ handler = "calling" /\ body # "none"
    /\ handler' = "copying"
    /\ answer' = 200
    /\ trail' = trail \cup {"download-start"}
    /\ declared' = FALSE
    /\ UNCHANGED <<size, known, elapsed, body, offered, n, got, present, verdict, fileSize>>

\* The record and the headers, before anything is copied.
Start ==
    /\ handler = "calling" /\ body # "none"
    /\ handler' = "copying"
    /\ answer' = 200
    /\ declared' = known
    /\ trail' = trail \cup {"download-start"}
    /\ UNCHANGED <<size, known, elapsed, body, offered, n, got, present, verdict, fileSize>>

\* io.Copy: what was read is written as soon as there is room for it, whether or
\* not it gets through.
Copy ==
    /\ handler = "copying"
    /\ n < offered /\ n - got < Window
    /\ n' = n + 1
    /\ UNCHANGED <<size, known, declared, elapsed, handler, body, offered, got, present, answer,
                   verdict, trail, fileSize>>

\* The end of the body: the completion is recorded with what was written.
Complete ==
    /\ handler = "copying"
    /\ body = "eof" /\ n = offered
    /\ handler' = "done"
    /\ trail' = trail \cup {"download-complete"}
    /\ fileSize' = n
    /\ UNCHANGED <<size, known, declared, elapsed, body, offered, n, got, present, answer, verdict>>

\* Mutant: an interrupted copy is recorded like a complete one.
InterruptedCompletes ==
    /\ handler = "copying"
    /\ \/ body = "broken" /\ n = offered
       \/ ~present /\ n < offered
    /\ handler' = "done"
    /\ trail' = trail \cup {"download-complete"}
    /\ fileSize' = n
    /\ UNCHANGED <<size, known, declared, elapsed, body, offered, n, got, present, answer, verdict>>

\* The body broke, or the recipient is gone and writing fails: logged, no more.
Interrupted ==
    /\ handler = "copying"
    /\ \/ body = "broken" /\ n = offered
       \/ ~present /\ n < offered
    /\ handler' = "done"
    /\ UNCHANGED <<size, known, declared, elapsed, body, offered, n, got, present, answer, verdict,
                   trail, fileSize>>

-----------------------------------------------------------------------------
(* The way to the recipient (external: net/http and the network) *)

Deliver ==
    /\ present /\ got < n
    /\ got' = got + 1
    /\ UNCHANGED <<size, known, declared, elapsed, handler, body, offered, n, present, answer,
                   verdict, trail, fileSize>>

\* The handler has returned and everything it wrote is delivered.
Finish ==
    /\ present /\ verdict = "open"
    /\ handler = "done" /\ answer = 200 /\ got = n
    /\ verdict' = IF declared /\ n < size THEN "cut" ELSE "whole"
    /\ UNCHANGED <<size, known, declared, elapsed, handler, body, offered, n, got, present, answer,
                   trail, fileSize>>

Leave ==
    /\ present /\ verdict = "open"
    /\ present' = FALSE
    /\ verdict' = "cut"
    /\ UNCHANGED <<size, known, declared, elapsed, handler, body, offered, n, got, answer, trail,
                   fileSize>>

Tick ==
    /\ elapsed < StreamTimeout
    /\ elapsed' = elapsed + 1
    /\ UNCHANGED <<size, known, declared, handler, body, offered, n, got, present, answer,
                   verdict, trail, fileSize>>

-----------------------------------------------------------------------------

Init ==
    /\ size \in 0 .. MaxSize /\ known \in BOOLEAN /\ declared = FALSE
    /\ elapsed = 0
    /\ handler = "calling" /\ body = "none"
    /\ offered = 0 /\ n = 0 /\ got = 0
    /\ present = TRUE /\ answer = 0 /\ verdict = "open"
    /\ trail = {} /\ fileSize = 0

Handle == Refused \/ Start \/ Copy \/ Complete \/ Interrupted

Next == Open \/ Offer \/ Break \/ Expire \/ Handle \/ Deliver \/ Finish \/ Leave \/ Tick

Spec == Init /\ [][Next]_vars

\* The gateway runs and time passes, and a recipient who is there reads on (the
\* server has no timeout for one who does not).  Refused is the provider's doing
\* and not asked for; of the provider nothing is asked.
FairSpec == /\ Spec /\ WF_vars(Tick) /\ WF_vars(Expire) /\ WF_vars(Deliver)
            /\ WF_vars(Start \/ Copy \/ Complete \/ Interrupted)

-----------------------------------------------------------------------------
(* Properties *)

\* The type of the state.
TypeOK ==
    /\ size \in 0 .. MaxSize /\ {known, declared} \subseteq BOOLEAN /\ elapsed \in Nat
    /\ handler \in {"calling", "copying", "done"}
    /\ body \in {"none", "open", "eof", "broken"}
    /\ offered \in 0 .. size /\ n \in 0 .. offered /\ got \in 0 .. n
    /\ present \in BOOLEAN
    /\ answer \in {0, 200, 403, 404, 410, 500, 503}
    /\ verdict \in {"open", "whole", "cut"}
    /\ trail \subseteq {"download-start", "download-complete", "access-denied",
                        "share-expired"}
    /\ fileSize \in Nat

\* No byte leaves without a start on record; a completion on record means that the
\* whole file was passed on, and gives its size.
OnRecord ==
    /\ got > 0 => "download-start" \in trail
    /\ "download-complete" \in trail =>
          n = size /\ fileSize = size /\ "download-start" \in trail

\* A transfer that broke off never looks complete to the recipient, if the provider
\* declared the length of the file.
DeclaredMeansWhole == known /\ verdict = "whole" => got = size

\* proxy.go: "HandleDownload streams a share's content to the recipient".  A body
\* the recipient takes to be whole is the whole content.
WholeMeansWhole == verdict = "whole" => got = size

\* Every download comes to an end, however the provider stalls or fails.
Ended == <>(handler = "done")
=============================================================================
