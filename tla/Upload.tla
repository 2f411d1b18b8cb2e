------------------------------- MODULE Upload -------------------------------
(***************************************************************************)
(* One upload through the streaming proxy: HandleUpload of                 *)
(* internal/proxy/proxy.go on top of Upload of internal/provider/client.go. *)
(*                                                                         *)
(* Four parties move on their own: the recipient sends the body, the       *)
(* transport of the provider client copies it through countingReader and   *)
(* MaxBytesReader to the provider, the provider answers when it pleases,   *)
(* and the handler waits for whichever outcome comes first.  Sizes are in  *)
(* units the copying does not split.                                       *)
(***************************************************************************)
EXTENDS ProviderStatus

CONSTANTS
    MaxUploadSize,  \* MAX_UPLOAD_SIZE
    MaxSize,        \* bound: the largest body
    StreamTimeout   \* PROVIDER_TIMEOUT

ASSUME UploadConfig ==
    /\ MaxUploadSize \in Nat \ {0} /\ MaxSize \in Nat
    /\ StreamTimeout \in Nat \ {0}

VARIABLES
    size,      \* length of the body
    declared,  \* Content-Length, or Chunked
    named,     \* does the request carry X-Atrium-Filename?
    sent,      \* how much of the body has reached the gateway
    present,   \* is the recipient still there?
    handler,   \* where HandleUpload is
    elapsed,   \* time since the provider was called
    n,         \* countingReader.n
    copying,   \* the transport: "off", "on", "eof", or why it gave up
    got,       \* how much of the body has reached the provider
    reply,     \* the provider's answer: NoReply, Stored or a refusal
    answer,    \* status of the response, 0: none yet
    trail,     \* audit and completion records
    fileSize   \* file_size of the completion record

vars == <<size, declared, named, sent, present, handler, elapsed, n, copying,
          got, reply, answer, trail, fileSize>>

request == <<size, declared, named>>

Chunked == -1
NoReply == -1
Stored == 201

-----------------------------------------------------------------------------
(* The recipient *)

SendBody ==
    /\ present /\ sent < size
    /\ sent' = sent + 1
    /\ UNCHANGED <<request, present, handler, elapsed, n, copying, got, reply,
                   answer, trail, fileSize>>

\* The tab is closed or the link breaks; some of the body may never arrive.
Disconnect ==
    /\ present /\ answer = 0
    /\ present' = FALSE
    /\ UNCHANGED <<request, sent, handler, elapsed, n, copying, got, reply,
                   answer, trail, fileSize>>

-----------------------------------------------------------------------------
(* HandleUpload *)

Respond(status, records) ==
    /\ handler' = "done"
    /\ answer' = status
    /\ trail' = trail \cup records

\* The cheap checks, before anything is read; then the call to the provider.
Begin ==
    /\ handler = "new"
    /\ IF declared > MaxUploadSize THEN
          /\ Respond(413, {}) /\ UNCHANGED copying
       ELSE IF ~named THEN
          /\ Respond(400, {}) /\ UNCHANGED copying
       ELSE
          /\ handler' = "waiting"
          /\ trail' = trail \cup {"upload-start"}
          /\ copying' = "on"
          /\ UNCHANGED answer
    /\ UNCHANGED <<request, sent, present, elapsed, n, got, reply, fileSize>>

\* Mutant: the completion records the declared length.
CompleteDeclared ==
    /\ handler = "waiting" /\ reply = Stored
    /\ Respond(201, {"upload-complete"})
    /\ fileSize' = declared
    /\ UNCHANGED <<request, sent, present, elapsed, n, copying, got, reply>>

\* The provider took the file.
Complete ==
    /\ handler = "waiting" /\ reply = Stored
    /\ Respond(201, {"upload-complete"})
    /\ fileSize' = n
    /\ UNCHANGED <<request, sent, present, elapsed, n, copying, got, reply>>

\* The transport reports the error of the body before any answer of the provider;
\* a MaxBytesError shows through it.
BodyFailed ==
    /\ handler = "waiting" /\ copying \in {"too_large", "broken"}
    /\ IF copying = "too_large"
       THEN Respond(413, {})
       ELSE Respond(RecipientStatus("transport"), AuditOf("transport"))
    /\ UNCHANGED <<request, sent, present, elapsed, n, copying, got, reply, fileSize>>

\* The provider refused, or could not be reached.
Refused ==
    /\ handler = "waiting" /\ reply \in Refusals
    /\ LET err == MapErrorStatus(reply) IN Respond(RecipientStatus(err), AuditOf(err))
    /\ UNCHANGED <<request, sent, present, elapsed, n, copying, got, reply, fileSize>>

\* Mutant: transfers have no timeout.
NeverGiveUp ==
    /\ handler = "waiting"
    /\ ~present
    /\ Respond(RecipientStatus("transport"), AuditOf("transport"))
    /\ UNCHANGED <<request, sent, present, elapsed, n, copying, got, reply, fileSize>>

\* The timeout of streamClient covers the whole exchange; the end of the request's
\* context, once the recipient is gone, has the same effect.
GiveUp ==
    /\ handler = "waiting"
    /\ elapsed >= StreamTimeout \/ ~present
    /\ Respond(RecipientStatus("transport"), AuditOf("transport"))
    /\ UNCHANGED <<request, sent, present, elapsed, n, copying, got, reply, fileSize>>

-----------------------------------------------------------------------------
(* The transport: it stops when the handler has its outcome *)

\* Mutant: the limit itself is not allowed.
AllowanceOffByOne == MaxUploadSize - 1 - n

\* What MaxBytesReader still hands out.
Allowance == MaxUploadSize - n

Copy ==
    /\ copying = "on" /\ handler = "waiting" /\ reply = NoReply
    /\ n < sent /\ Allowance > 0
    /\ n' = n + 1
    /\ got' = got + 1
    /\ UNCHANGED <<request, sent, present, handler, elapsed, copying, reply,
                   answer, trail, fileSize>>

\* The body goes on after the last unit that is allowed.
Overrun ==
    /\ copying = "on" /\ handler = "waiting"
    /\ n < sent /\ Allowance = 0
    /\ copying' = "too_large"
    /\ UNCHANGED <<request, sent, present, handler, elapsed, n, got, reply,
                   answer, trail, fileSize>>

\* Mutant: a reader that ends at the limit instead of failing (io.LimitReader).
EndAtLimit ==
    /\ copying = "on" /\ handler = "waiting"
    /\ n = size \/ Allowance = 0
    /\ copying' = "eof"
    /\ UNCHANGED <<request, sent, present, handler, elapsed, n, got, reply,
                   answer, trail, fileSize>>

\* The body is at its end: the last chunk tells the provider so.
EndOfBody ==
    /\ copying = "on" /\ handler = "waiting"
    /\ n = size
    /\ copying' = "eof"
    /\ UNCHANGED <<request, sent, present, handler, elapsed, n, got, reply,
                   answer, trail, fileSize>>

\* The body breaks off: the provider is left without a last chunk.
BrokenBody ==
    /\ copying = "on" /\ handler = "waiting"
    /\ ~present /\ n = sent /\ sent < size
    /\ copying' = "broken"
    /\ UNCHANGED <<request, sent, present, handler, elapsed, n, got, reply,
                   answer, trail, fileSize>>

-----------------------------------------------------------------------------
(* The provider (external): it stores a file once it has seen its last chunk, *)
(* and may refuse or fail at any time before.                                 *)

Store ==
    /\ copying = "eof" /\ reply = NoReply
    /\ reply' = Stored
    /\ UNCHANGED <<request, sent, present, handler, elapsed, n, copying, got,
                   answer, trail, fileSize>>

Refuse ==
    /\ copying # "off" /\ reply = NoReply
    /\ reply' \in Refusals
    /\ UNCHANGED <<request, sent, present, handler, elapsed, n, copying, got,
                   answer, trail, fileSize>>

Tick ==
    /\ handler = "waiting" /\ elapsed < StreamTimeout
    /\ elapsed' = elapsed + 1
    /\ UNCHANGED <<request, sent, present, handler, n, copying, got, reply,
                   answer, trail, fileSize>>

-----------------------------------------------------------------------------

Init ==
    /\ size \in 0 .. MaxSize
    /\ declared \in {size, Chunked}
    /\ named \in BOOLEAN
    /\ sent = 0 /\ present = TRUE
    /\ handler = "new" /\ elapsed = 0
    /\ n = 0 /\ copying = "off"
    /\ got = 0 /\ reply = NoReply
    /\ answer = 0 /\ trail = {} /\ fileSize = 0

Handle == Begin \/ Complete \/ BodyFailed \/ Refused \/ GiveUp

Transport == Copy \/ Overrun \/ EndOfBody \/ BrokenBody

Next == SendBody \/ Disconnect \/ Handle \/ Transport \/ Store \/ Refuse \/ Tick

Spec == Init /\ [][Next]_vars

\* The gateway runs and time passes; nothing is asked of the recipient and the
\* provider, who may stall for ever.
FairSpec == Spec /\ WF_vars(Handle) /\ WF_vars(Tick)

-----------------------------------------------------------------------------
(* Properties *)

\* The type of the state.
TypeOK ==
    /\ size \in 0 .. MaxSize /\ declared \in {size, Chunked} /\ named \in BOOLEAN
    /\ sent \in 0 .. size /\ present \in BOOLEAN
    /\ handler \in {"new", "waiting", "done"}
    /\ elapsed \in Nat
    /\ n \in 0 .. size /\ got \in 0 .. size
    /\ copying \in {"off", "on", "eof", "too_large", "broken"}
    /\ reply \in {NoReply, Stored} \cup Refusals
    /\ answer \in {0, 201, 400, 403, 404, 410, 413, 500, 503}
    /\ trail \subseteq {"upload-start", "upload-complete", "access-denied", "share-expired"}
    /\ fileSize \in Int

\* What of the file the provider keeps.
Copied ==
    CASE reply # Stored -> "none"
      [] reply = Stored /\ got = size -> "whole"
      [] OTHER -> "part"

\* How the recipient reads the status: 500 and 503 give no verdict.
Told ==
    CASE answer = 0 -> "nothing"
      [] answer = 201 -> "kept"
      [] answer = 413 -> "too_large"
      [] answer \in {500, 503} -> "open"
      [] OTHER -> "refused"

\* Is the completion on record, and with the size of the file?
Recorded == "upload-complete" \in trail /\ fileSize = size

Outcome == INSTANCE Transfer WITH
    fits <- size <= MaxUploadSize, copy <- Copied, told <- Told, record <- Recorded

\* The upload keeps what Transfer promises.  The provider keeps all of a file
\* within the limit or nothing, whichever way the body is cut short; 201 is told
\* only of a file that is kept, with its size on record, and 413 only of one above
\* the limit; after 400, 403, 404, 410 and 413 the file is not kept, then or
\* later, so that trying again makes no second copy.  After 500 and 503 it may still be kept (proxy.go: "an unexpected
\* status (500) or transport failure (503) is an operator fault").
ImplementsTransfer == Outcome!Spec

\* No byte reaches the provider without a start on record, and a completion is on
\* record only of a file that is stored, with the size it has.
OnRecord ==
    /\ got > 0 => "upload-start" \in trail
    /\ "upload-complete" \in trail => reply = Stored /\ fileSize = size

\* Every upload is answered: no recipient who stalls and no provider who does not
\* answer holds the handler for longer than the timeout.
Answered == <>(answer # 0)
=============================================================================
