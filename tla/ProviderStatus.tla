--------------------------- MODULE ProviderStatus ---------------------------
(***************************************************************************)
(* From what the storage provider answers to what the recipient is told    *)
(* and what is put on record: mapErrorStatus of internal/provider/client.go *)
(* followed by writeProviderError of internal/proxy/proxy.go.              *)
(***************************************************************************)
EXTENDS Integers

\* Non-2xx answers of the provider, 500 standing for every other status; 0 stands
\* for no answer at all (unreachable, broken connection, timeout).
Refusals == {0, 403, 404, 410, 500}

\* The sentinel error an answer is mapped to.
MapErrorStatus(status) ==
    CASE status = 403 -> "ErrForbidden"
      [] status = 404 -> "ErrShareNotFound"
      [] status = 410 -> "ErrShareGone"
      [] status = 0   -> "transport"
      [] OTHER        -> "ErrUnexpectedStatus"

\* Mutant: a failed call is reported as a bad gateway.
BadGateway(err) ==
    CASE err = "ErrShareNotFound"     -> 404
      [] err = "ErrForbidden"         -> 403
      [] err = "ErrShareGone"         -> 410
      [] err = "ErrUnexpectedStatus"  -> 500
      [] OTHER                        -> 502

\* The status the recipient gets for an error.
RecipientStatus(err) ==
    CASE err = "ErrShareNotFound"     -> 404
      [] err = "ErrForbidden"         -> 403
      [] err = "ErrShareGone"         -> 410
      [] err = "ErrUnexpectedStatus"  -> 500
      [] OTHER                        -> 503

\* The audit records of an error; faults of the operator leave none.
AuditOf(err) ==
    CASE err \in {"ErrShareNotFound", "ErrForbidden"} -> {"access-denied"}
      [] err = "ErrShareGone"                         -> {"share-expired"}
      [] OTHER                                        -> {}
=============================================================================
