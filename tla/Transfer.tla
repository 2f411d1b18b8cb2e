------------------------------ MODULE Transfer ------------------------------
(***************************************************************************)
(* What an upload promises the recipient, said without bodies, timeouts    *)
(* and connections: HandleUpload and writeProviderError of                 *)
(* internal/proxy/proxy.go seen from outside.  A file is kept whole or not *)
(* at all, a confirmation and a refusal are both final, and only the       *)
(* answer that gives no verdict leaves the matter open.                    *)
(***************************************************************************)

VARIABLES
    fits,   \* does the file keep to the limit?
    copy,   \* what the provider keeps: "none" or "whole"
    told,   \* what the recipient was told: "nothing", "kept", "too_large",
            \* "refused", "open"
    record  \* is the completion, with the size of the file, on record?

\* The provider keeps the file; after an answer that left the matter open, too,
\* but never once the recipient was told that it was refused.
Keep ==
    /\ fits /\ copy = "none" /\ told \in {"nothing", "open"}
    /\ copy' = "whole"
    /\ UNCHANGED <<fits, told, record>>

\* Only a file that is kept is confirmed, and that goes on record.
Confirm ==
    /\ copy = "whole" /\ told = "nothing"
    /\ told' = "kept" /\ record' = TRUE
    /\ UNCHANGED <<fits, copy>>

\* Only a file that is not kept is refused, and only one above the limit for its
\* size.
Refuse ==
    /\ copy = "none" /\ told = "nothing"
    /\ told' \in IF fits THEN {"refused"} ELSE {"refused", "too_large"}
    /\ UNCHANGED <<fits, copy, record>>

\* The gateway gives up without knowing; the recipient may try again, at the price
\* of a second copy.
LeaveOpen ==
    /\ told = "nothing"
    /\ told' = "open"
    /\ UNCHANGED <<fits, copy, record>>

Init == fits \in BOOLEAN /\ copy = "none" /\ told = "nothing" /\ record = FALSE

Next == Keep \/ Confirm \/ Refuse \/ LeaveOpen

Spec == Init /\ [][Next]_<<fits, copy, told, record>>
=============================================================================
