----------------------------- MODULE MCConsent -----------------------------
(* Small instances of Consent for TLC.                                     *)
EXTENDS Consent

CONSTANTS bob, rAlice, rBob

\* Every address but bob is a spelling of Alice's.
MCCanonical == [e \in Email |-> IF e = bob THEN rBob ELSE rAlice]
=============================================================================
