----------------------------- MODULE MCSession -----------------------------
(* Small instances of Session for TLC.                                     *)
EXTENDS Session, TLC

\* The browser does not tell its connections apart.
ConnSymmetry == Permutations(Conn)
=============================================================================
