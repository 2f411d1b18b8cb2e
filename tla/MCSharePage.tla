---------------------------- MODULE MCSharePage ----------------------------
(* Small instances of SharePage for TLC.                                   *)
EXTENDS SharePage

CONSTANT sub, file

\* One file, and it is in the folder sub.
MCFolderOf == [p \in Path |-> IF p = file THEN sub ELSE p]
=============================================================================
