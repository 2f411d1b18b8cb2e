---------------------------- MODULE MCLoginFlow ----------------------------
(* Small instances of LoginFlow for TLC.                                   *)
EXTENDS LoginFlow, TLC

\* Tabs differ in nothing but their name.
TabSymmetry == Permutations(Tab)
=============================================================================
