-------------------------- MODULE MCSessionClient --------------------------
(* Small instances of SessionClient for TLC.                               *)
EXTENDS SessionClient, TLC

\* Neither connections nor tabs are told apart.
Symmetry == Permutations(Conn) \cup Permutations(Tab)
=============================================================================
