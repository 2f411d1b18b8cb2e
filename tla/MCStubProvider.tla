--------------------------- MODULE MCStubProvider ---------------------------
(* Small instances of StubProvider for TLC.                                *)
EXTENDS StubProvider, TLC

\* Requests differ in nothing but their name.
RequestSymmetry == Permutations(Request)
=============================================================================
