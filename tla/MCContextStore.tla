-------------------------- MODULE MCContextStore --------------------------
(* Small instances of ContextStore for TLC.                                *)
EXTENDS ContextStore, TLC

Symmetry == Permutations(Writer) \cup Permutations(Id)
=============================================================================
