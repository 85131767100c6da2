-------------------------- MODULE MCHostedAccount --------------------------
(* Small instances of HostedAccount for TLC.                               *)
EXTENDS HostedAccount, TLC

\* Calls are interchangeable; the player ids and tokens drawn by CHOOSE are not.
Symmetry == Permutations(Task)

=============================================================================
