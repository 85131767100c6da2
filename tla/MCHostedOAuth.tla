--------------------------- MODULE MCHostedOAuth ---------------------------
(* Small instances of HostedOAuth for TLC.                                 *)
EXTENDS HostedOAuth, TLC

\* Every client may read and refresh.
ReadRefresh == {[scope |-> {"msf:read", "offline_access"}, refresh |-> TRUE]}

\* Players and handlers are interchangeable; the ids that Draw picks are not.
Symmetry == Permutations(Player) \cup Permutations(Handler)

=============================================================================
