--------------------------- MODULE MCPublicGuard ----------------------------
(* PublicGuard on a few connections and players.                           *)
EXTENDS PublicGuard, TLC

\* The guard treats all connections alike, and all players.
Symmetry == Permutations(Conn) \cup Permutations(Player)
=============================================================================
