------------------------ MODULE MCMaintenanceLease --------------------------
(* MaintenanceLease with a few threads.                                    *)
EXTENDS MaintenanceLease, TLC

\* The code treats all threads alike.  Leases are drawn with CHOOSE, so they are no part.
Symmetry == Permutations(Thread)
=============================================================================
