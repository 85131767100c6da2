-------------------------- MODULE MCSnapshotPages --------------------------
\* Instances of SnapshotPages for TLC.
EXTENDS SnapshotPages

\* Nobody; two of one power and a weaker one before them; a full catalogue
MCRosters ==
  {[c \in {} |-> 0], [c \in {1, 2, 3} |-> IF c = 1 THEN 1 ELSE 2], [c \in {1, 2, 3, 4} |-> c]}
=============================================================================
