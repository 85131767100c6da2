--------------------------- MODULE MaintenanceLock ---------------------------
(***************************************************************************)
(* What the service-wide maintenance lock promises, whoever inherits whose *)
(* hold on it.  Those who share one hold form a group: any number of       *)
(* shared groups may exist side by side, an exclusive group is alone, and  *)
(* a group is there exactly as long as somebody is in it.                  *)
(***************************************************************************)
CONSTANT Section   \* uses of the lock

VARIABLE groups

Group == [exclusive : BOOLEAN, members : SUBSET Section]

Init == groups = {}

Out(s) == \A g \in groups : s \notin g.members

\* A section takes the lock for itself.
Open(s, exclusive) ==
  /\ Out(s)
  /\ \A g \in groups : ~exclusive /\ ~g.exclusive
  /\ groups' = groups \cup {[exclusive |-> exclusive, members |-> {s}]}

\* A section joins those who have it.
Join(s, g) ==
  /\ Out(s)
  /\ groups' = (groups \ {g}) \cup {[g EXCEPT !.members = @ \cup {s}]}

\* Sections end, one by itself or those of a process that dies.
Leave(S) ==
  groups' = {[g EXCEPT !.members = @ \ S] : g \in {h \in groups : ~(h.members \subseteq S)}}

Next ==
  \/ \E s \in Section, exclusive \in BOOLEAN : Open(s, exclusive)
  \/ \E s \in Section, g \in groups : Join(s, g)
  \/ \E S \in SUBSET Section : Leave(S)

Spec == Init /\ [][Next]_groups
=============================================================================
