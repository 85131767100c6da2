---------------------------- MODULE RestoredRoot ----------------------------
(***************************************************************************)
(* A data root that `hosted restore` makes from an archive, until it is    *)
(* served: the restore step by step, its clean-up, the operator's          *)
(* reconciliation (`hosted delete-player`, `hosted resume`) and `hosted    *)
(* serve`, with a restore that fails or is killed anywhere and a clean-up  *)
(* that may not end.                                                       *)
(*                                                                         *)
(* The operator stops the service before a restore and starts it on a root *)
(* no command works on (docs/server-operations.md, "Restore, deletion      *)
(* reconciliation and rollback"), attests what is true, and may forget or  *)
(* repeat everything else.                                                 *)
(***************************************************************************)
CONSTANT
  Player    \* the accounts of the archive, all of them active

VARIABLES
  exists,    \* the root directory is there
  entries,   \* what it holds
  database,  \* hosted.sqlite3: as archived, with AUTH_TABLES cleared, or made anew
  active,    \* its active players
  deleted,   \* accounts that were deleted after the archive was made
  step,      \* how far `restore` got
  serving,
  attested,  \* history: the deletions were reconciled and `resume` released the root
  cut        \* history: the step at which the restore, or its clean-up, of this root broke
             \* off; "idle" if it did not

vars == <<exists, entries, database, active, deleted, step, serving, attested, cut>>

Step == {"idle", "made", "marked", "database", "players", "cleared", "failed"}

Entry == {"marker", "database", "players"}

Archived == database \in {"archived", "cleared"}

Init ==
  /\ exists = FALSE
  /\ entries = {}
  /\ database = "new"
  /\ active = {}
  /\ deleted \in SUBSET Player
  /\ step = "idle"
  /\ serving = FALSE
  /\ attested = FALSE
  /\ cut = "idle"

-----------------------------------------------------------------------------
(* restore                                                                 *)

\* "Restore destination must not exist"; mkdir comes before the try.
Restore ==
  /\ step = "idle" /\ ~exists
  /\ exists' = TRUE
  /\ step' = "made"
  /\ UNCHANGED <<entries, database, active, deleted, serving, attested, cut>>

Extract(from, to, entry) ==
  /\ step = from
  /\ step' = to
  /\ entries' = entries \cup {entry}
  /\ UNCHANGED <<exists, deleted, serving, attested, cut>>

Mark == Extract("made", "marked", "marker") /\ UNCHANGED <<database, active>>

\* backup puts the database first.
ExtractDatabase ==
  /\ Extract("marked", "database", "database")
  /\ database' = "archived"
  /\ active' = Player

ExtractPlayers == Extract("database", "players", "players") /\ UNCHANGED <<database, active>>

\* Mutant: validation clears nothing.
ClearedNothing == database

\* DELETE FROM each of AUTH_TABLES, committed as one
Cleared == "cleared"

Validate ==
  /\ step = "players"
  /\ step' = "cleared"
  /\ database' = Cleared
  /\ UNCHANGED <<exists, entries, active, deleted, serving, attested, cut>>

\* The key fits and every directory is a player's.
Report ==
  /\ step = "cleared"
  /\ step' = "idle"
  /\ UNCHANGED <<exists, entries, database, active, deleted, serving, attested, cut>>

\* An archive that is refused, a full disk, a wrong key, Ctrl-C
Fail ==
  /\ step \notin {"idle", "failed"}
  /\ step' = "failed"
  /\ UNCHANGED <<exists, entries, database, active, deleted, serving, attested, cut>>

\* rmtree removes one entry after the other, in the order of the directory.
Remove(entry) ==
  /\ step = "failed"
  /\ entry \in entries
  /\ entries' = entries \ {entry}
  /\ active' = IF entry = "database" THEN {} ELSE active
  /\ database' = IF entry = "database" THEN "new" ELSE database
  /\ UNCHANGED <<exists, deleted, step, serving, attested, cut>>

Removed ==
  /\ step = "failed"
  /\ entries = {}
  /\ exists' = FALSE
  /\ step' = "idle"
  /\ UNCHANGED <<entries, database, active, deleted, serving, attested, cut>>

BreaksOff ==
  /\ step' = "idle"
  /\ cut' = step
  /\ UNCHANGED <<exists, entries, database, active, deleted, serving, attested>>

\* rmtree raises, or a second Ctrl-C comes: the rest of the root stays as it is.
RemoveFails == step = "failed" /\ BreaksOff

\* SIGKILL, or the end of the container
Kill == step # "idle" /\ BreaksOff

-----------------------------------------------------------------------------
(* The operator, between restores                                          *)

Quiet == step = "idle" /\ ~serving

\* HostedStore(root, key) makes what is missing, a new database included.
Opens ==
  /\ exists' = TRUE
  /\ entries' = entries \cup {"database", "players"}

\* `hosted delete-player` deactivates the account; what follows is HostedAccount's.
DeletePlayer(p) ==
  /\ Quiet
  /\ Opens
  /\ active' = active \ {p}
  /\ UNCHANGED <<database, deleted, step, serving, attested, cut>>

\* Mutant: the attestation is not asked for.
ReconciledAnyway == TRUE

\* --deletions-reconciled: "Reconcile all account deletions since this backup"
Reconciled == active \cap deleted = {}

Resume ==
  /\ Quiet
  /\ Reconciled
  /\ "marker" \in entries
  /\ exists' = TRUE
  /\ entries' = (entries \cup {"database", "players"}) \ {"marker"}
  /\ attested' = TRUE
  /\ UNCHANGED <<database, active, deleted, step, serving, cut>>

\* Mutant: the marker is looked for in another place.
MayServeAlways == TRUE

\* "Restore maintenance: reconcile deletions and resume before serving"
MayServe == "marker" \notin entries

Serve ==
  /\ Quiet
  /\ MayServe
  /\ Opens
  /\ serving' = TRUE
  /\ UNCHANGED <<database, active, deleted, step, attested, cut>>

Stop ==
  /\ serving
  /\ serving' = FALSE
  /\ UNCHANGED <<exists, entries, database, active, deleted, step, attested, cut>>

\* The operator moves the root away.
MoveAway ==
  /\ Quiet /\ exists
  /\ exists' = FALSE
  /\ entries' = {}
  /\ database' = "new"
  /\ active' = {}
  /\ attested' = FALSE
  /\ cut' = "idle"
  /\ UNCHANGED <<deleted, step, serving>>

-----------------------------------------------------------------------------
Next ==
  \/ Restore \/ Mark \/ ExtractDatabase \/ ExtractPlayers \/ Validate \/ Report
  \/ Fail \/ \E entry \in Entry : Remove(entry)
  \/ Removed \/ RemoveFails \/ Kill
  \/ \E p \in Player : DeletePlayer(p)
  \/ Resume \/ Serve \/ Stop \/ MoveAway

Spec == Init /\ [][Next]_vars

-----------------------------------------------------------------------------
(* Properties                                                              *)

\* A root that came out of an archive is only served after somebody attested the deletions,
\* wherever the restore failed or was killed - unless its clean-up began and did not end.
\* ("require reconciliation before a server can start", hosted_backup.py:170; rmtree, :222,
\* may take the marker away and leave the database)
ServedOnlyResumed == serving /\ Archived /\ ~attested => cut = "failed"

\* An account that was deleted after the backup is only active in a service that runs again
\* on a root that nobody attested, left by a clean-up that did not end.  ("An old archive can
\* otherwise resurrect an account that the player deleted", docs/server-operations.md:190)
NoResurrection == serving /\ active \cap deleted # {} => cut = "failed" /\ ~attested

\* A service only accepts the grants, tokens, codes and browser sessions of the archive if the
\* restore was killed between the extraction of the database and the clearing of it, or its
\* clean-up did not end: a failure at any step leaves none.  (_validate_database,
\* hosted_backup.py:128-166, and the except of restore, :221-223)
AuthorizationCleared ==
  serving /\ database = "archived" => cut \in {"database", "players", "failed"}

\* No grant, token, code or browser session of the archive is ever accepted again.
\* ("never revive authorization", tests/test_hosted_backup.py:1)
AuthorizationNeverRevived == serving => database # "archived"

\* Every variable has its type, and a restore that goes on has its marker in place.
TypeOK ==
  /\ exists \in BOOLEAN
  /\ entries \subseteq Entry
  /\ database \in {"new", "archived", "cleared"}
  /\ active \subseteq Player /\ deleted \subseteq Player
  /\ step \in Step /\ cut \in Step
  /\ serving \in BOOLEAN /\ attested \in BOOLEAN
  /\ entries # {} => exists
  /\ Archived => "database" \in entries
  /\ step \in {"marked", "database", "players", "cleared"} => "marker" \in entries
=============================================================================
