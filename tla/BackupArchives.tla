--------------------------- MODULE BackupArchives ---------------------------
(***************************************************************************)
(* The directory `hosted backup` writes its archives to: an archive is     *)
(* staged, published with a hard link, and older ones are pruned by number *)
(* and by age.  Commands fail and are killed at every step.                *)
(*                                                                         *)
(* The exclusive maintenance lock lets one backup run at a time.  What an  *)
(* archive holds, and that it is coherent, is HostedAccount's part.        *)
(***************************************************************************)
EXTENDS Integers, FiniteSets

CONSTANTS
  Archive,     \* the numbers of archives, 1..n: a bound of the model
  Retention,   \* --retention
  MaxAge,      \* --max-age-days
  MaxTime,     \* bound: the clock stops there
  Kills        \* the steps at which the process may be killed

VARIABLES
  now,         \* time.time(), in days
  archives,    \* the archives of the directory
  written,     \* when each archive was written, for the pruned ones too
  staged,      \* the archives that still are in a staging directory
  step,        \* how far the running backup got
  new,         \* the archive it writes; 0 before the first
  faults,      \* history: backups that were killed or failed from outside since one ended well
  killed       \* history: the archives whose backup was killed

vars == <<now, archives, written, staged, step, new, faults, killed>>

Step == {"idle", "locked", "staged", "published", "pruning"}

Init ==
  /\ now = 0
  /\ archives = {}
  /\ written = [a \in {} |-> 0]
  /\ staged = {}
  /\ step = "idle"
  /\ new = 0
  /\ faults = 0
  /\ killed = {}

\* Pruning reads the clock once.
Tick ==
  /\ now < MaxTime /\ step # "pruning"
  /\ now' = now + 1
  /\ UNCHANGED <<archives, written, staged, step, new, faults, killed>>

-----------------------------------------------------------------------------
(* backup                                                                  *)

Start ==
  /\ step = "idle"
  /\ new + 1 \in Archive
  /\ step' = "locked"
  /\ new' = new + 1
  /\ UNCHANGED <<now, archives, written, staged, faults, killed>>

\* The archive is complete, and fsync has it on the disk.
Stage ==
  /\ step = "locked"
  /\ staged' = staged \cup {new}
  /\ step' = "staged"
  /\ UNCHANGED <<now, archives, written, new, faults, killed>>

\* os.link
Publish ==
  /\ step = "staged"
  /\ archives' = archives \cup {new}
  /\ written' = [a \in DOMAIN written \cup {new} |-> IF a = new THEN now ELSE written[a]]
  /\ step' = "published"
  /\ UNCHANGED <<now, staged, new, faults, killed>>

\* archive.unlink
Unstage ==
  /\ step = "published"
  /\ staged' = staged \ {new}
  /\ step' = "pruning"
  /\ UNCHANGED <<now, archives, written, new, faults, killed>>

Newer(a) == {b \in archives : b > a}

TooOld(a) == written[a] < now - MaxAge

\* Mutant: archives[:1-retention]
DueOneMore(a) == Cardinality(Newer(a)) + 1 >= Retention \/ TooOld(a)

\* Mutant: the archives are listed before the new one is published.
DueOneLess(a) == Cardinality(Newer(a)) > Retention \/ TooOld(a)

\* archives[:-retention], or older than max_age_days
Due(a) == Cardinality(Newer(a)) >= Retention \/ TooOld(a)

\* Oldest first
FirstDue(a) == a \in archives /\ Due(a) /\ \A b \in archives : Due(b) => a <= b

\* store._file refuses a file with a second link.
Sound(a) == a \notin staged

Prune(a) ==
  /\ step = "pruning"
  /\ FirstDue(a)
  /\ Sound(a)
  /\ archives' = archives \ {a}
  /\ UNCHANGED <<now, written, staged, step, new, faults, killed>>

\* The with of the staging directory removes it, however the block ends.
Cleaned == staged \ {new}

Leave ==
  /\ step' = "idle"
  /\ staged' = Cleaned
  /\ UNCHANGED <<now, archives, written, new, killed>>

PruneRefused(a) ==
  /\ step = "pruning"
  /\ FirstDue(a)
  /\ ~Sound(a)
  /\ Leave
  /\ UNCHANGED faults

Finish ==
  /\ step = "pruning"
  /\ \A a \in archives : ~Due(a)
  /\ Leave
  /\ faults' = 0

\* A full disk, an unexpected file, an archive beyond its bounds, Ctrl-C
Fail ==
  /\ step # "idle"
  /\ Leave
  /\ faults' = faults + 1

\* The staging directory stays behind.
Kill ==
  /\ step \in Kills
  /\ step' = "idle"
  /\ faults' = faults + 1
  /\ killed' = killed \cup {new}
  /\ UNCHANGED <<now, archives, written, staged, new>>

-----------------------------------------------------------------------------
Next ==
  \/ Tick \/ Start \/ Stage \/ Publish \/ Unstage
  \/ \E a \in Archive : Prune(a) \/ PruneRefused(a)
  \/ Finish \/ Fail \/ Kill

Spec == Init /\ [][Next]_vars

-----------------------------------------------------------------------------
(* Properties                                                              *)

\* The directory never holds more than --retention archives, but for one that was just
\* published and one for each backup since that could not finish: the next one that is left
\* alone prunes for them too.  Unless a backup was killed between link and unlink: what it
\* published keeps its second link, and once it is due no backup prunes beyond it.
\* ("Retention is 1-30 archives", docs/server-operations.md:151; pruning,
\* hosted_backup.py:111-118)
RetentionHolds ==
  archives \cap staged \cap killed = {} =>
    Cardinality(archives) <=
      Retention + faults + (IF step \in {"published", "pruning"} THEN 1 ELSE 0)

\* Pruning takes no archive that is among the newest --retention ones and young enough,
\* whatever became of the backups since.  (hosted_backup.py:113-118)
NewestKept ==
  \A a \in DOMAIN written \ archives :
    TooOld(a) \/ Cardinality({b \in DOMAIN written : b > a}) >= Retention
=============================================================================
