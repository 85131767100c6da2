---------------------------- MODULE HostedBackup ----------------------------
(***************************************************************************)
(* The commands of hosted_backup.py together: backups that fill and prune  *)
(* a directory of archives (BackupArchives), and a data root that is       *)
(* restored from one of them, reconciled and served (RestoredRoot).        *)
(*                                                                         *)
(* They meet in the archives: a restore needs one, and only what a backup  *)
(* has published is one.  Backups of the old root go on meanwhile.         *)
(***************************************************************************)
EXTENDS Integers, RestoredRoot

CONSTANTS
  Archive,      \* the numbers of archives, 1..n: a bound of the model
  Retention,    \* --retention
  MaxAge,       \* --max-age-days
  MaxTime,      \* bound: the clock stops there
  BackupKills   \* the steps at which a backup may be killed

VARIABLES now, archives, written, staged, backup, new, faults, killed

directory == <<now, archives, written, staged, backup, new, faults, killed>>

Directory == INSTANCE BackupArchives WITH Kills <- BackupKills, step <- backup

ASSUME ArchiveAssumption == Archive \subseteq Nat \ {0}
ASSUME RetentionAssumption == Retention \in Nat \ {0} /\ MaxAge \in Nat \ {0}
ASSUME BackupKillsAssumption == BackupKills \subseteq Directory!Step \ {"idle"}

InitCommands == Init /\ Directory!Init

\* An archive is there to be restored.
Restorable == archives # {}

NextCommand ==
  \/ Directory!Next /\ UNCHANGED vars
  \/ Next /\ (step' = "made" => step = "made" \/ Restorable) /\ UNCHANGED directory

Commands == InitCommands /\ [][NextCommand]_<<vars, directory>>

-----------------------------------------------------------------------------
(* Properties                                                              *)

\* What the directory promises, as in BackupArchives: the number of archives stays within
\* --retention, and pruning takes none that should be kept.  (backup, hosted_backup.py:54-119)
RetentionHolds == Directory!RetentionHolds
NewestKept == Directory!NewestKept
=============================================================================
