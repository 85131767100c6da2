\* Three backups over two days, of which one is kept for a day, killed anywhere; two accounts,
\* any of which may have been deleted since, and restores that fail or are killed anywhere.
CONSTANTS
  p1 = p1
  p2 = p2
  Player = {p1, p2}
  Archive = {1, 2, 3}
  Retention = 1
  MaxAge = 1
  MaxTime = 2
  BackupKills = {"locked", "staged", "published", "pruning"}
SPECIFICATION Commands
INVARIANTS ServedOnlyResumed NoResurrection AuthorizationCleared
INVARIANTS RetentionHolds NewestKept
