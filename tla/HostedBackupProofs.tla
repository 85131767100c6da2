------------------------- MODULE HostedBackupProofs -------------------------
(***************************************************************************)
(* What the commands of hosted_backup.py promise: for every set of         *)
(* accounts and deletions, every retention and age, every number of        *)
(* archives, and every step a command may fail or be killed at.            *)
(***************************************************************************)
EXTENDS HostedBackup, FiniteSetTheorems, WellFoundedInduction, TLAPS

\* A step of the commands does to the root what a restore, its clean-up, the operator or
\* nobody does.
LEMMA CommandsRunRestores == Commands => Spec
<1>1. [NextCommand]_<<vars, directory>> => [Next]_vars
  BY DEF NextCommand, vars
<1> QED
  BY <1>1, PTL DEF Commands, InitCommands, Spec

-----------------------------------------------------------------------------
(* The restored root                                                       *)

\* What the directory holds, and that nobody works on a root that a restore is at.
Holds ==
  /\ entries # {} => exists
  /\ step # "idle" => exists
  /\ Archived \/ step \in {"database", "players", "cleared"} => "database" \in entries
  /\ active # {} => Archived
  /\ serving => exists /\ step = "idle"
  /\ attested => exists /\ step = "idle"
  /\ cut # "idle" => exists /\ step = "idle"

\* Until somebody attests the deletions an archive's database lies next to the marker,
\* but for a clean-up that is under way, or did not end.
Marked ==
  Archived /\ step # "failed" /\ cut # "failed" /\ ~attested => "marker" \in entries

\* An attestation holds for as long as the root does.
Attested == attested => active \cap deleted = {}

Safe ==
  /\ TypeOK
  /\ Holds
  /\ Marked
  /\ Attested
  /\ ServedOnlyResumed

LEMMA SafeInit == Init => Safe
  BY DEF Init, Safe, TypeOK, Holds, Marked, Attested, ServedOnlyResumed, Archived, Entry, Step

LEMMA SafeNext ==
  ASSUME Safe, [Next]_vars
  PROVE  Safe'
<1> USE DEF Safe, TypeOK, Holds, Marked, Attested, ServedOnlyResumed,
       Archived, Entry, Step
<1>1. CASE Restore  BY <1>1 DEF Restore
<1>2. CASE Mark  BY <1>2 DEF Mark, Extract
<1>3. CASE ExtractDatabase  BY <1>3 DEF ExtractDatabase, Extract
<1>4. CASE ExtractPlayers  BY <1>4 DEF ExtractPlayers, Extract
<1>5. CASE Validate  BY <1>5 DEF Validate, Cleared
<1>6. CASE Report  BY <1>6 DEF Report
<1>7. CASE Fail  BY <1>7 DEF Fail
<1>8. ASSUME NEW entry \in Entry, Remove(entry) PROVE Safe'  BY <1>8 DEF Remove
<1>9. CASE Removed  BY <1>9 DEF Removed
<1>10. CASE RemoveFails \/ Kill
  <2>1. step # "idle" /\ cut = "idle" /\ ~attested /\ ~serving
    BY <1>10 DEF RemoveFails, Kill
  <2>2. BreaksOff
    BY <1>10 DEF RemoveFails, Kill
  <2> QED
    BY <2>1, <2>2 DEF BreaksOff
<1>11. ASSUME NEW p \in Player, DeletePlayer(p) PROVE Safe'
  BY <1>11 DEF DeletePlayer, Opens, Quiet
<1>12. CASE Resume  BY <1>12 DEF Resume, Quiet, Reconciled
<1>13. CASE Serve  BY <1>13 DEF Serve, Opens, Quiet, MayServe
<1>14. CASE Stop  BY <1>14 DEF Stop
<1>15. CASE MoveAway  BY <1>15 DEF MoveAway, Quiet
<1>16. CASE UNCHANGED vars  BY <1>16 DEF vars
<1> QED
  BY <1>1, <1>2, <1>3, <1>4, <1>5, <1>6, <1>7, <1>8, <1>9, <1>10, <1>11, <1>12, <1>13, <1>14,
     <1>15, <1>16 DEF Next

\* The variables have their types, and a restore that goes on has its marker in place.
\* (restore, hosted_backup.py:169-223)
THEOREM TypeCorrect == Commands => []TypeOK
<1>1. Safe /\ [Next]_vars => Safe'  BY SafeNext
<1>2. Safe => TypeOK  BY DEF Safe
<1> QED  BY SafeInit, <1>1, <1>2, CommandsRunRestores, PTL DEF Spec

\* A root that came out of an archive is never served before the deletions are attested,
\* wherever its restore failed or was killed, unless the clean-up did not end.
\* (hosted_backup.py:169-232, serve, hosted_cli.py:163-165)
THEOREM ServedAttested == Commands => []ServedOnlyResumed
<1>1. Safe /\ [Next]_vars => Safe'  BY SafeNext
<1>2. Safe => ServedOnlyResumed  BY DEF Safe
<1> QED  BY SafeInit, <1>1, <1>2, CommandsRunRestores, PTL DEF Spec

\* No account that was deleted after the backup is active in a service that runs again on
\* a root somebody attested, or whose clean-up did not break off.  (resume,
\* hosted_backup.py:226-232)
THEOREM DeletedStayDeleted == Commands => []NoResurrection
<1>1. Safe /\ [Next]_vars => Safe'  BY SafeNext
<1>2. Safe => NoResurrection
  BY DEF Safe, Holds, Attested, ServedOnlyResumed, NoResurrection
<1> QED  BY SafeInit, <1>1, <1>2, CommandsRunRestores, PTL DEF Spec

-----------------------------------------------------------------------------
(* Authorization                                                           *)

\* The database with the authorization of the archive is there only while a restore is on
\* its way to clear it or to remove it, or after one that broke off there.
ClearedBefore ==
  database = "archived" => {step, cut} \cap {"database", "players", "failed"} # {}

LEMMA ClearedNext ==
  ASSUME Safe, ClearedBefore, [Next]_vars
  PROVE  ClearedBefore'
<1> USE DEF ClearedBefore
<1>1. CASE Restore \/ Mark \/ ExtractDatabase \/ ExtractPlayers \/ Validate \/ Report \/ Fail
  BY <1>1 DEF Restore, Mark, ExtractDatabase, ExtractPlayers, Extract, Validate, Cleared,
              Report, Fail
<1>2. ASSUME NEW entry \in Entry, Remove(entry) PROVE ClearedBefore'  BY <1>2 DEF Remove
<1>3. CASE Removed  BY <1>3 DEF Removed, Safe, Holds, Archived
<1>4. CASE RemoveFails \/ Kill
  BY <1>4 DEF RemoveFails, Kill, BreaksOff, Safe, Holds
<1>5. ASSUME NEW p \in Player, DeletePlayer(p) PROVE ClearedBefore'  BY <1>5 DEF DeletePlayer
<1>6. CASE Resume \/ Serve \/ Stop \/ MoveAway  BY <1>6 DEF Resume, Serve, Stop, MoveAway
<1>7. CASE UNCHANGED vars  BY <1>7 DEF vars
<1> QED  BY <1>1, <1>2, <1>3, <1>4, <1>5, <1>6, <1>7 DEF Next

\* No grant, token, code or browser session of an archive is accepted again, wherever a
\* restore fails, unless it is killed between the extraction of the database and the
\* clearing of it, or its clean-up breaks off.  (_validate_database, hosted_backup.py:128-166)
THEOREM NothingRevived == Commands => []AuthorizationCleared
<1>1. Init => Safe /\ ClearedBefore  BY SafeInit DEF Init, ClearedBefore
<1>2. Safe /\ ClearedBefore /\ [Next]_vars => (Safe /\ ClearedBefore)'
  BY SafeNext, ClearedNext
<1>3. Safe /\ ClearedBefore => AuthorizationCleared
  BY DEF Safe, Holds, ClearedBefore, AuthorizationCleared
<1> QED  BY <1>1, <1>2, <1>3, CommandsRunRestores, PTL DEF Spec

-----------------------------------------------------------------------------
(* The directory of archives                                               *)

\* The least-number principle, of sets: WFMin for the order of the naturals.
LEMMA Least ==
  ASSUME NEW T \in SUBSET Nat, T # {}
  PROVE  \E m \in T : \A n \in T : m <= n
<1> DEFINE R == OpToRel(<, Nat)
<1>1. IsWellFoundedOn(R, Nat)
  BY NatLessThanWellFounded
<1>2. \A a, b \in Nat : <<a, b>> \in R <=> a < b
  BY DEF OpToRel
<1> HIDE DEF R
<1>3. PICK m \in T : \A n \in T : ~(<<n, m>> \in R)
  BY <1>1, WFMin
<1>4. \A n \in T : ~(n < m)
  BY <1>2, <1>3
<1> QED
  BY <1>4

\* The instance counts as FiniteSets does.
LEMMA SameCount == \A S : Directory!Cardinality(S) = Cardinality(S)
BY DEF Directory!Cardinality, Cardinality

\* Archives are numbered in the order they are published, and the running backup's is the
\* last.  Only a kill leaves an archive with its second link.
Numbered ==
  /\ now \in Nat /\ new \in Nat /\ faults \in Nat
  /\ backup \in Directory!Step
  /\ archives \subseteq DOMAIN written /\ DOMAIN written \subseteq 1..new
  /\ \A a \in DOMAIN written : written[a] \in Nat
  /\ killed \subseteq 1..new
  /\ backup # "idle" => new >= 1 /\ new \notin killed
  /\ backup \in {"locked", "staged"} => new \notin DOMAIN written
  /\ staged \subseteq killed \cup (IF backup \in {"staged", "published"} THEN {new} ELSE {})

Orderly == Numbered /\ Directory!RetentionHolds /\ Directory!NewestKept

LEMMA ArchivesFinite ==
  ASSUME Numbered
  PROVE  /\ archives \subseteq Nat /\ DOMAIN written \subseteq Nat
         /\ \A S \in SUBSET DOMAIN written :
              /\ IsFiniteSet(S) /\ Cardinality(S) \in Nat
              /\ \A T \in SUBSET S : Cardinality(T) <= Cardinality(S)
<1>1. IsFiniteSet(1..new) /\ 1..new \subseteq Nat
  BY FS_Interval DEF Numbered
<1>2. IsFiniteSet(DOMAIN written)
  BY <1>1, FS_Subset DEF Numbered
<1> QED
  BY <1>1, <1>2, FS_Subset, FS_CardinalityType DEF Numbered

LEMMA InitOrderly == Directory!Init => Orderly
<1> SUFFICES ASSUME Directory!Init PROVE Orderly
  OBVIOUS
<1>1. Cardinality({}) = 0
  BY FS_EmptySet
<1> QED
  BY <1>1, SameCount, RetentionAssumption
  DEF Directory!Init, Orderly, Numbered, Directory!Step, Directory!RetentionHolds,
      Directory!NewestKept

LEMMA NextNumbered ==
  ASSUME Numbered, Directory!Next
  PROVE  Numbered'
<1> USE DEF Numbered, Directory!Step
<1>1. CASE Directory!Tick  BY <1>1 DEF Directory!Tick
<1>2. CASE Directory!Start  BY <1>2 DEF Directory!Start
<1>3. CASE Directory!Stage  BY <1>3 DEF Directory!Stage
<1>4. CASE Directory!Publish  BY <1>4 DEF Directory!Publish
<1>5. CASE Directory!Unstage  BY <1>5 DEF Directory!Unstage
<1>6. ASSUME NEW a \in Archive, Directory!Prune(a) PROVE Numbered'
  BY <1>6 DEF Directory!Prune
<1>7. ASSUME NEW a \in Archive, Directory!PruneRefused(a) PROVE Numbered'
  BY <1>7 DEF Directory!PruneRefused, Directory!Leave, Directory!Cleaned
<1>8. CASE Directory!Finish  BY <1>8 DEF Directory!Finish, Directory!Leave, Directory!Cleaned
<1>9. CASE Directory!Fail  BY <1>9 DEF Directory!Fail, Directory!Leave, Directory!Cleaned
<1>10. CASE Directory!Kill  BY <1>10, BackupKillsAssumption DEF Directory!Kill
<1> QED
  BY <1>1, <1>2, <1>3, <1>4, <1>5, <1>6, <1>7, <1>8, <1>9, <1>10 DEF Directory!Next

\* What pruning leaves: unless an archive is due, there are at most --retention of them.
LEMMA NothingDue ==
  ASSUME Numbered, \A a \in archives : ~Directory!Due(a)
  PROVE  Cardinality(archives) <= Retention
<1>1. CASE archives = {}
  BY <1>1, FS_EmptySet, RetentionAssumption
<1>2. CASE archives # {}
  <2>1. PICK a \in archives : \A b \in archives : a <= b
    BY <1>2, Least, ArchivesFinite
  <2>2. Directory!Newer(a) = archives \ {a}
    BY <2>1, ArchivesFinite DEF Directory!Newer
  <2>3. ~(Cardinality(archives \ {a}) >= Retention)
    BY <2>1, <2>2, SameCount DEF Directory!Due
  <2>4. /\ IsFiniteSet(archives) /\ Cardinality(archives) \in Nat
        /\ Cardinality(archives \ {a}) = Cardinality(archives) - 1
    BY <2>1, ArchivesFinite, FS_RemoveElement DEF Numbered
  <2> QED
    BY <2>3, <2>4, RetentionAssumption
<1> QED
  BY <1>1, <1>2

LEMMA NextRetention ==
  ASSUME Numbered, Directory!RetentionHolds, Directory!Next
  PROVE  Directory!RetentionHolds'
<1> DEFINE Room == Retention + faults + (IF backup \in {"published", "pruning"} THEN 1 ELSE 0)
           Stuck == archives \cap staged \cap killed
<1>1. /\ Stuck = {} => Cardinality(archives) <= Room
      /\ Cardinality(archives) \in Nat /\ IsFiniteSet(archives)
      /\ faults \in Nat /\ Retention \in Nat
  BY ArchivesFinite, SameCount, RetentionAssumption DEF Directory!RetentionHolds, Numbered
<1>2. SUFFICES Stuck' = {} => Cardinality(archives') <= Room'
  BY SameCount DEF Directory!RetentionHolds
<1>3. ASSUME archives' = archives, Stuck' = {} => Stuck = {}, Room' >= Room
      PROVE  Stuck' = {} => Cardinality(archives') <= Room'
  <2>1. Room \in Nat /\ Room' \in Nat
    BY <1>1, NextNumbered DEF Numbered
  <2> HIDE DEF Room
  <2> QED
    BY <1>1, <1>3, <2>1
<1>4. CASE Directory!Tick
  BY <1>1, <1>4 DEF Directory!Tick
<1>5. CASE Directory!Start
  BY <1>1, <1>5 DEF Directory!Start
<1>6. CASE Directory!Stage
  BY <1>1, <1>6 DEF Directory!Stage, Numbered
<1>7. CASE Directory!Publish
  <2>1. Cardinality(archives') = Cardinality(archives) + 1 /\ new \notin killed
    BY <1>1, <1>7, FS_AddElement DEF Directory!Publish, Numbered
  <2> QED
    BY <1>1, <1>7, <2>1 DEF Directory!Publish
<1>8. CASE Directory!Unstage
  BY <1>1, <1>8 DEF Directory!Unstage, Numbered
<1>9. ASSUME NEW a \in Archive, Directory!Prune(a)
      PROVE  Stuck' = {} => Cardinality(archives') <= Room'
  <2>1. Cardinality(archives') <= Cardinality(archives) /\ Cardinality(archives') \in Nat
    BY <1>1, <1>9, ArchivesFinite DEF Directory!Prune, Numbered
  <2>2. Stuck' = Stuck /\ Room' = Room
    BY <1>9 DEF Directory!Prune, Directory!Sound
  <2> QED
    BY <1>1, <2>1, <2>2
<1>10. ASSUME NEW a \in Archive, Directory!PruneRefused(a)
       PROVE  Stuck' = {} => Cardinality(archives') <= Room'
  <2>1. a \in archives /\ a \in staged /\ a \in killed /\ a # new
    BY <1>10 DEF Directory!PruneRefused, Directory!FirstDue, Directory!Sound, Numbered
  <2>2. a \in Stuck'
    BY <1>10, <2>1 DEF Directory!PruneRefused, Directory!Leave, Directory!Cleaned
  <2> QED
    BY <2>2
<1>11. CASE Directory!Finish
  <2>1. Cardinality(archives) <= Retention
    BY <1>11, NothingDue DEF Directory!Finish
  <2> QED
    BY <1>1, <1>11, <2>1 DEF Directory!Finish, Directory!Leave
<1>12. CASE Directory!Fail
  BY <1>1, <1>12 DEF Directory!Fail, Directory!Leave, Directory!Cleaned, Numbered
<1>13. CASE Directory!Kill
  BY <1>1, <1>13 DEF Directory!Kill
<1> QED
  BY <1>4, <1>5, <1>6, <1>7, <1>8, <1>9, <1>10, <1>11, <1>12, <1>13 DEF Directory!Next

\* The archives ever written that are newer than a
Later(a) == {b \in DOMAIN written : b > a}

LEMMA NextNewest ==
  ASSUME Numbered, Directory!NewestKept, Directory!Next
  PROVE  Directory!NewestKept'
<1>1. ASSUME NEW a \in DOMAIN written' \ archives'
      PROVE  /\ a \in DOMAIN written /\ written'[a] = written[a]
             /\ now' >= now /\ DOMAIN written \subseteq DOMAIN written'
  BY <1>1 DEF Numbered, Directory!Next, Directory!Tick, Directory!Start, Directory!Stage,
         Directory!Publish, Directory!Unstage, Directory!Prune, Directory!PruneRefused,
         Directory!Leave, Directory!Finish, Directory!Fail, Directory!Kill
<1>2. ASSUME NEW a \in DOMAIN written' \ archives'
      PROVE  Directory!TooOld(a) \/ Cardinality(Later(a)) >= Retention
  <2>1. CASE a \notin archives
    BY <1>1, <1>2, <2>1, SameCount DEF Directory!NewestKept, Later
  <2>2. CASE a \in archives
    <3>1. Directory!Due(a)
      BY <1>2, <2>2 DEF Directory!Next, Directory!Tick, Directory!Start, Directory!Stage,
         Directory!Publish, Directory!Unstage, Directory!Prune, Directory!FirstDue,
         Directory!PruneRefused, Directory!Leave, Directory!Finish, Directory!Fail,
         Directory!Kill
    <3>2. Directory!Newer(a) \subseteq Later(a) /\ Later(a) \subseteq DOMAIN written
      BY DEF Directory!Newer, Later, Numbered
    <3>3. /\ Cardinality(Directory!Newer(a)) <= Cardinality(Later(a))
          /\ Cardinality(Directory!Newer(a)) \in Nat /\ Cardinality(Later(a)) \in Nat
      BY <3>2, ArchivesFinite
    <3> QED
      BY <3>1, <3>3, SameCount, RetentionAssumption DEF Directory!Due
  <2> QED
    BY <2>1, <2>2
<1>3. ASSUME NEW a \in DOMAIN written' \ archives'
      PROVE  Directory!TooOld(a)' \/ Cardinality(Later(a)') >= Retention
  <2>1. CASE Directory!TooOld(a)
    <3>1. now \in Nat /\ now' \in Nat /\ written[a] \in Nat /\ MaxAge \in Nat
      BY <1>1, <1>3, NextNumbered, RetentionAssumption DEF Numbered
    <3> QED
      BY <1>1, <1>3, <2>1, <3>1 DEF Directory!TooOld
  <2>2. CASE Cardinality(Later(a)) >= Retention
    <3>1. Numbered' /\ Later(a) \subseteq Later(a)' /\ Later(a)' \subseteq DOMAIN written'
      BY <1>1, <1>3, NextNumbered DEF Later
    <3>2. IsFiniteSet(DOMAIN written')
      <4>1. IsFiniteSet(1..new') /\ DOMAIN written' \subseteq 1..new'
        BY <3>1, FS_Interval DEF Numbered
      <4> QED
        BY <4>1, FS_Subset
    <3>3. /\ Cardinality(Later(a)) <= Cardinality(Later(a)')
          /\ Cardinality(Later(a)) \in Nat /\ Cardinality(Later(a)') \in Nat
      <4>1. IsFiniteSet(Later(a)') /\ IsFiniteSet(Later(a))
        BY <3>1, <3>2, FS_Subset
      <4> QED
        BY <3>1, <4>1, FS_Subset, FS_CardinalityType
    <3> QED
      BY <2>2, <3>3, RetentionAssumption
  <2> QED
    BY <1>2, <1>3, <2>1, <2>2
<1> QED
  BY <1>3, SameCount DEF Directory!NewestKept, Later

LEMMA DirectoryInvariant == Directory!Spec => []Orderly
<1>1. Orderly /\ [Directory!Next]_directory => Orderly'
  <2>1. ASSUME Orderly, Directory!Next PROVE Orderly'
    BY <2>1, NextNumbered, NextRetention, NextNewest DEF Orderly
  <2>2. ASSUME Orderly, UNCHANGED directory PROVE Orderly'
    BY <2>2 DEF directory, Orderly, Numbered, Directory!RetentionHolds, Directory!NewestKept,
       Directory!TooOld
  <2> QED
    BY <2>1, <2>2
<1> QED
  BY <1>1, InitOrderly, PTL DEF Directory!Spec, Directory!vars, directory

-----------------------------------------------------------------------------
(* The commands together                                                   *)

\* What the commands do to the directory is what one backup at a time does.
LEMMA CommandsRunBackups == Commands => Directory!Spec
<1>1. [NextCommand]_<<vars, directory>> => [Directory!Next]_directory
  BY DEF NextCommand
<1> QED
  BY <1>1, PTL DEF Commands, InitCommands, Directory!Spec, Directory!vars, directory

\* Whatever --retention is and however often backups fail or are killed, the directory
\* outgrows it by one archive for each that could not finish, and no more, unless an archive
\* kept its second link.  (pruning, hosted_backup.py:111-118)
THEOREM RetentionIsKept == Commands => []RetentionHolds
<1>1. Orderly => RetentionHolds
  BY DEF Orderly, RetentionHolds
<1> QED
  BY <1>1, CommandsRunBackups, DirectoryInvariant, PTL

\* Pruning never takes an archive that is young enough and among the newest --retention that
\* were ever published, through failures and kills at any step.  (archives[:-retention] and
\* max_age_days, hosted_backup.py:113-118)
THEOREM NewestStay == Commands => []NewestKept
<1>1. Orderly => NewestKept
  BY DEF Orderly, NewestKept
<1> QED
  BY <1>1, CommandsRunBackups, DirectoryInvariant, PTL
=============================================================================
