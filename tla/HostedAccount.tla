--------------------------- MODULE HostedAccount ---------------------------
(***************************************************************************)
(* One player's account on the hosted service, from the first sign-in to   *)
(* deletion: the players and msf_tokens tables, the files under            *)
(* players/<id>, and the locks around them.  Every call - a sign-in        *)
(* callback, a refresh, a live query, an advisor tool, a deletion (on the  *)
(* account page or by the operator), a backup - is a task that takes the   *)
(* maintenance lock, then its player's lock, and then works in several     *)
(* transactions, network calls and file operations.                        *)
(*                                                                         *)
(* MSF rotates refresh tokens: a renewed one dies.  Access tokens, the     *)
(* contents of the files and the OAuth grants (HostedOAuth) are left out.  *)
(***************************************************************************)
EXTENDS Integers, FiniteSets

CONSTANTS
  Identity,    \* <<issuer, subject>> of MSF accounts
  Player,      \* player ids, a fresh uuid4 each
  Token,       \* MSF refresh tokens, never issued twice
  Task,        \* concurrent calls
  Permits,     \* HostedSync.capacity
  AccessOnly,  \* a token set without a refresh token
  NoRow,       \* no row in msf_tokens
  Nobody, Idle, Nothing

ASSUME PermitAssumption == Permits \in Nat

ASSUME TaskAssumption == IsFiniteSet(Task)

ASSUME SentinelAssumption ==
  /\ AccessOnly \notin Token /\ NoRow \notin Token /\ AccessOnly # NoRow
  /\ Nobody \notin Task /\ Nobody \notin Player /\ Nobody \notin Identity

VARIABLES
  status,     \* of each player: "unknown", "active" or "inactive"
  owner,      \* the identity a player belongs to
  tokens,     \* msf_tokens: the stored refresh token
  data,       \* what exists at players/<id>
  live,       \* the refresh tokens MSF accepts
  issued,     \* the refresh tokens MSF ever issued
  shared,     \* tasks holding the maintenance lock shared
  exclusive,  \* the task holding it exclusively
  lock,       \* the holder of locks/<id>.lock
  capacity,   \* free permits of HostedSync
  job,        \* what each task is doing
  staging,    \* the database copy of the backup in progress
  lost,       \* history: players whose rotated token was lost, until they sign in again or go
  torn        \* history: players whose deletion stopped halfway

vars == <<status, owner, tokens, data, live, issued, shared, exclusive, lock, capacity,
          job, staging, lost, torn>>

tables == <<status, owner, tokens>>
msf == <<live, issued>>
locks == <<shared, exclusive, lock, capacity>>
history == <<lost, torn>>

Entry == {"directory", "snapshot.json", "context.json"}
Stored == Token \cup {AccessOnly, NoRow}

\* A task's call and how far it got:
\*   signing_in   MSF named the identity and issued tokens
\*   entering     wants the maintenance lock
\*   waiting      polls the player lock
\*   locked       holds both
\*   loaded, renewed, saved, fetching, opened   the work of a refresh, query or tool
\*   deactivated, revoked                       the work of a deletion
\*   excluding, exclusive, copied               a backup
Step == {"signing_in", "entering", "waiting", "locked", "loaded", "renewed", "saved",
         "fetching", "opened", "deactivated", "revoked", "excluding", "exclusive", "copied"}
Op == {"login", "refresh", "query", "advise", "delete", "backup"}
Job == [op : Op, step : Step, player : Player \cup {Nobody}, identity : Identity \cup {Nobody},
        token : Stored]

Copy == [status : [Player -> {"unknown", "active", "inactive"}], tokens : [Player -> Stored]]

ASSUME JobAssumption == Idle \notin Job /\ Nothing \notin Copy

-----------------------------------------------------------------------------
At(t, op, step) == job[t] # Idle /\ job[t].op \in op /\ job[t].step = step
Mine(t) == job[t].player

\* _require
Active(p) == status[p] = "active"

Init ==
  /\ status = [p \in Player |-> "unknown"]
  /\ owner = [p \in Player |-> Nobody]
  /\ tokens = [p \in Player |-> NoRow]
  /\ data = [p \in Player |-> {}]
  /\ live = {}
  /\ issued = {}
  /\ shared = {}
  /\ exclusive = Nobody
  /\ lock = [p \in Player |-> Nobody]
  /\ capacity = Permits
  /\ job = [t \in Task |-> Idle]
  /\ staging = Nothing
  /\ lost = {}
  /\ torn = {}

Goto(t, step) == job' = [job EXCEPT ![t] = [@ EXCEPT !.step = step]]
GotoWith(t, step, token) ==
  job' = [job EXCEPT ![t] = [@ EXCEPT !.step = step, !.token = token]]

\* Mutant: a live query keeps its permit.
RefreshPermit(op) == op = "refresh"

\* Taken by PublicGuard for a refresh, by HostedSync itself for a query.
TakesPermit(op) == op \in {"refresh", "query"}

\* The call is over, well or not: every `finally` and `with` has run.
Finish(t) ==
  /\ job' = [job EXCEPT ![t] = Idle]
  /\ shared' = shared \ {t}
  /\ exclusive' = IF exclusive = t THEN Nobody ELSE exclusive
  /\ lock' = [p \in Player |-> IF lock[p] = t THEN Nobody ELSE lock[p]]
  /\ capacity' = IF TakesPermit(job[t].op) THEN capacity + 1 ELSE capacity
  /\ staging' = IF exclusive = t THEN Nothing ELSE staging

-----------------------------------------------------------------------------
(* Entering: maintenance, then the player lock                             *)

\* A call for a player id that a session, an access token or the operator named.
Start(t, op, p) ==
  /\ job[t] = Idle
  /\ op \in {"refresh", "query", "advise", "delete"}
  /\ status[p] # "unknown"
  /\ op \in {"refresh", "query"} => capacity > 0
  /\ capacity' = IF op \in {"refresh", "query"} THEN capacity - 1 ELSE capacity
  /\ job' = [job EXCEPT ![t] = [op |-> op, step |-> "entering", player |-> p,
                                identity |-> Nobody, token |-> NoRow]]
  /\ UNCHANGED <<tables, data, msf, shared, exclusive, lock, staging, history>>

\* The callback: MSF exchanges the code and names the identity.  Bound of the model:
\* a player id is left for every sign-in.
Callback(t, i) ==
  /\ job[t] = Idle
  /\ Cardinality({p \in Player : status[p] = "unknown"}) >
       Cardinality({u \in Task : At(u, {"login"}, "signing_in")})
  /\ \E token \in {AccessOnly} \cup (Token \ issued) :
       /\ token \in Token => token = CHOOSE k \in Token : k \notin issued
       /\ issued' = issued \cup ({token} \ {AccessOnly})
       /\ live' = live \cup ({token} \ {AccessOnly})
       /\ job' = [job EXCEPT ![t] = [op |-> "login", step |-> "signing_in", player |-> Nobody,
                                     identity |-> i, token |-> token]]
  /\ UNCHANGED <<tables, data, locks, staging, history>>

\* store.player, a transaction of its own: the identity's active player or a new one.
SignIn(t) ==
  /\ At(t, {"login"}, "signing_in")
  /\ exclusive = Nobody
  /\ LET mine == {p \in Player : Active(p) /\ owner[p] = job[t].identity}
         new == CHOOSE p \in Player : status[p] = "unknown"
     IN \E p \in Player :
          /\ IF mine # {} THEN p \in mine ELSE p = new /\ status[p] = "unknown"
          /\ status' = [status EXCEPT ![p] = "active"]
          /\ owner' = [owner EXCEPT ![p] = job[t].identity]
          /\ job' = [job EXCEPT ![t] = [@ EXCEPT !.step = "entering", !.player = p]]
  /\ UNCHANGED <<tokens, data, msf, locks, staging, history>>

Entering(t) == job[t] # Idle /\ job[t].step = "entering"
Waiting(t) == job[t] # Idle /\ job[t].step = "waiting"

\* maintenance(), and the first look at the player
Enter(t) ==
  /\ Entering(t)
  /\ exclusive = Nobody
  /\ Active(Mine(t))
  /\ shared' = shared \cup {t}
  /\ Goto(t, "waiting")
  /\ UNCHANGED <<tables, data, msf, exclusive, lock, capacity, staging, history>>

\* Mutant: the player lock is not exclusive.
MayLockAny(p) == TRUE

\* flock(LOCK_EX | LOCK_NB)
MayLock(p) == lock[p] = Nobody

\* The player is looked at again under the lock.
LockPlayer(t) ==
  /\ Waiting(t)
  /\ MayLock(Mine(t))
  /\ Active(Mine(t))
  /\ lock' = [lock EXCEPT ![Mine(t)] = t]
  /\ Goto(t, "locked")
  /\ UNCHANGED <<tables, data, msf, shared, exclusive, capacity, staging, history>>

\* "Unknown or inactive player"
Refuse(t) ==
  /\ \/ Entering(t) /\ exclusive = Nobody
     \/ Waiting(t) /\ MayLock(Mine(t))
  /\ ~Active(Mine(t))
  /\ Finish(t)
  /\ UNCHANGED <<tables, data, msf, history>>

\* Mutant: a player lock is waited for without a deadline.
BlockedOnMaintenance(t) ==
  /\ job[t] # Idle
  /\ \/ job[t].step \in {"entering", "signing_in"} /\ exclusive # Nobody
     \/ job[t].step = "excluding" /\ (shared # {} \/ exclusive # Nobody)

\* What a task may be waiting for when LOCK_TIMEOUT_SECONDS are over.
Blocked(t) ==
  /\ job[t] # Idle
  /\ \/ job[t].step \in {"entering", "signing_in"} /\ exclusive # Nobody
     \/ job[t].step = "waiting" /\ lock[Mine(t)] # Nobody
     \/ job[t].step = "excluding" /\ (shared # {} \/ exclusive # Nobody)

\* "Service maintenance is busy", "Player storage is busy"
TimeOut(t) ==
  /\ Blocked(t)
  /\ Finish(t)
  /\ UNCHANGED <<tables, data, msf, history>>

-----------------------------------------------------------------------------
(* Credentials                                                             *)

\* The end of a callback: the new sign-in replaces the stored one.
SaveLogin(t) ==
  /\ At(t, {"login"}, "locked")
  /\ Active(Mine(t))
  /\ tokens' = [tokens EXCEPT ![Mine(t)] = job[t].token]
  /\ lost' = lost \ {Mine(t)}
  /\ Finish(t)
  /\ UNCHANGED <<status, owner, data, msf, torn>>

LoadTokens(t) ==
  /\ At(t, {"refresh", "query"}, "locked")
  /\ Active(Mine(t))
  /\ tokens[Mine(t)] # NoRow
  /\ GotoWith(t, "loaded", tokens[Mine(t)])
  /\ UNCHANGED <<tables, data, msf, locks, staging, history>>

\* "Your MSF sign-in is missing"
NotSignedIn(t) ==
  /\ At(t, {"refresh", "query"}, "locked")
  /\ tokens[Mine(t)] = NoRow
  /\ Finish(t)
  /\ UNCHANGED <<tables, data, msf, history>>

Loaded(t) == At(t, {"refresh", "query"}, "loaded") /\ job[t].token \in Token

\* renewed.refresh_token or tokens.refresh_token
KeepRenewed(old, renewed) == IF renewed = NoRow THEN old ELSE renewed

\* What MSF does when it renews token k: it rotates it, or answers without a new one.
Rotates(k, renewed) ==
  \/ /\ renewed = NoRow
     /\ UNCHANGED msf
  \/ /\ renewed \in Token \ issued
     /\ renewed = CHOOSE n \in Token : n \notin issued
     /\ issued' = issued \cup {renewed}
     /\ live' = (live \ {k}) \cup {renewed}

\* A refresh renews first; a query does so after a 401.
Renew(t) ==
  /\ Loaded(t)
  /\ job[t].token \in live
  /\ \E renewed \in Token \cup {NoRow} :
       /\ Rotates(job[t].token, renewed)
       /\ GotoWith(t, "renewed", KeepRenewed(job[t].token, renewed))
  /\ UNCHANGED <<tables, data, locks, staging, history>>

\* MSF rotated the token, and its answer is lost or unusable.
RenewLost(t) ==
  /\ Loaded(t)
  /\ job[t].token \in live
  /\ \E renewed \in Token : Rotates(job[t].token, renewed)
  /\ lost' = lost \cup {Mine(t)}
  /\ Finish(t)
  /\ UNCHANGED <<tables, data, torn>>

\* 400, 401 or 403: "Sign in again".
Rejected(t) ==
  /\ Loaded(t)
  /\ job[t].token \notin live
  /\ Finish(t)
  /\ UNCHANGED <<tables, data, msf, history>>

SaveTokens(t) ==
  /\ At(t, {"refresh", "query"}, "renewed")
  /\ Active(Mine(t))
  /\ tokens' = [tokens EXCEPT ![Mine(t)] = job[t].token]
  /\ Goto(t, "saved")
  /\ UNCHANGED <<status, owner, data, msf, locks, staging, history>>

\* The query's result, with the stored access token or a renewed one, or its error.
Answer(t) ==
  /\ At(t, {"query"}, "loaded") \/ At(t, {"query"}, "saved")
  /\ Finish(t)
  /\ UNCHANGED <<tables, data, msf, history>>

-----------------------------------------------------------------------------
(* Files                                                                   *)

\* player_dir, before the fetch
OpenDirectory(t) ==
  /\ \/ At(t, {"refresh"}, "saved")
     \/ At(t, {"refresh"}, "loaded") /\ job[t].token = AccessOnly
  /\ Active(Mine(t))
  /\ data' = [data EXCEPT ![Mine(t)] = @ \cup {"directory"}]
  /\ Goto(t, "fetching")
  /\ UNCHANGED <<tables, msf, locks, staging, history>>

\* write_snapshot makes the directory again if it is gone.
WriteSnapshot(t) ==
  /\ At(t, {"refresh"}, "fetching")
  /\ data' = [data EXCEPT ![Mine(t)] = @ \cup {"directory", "snapshot.json"}]
  /\ Finish(t)
  /\ UNCHANGED <<tables, msf, history>>

\* PlayerBackend: player_dir, and for the snapshot tools expire_snapshot.
OpenData(t) ==
  /\ At(t, {"advise"}, "locked")
  /\ Active(Mine(t))
  /\ \E expired \in {{}, {"snapshot.json"}} :
       data' = [data EXCEPT ![Mine(t)] = (@ \cup {"directory"}) \ expired]
  /\ Goto(t, "opened")
  /\ UNCHANGED <<tables, msf, locks, staging, history>>

\* The tool reads, or ContextStore writes.
UseData(t) ==
  /\ At(t, {"advise"}, "opened")
  /\ \E written \in {{}, {"directory", "context.json"}} :
       data' = [data EXCEPT ![Mine(t)] = @ \cup written]
  /\ Finish(t)
  /\ UNCHANGED <<tables, msf, history>>

-----------------------------------------------------------------------------
(* Deletion                                                                *)

\* player_dir and deactivate_player
Deactivate(t) ==
  /\ At(t, {"delete"}, "locked")
  /\ Active(Mine(t))
  /\ data' = [data EXCEPT ![Mine(t)] = @ \cup {"directory"}]
  /\ tokens' = [tokens EXCEPT ![Mine(t)] = NoRow]
  /\ status' = [status EXCEPT ![Mine(t)] = "inactive"]
  /\ lost' = lost \ {Mine(t)}
  /\ Goto(t, "deactivated")
  /\ UNCHANGED <<owner, msf, locks, staging, torn>>

\* provider.revoke_player, a transaction of HostedOAuth
RevokePlayer(t) ==
  /\ At(t, {"delete"}, "deactivated")
  /\ Goto(t, "revoked")
  /\ UNCHANGED <<tables, data, msf, locks, staging, history>>

\* shutil.rmtree
RemoveData(t) ==
  /\ At(t, {"delete"}, "revoked")
  /\ data' = [data EXCEPT ![Mine(t)] = {}]
  /\ Finish(t)
  /\ UNCHANGED <<tables, msf, history>>

-----------------------------------------------------------------------------
(* Backup                                                                  *)

StartBackup(t) ==
  /\ job[t] = Idle
  /\ job' = [job EXCEPT ![t] = [op |-> "backup", step |-> "excluding", player |-> Nobody,
                                identity |-> Nobody, token |-> NoRow]]
  /\ UNCHANGED <<tables, data, msf, locks, staging, history>>

\* Mutant: the lock keeps out other backups only.
MayExcludeBackups == exclusive = Nobody

\* maintenance(exclusive=True)
MayExclude == exclusive = Nobody /\ shared = {}

Exclude(t) ==
  /\ At(t, {"backup"}, "excluding")
  /\ MayExclude
  /\ exclusive' = t
  /\ Goto(t, "exclusive")
  /\ UNCHANGED <<tables, data, msf, shared, lock, capacity, staging, history>>

\* source.backup(target)
CopyDatabase(t) ==
  /\ At(t, {"backup"}, "exclusive")
  /\ staging' = [status |-> status, tokens |-> tokens]
  /\ Goto(t, "copied")
  /\ UNCHANGED <<tables, data, msf, locks, history>>

\* The players' files are added, and the archive appears under its name.
Publish(t) ==
  /\ At(t, {"backup"}, "copied")
  /\ Finish(t)
  /\ UNCHANGED <<tables, data, msf, history>>

-----------------------------------------------------------------------------
(* Failures                                                                *)

\* Players whose rotated token only the task t knows.
Unsaved(t) ==
  {p \in Player : /\ At(t, {"refresh", "query"}, "renewed")
                  /\ Mine(t) = p /\ tokens[p] # job[t].token}

\* Players the task t is halfway through deleting.
Deleting(t) ==
  {p \in Player : /\ At(t, {"delete"}, "deactivated") \/ At(t, {"delete"}, "revoked")
                  /\ Mine(t) = p}

\* Any step may raise: a full disk, a locked database, a network error, a response
\* that is too large.  rmtree may have removed some of the files by then.
Fail(t) ==
  /\ job[t] # Idle
  /\ \/ UNCHANGED data
     \/ /\ At(t, {"delete"}, "revoked")
        /\ \E left \in SUBSET data[Mine(t)] :
             /\ left = {} \/ "directory" \in left
             /\ data' = [data EXCEPT ![Mine(t)] = left]
  /\ lost' = lost \cup Unsaved(t)
  /\ torn' = torn \cup Deleting(t)
  /\ Finish(t)
  /\ UNCHANGED <<tables, msf>>

\* The container dies and is started again.
Crash ==
  /\ job' = [t \in Task |-> Idle]
  /\ shared' = {}
  /\ exclusive' = Nobody
  /\ lock' = [p \in Player |-> Nobody]
  /\ capacity' = Permits
  /\ staging' = Nothing
  /\ lost' = lost \cup UNION {Unsaved(t) : t \in Task}
  /\ torn' = torn \cup UNION {Deleting(t) : t \in Task}
  /\ UNCHANGED <<tables, data, msf>>

-----------------------------------------------------------------------------
\* A call begins.
Arrive(t) ==
  \/ \E op \in Op, p \in Player : Start(t, op, p)
  \/ \E i \in Identity : Callback(t, i)
  \/ StartBackup(t)

\* The next thing the code does in a call.
Proceed(t) ==
  \/ SignIn(t)
  \/ Enter(t)
  \/ LockPlayer(t)
  \/ Refuse(t)
  \/ TimeOut(t)
  \/ SaveLogin(t)
  \/ LoadTokens(t)
  \/ NotSignedIn(t)
  \/ Renew(t)
  \/ RenewLost(t)
  \/ Rejected(t)
  \/ SaveTokens(t)
  \/ Answer(t)
  \/ OpenDirectory(t)
  \/ WriteSnapshot(t)
  \/ OpenData(t)
  \/ UseData(t)
  \/ Deactivate(t)
  \/ RevokePlayer(t)
  \/ RemoveData(t)
  \/ Exclude(t)
  \/ CopyDatabase(t)
  \/ Publish(t)

Next ==
  \/ \E t \in Task : Arrive(t) \/ Proceed(t) \/ Fail(t)
  \/ Crash

Spec == Init /\ [][Next]_vars

\* Every wait is bounded (LOCK_TIMEOUT_SECONDS, SQLite's busy_timeout, the HTTP
\* timeouts), so a thread that runs gets on with its call.
FairSpec == Spec /\ \A t \in Task : WF_vars(Proceed(t))

-----------------------------------------------------------------------------
(* Properties                                                              *)

\* Tables, locks and calls have their shape, and no permit is given back twice.
TypeOK ==
  /\ status \in [Player -> {"unknown", "active", "inactive"}]
  /\ owner \in [Player -> Identity \cup {Nobody}]
  /\ tokens \in [Player -> Stored]
  /\ data \in [Player -> SUBSET Entry]
  /\ live \subseteq issued /\ issued \subseteq Token
  /\ shared \subseteq Task
  /\ exclusive \in Task \cup {Nobody}
  /\ lock \in [Player -> Task \cup {Nobody}]
  /\ capacity \in 0..Permits
  /\ job \in [Task -> Job \cup {Idle}]
  /\ staging \in Copy \cup {Nothing}
  /\ lost \subseteq Player /\ torn \subseteq Player

\* A deleted account keeps no credentials, and once its deletion has run to the end
\* nothing - a refresh, a tool, a sign-in that was under way - brings a file back.
DeletionIsFinal ==
  \A p \in Player : status[p] = "inactive" =>
    /\ tokens[p] = NoRow
    /\ data[p] = {} \/ p \in torn \/ \E t \in Task : p \in Deleting(t)

\* MSF's refresh tokens are single-use, so two calls must never spend the same one:
\* the stored token is the one MSF accepts, and a call that read it still can use it.
\* Only a failure between MSF's answer and the save may cost a player the sign-in.
SignInKept ==
  /\ \A p \in Player : tokens[p] \in Token /\ p \notin lost =>
       \/ tokens[p] \in live
       \/ \E t \in Task : p \in Unsaved(t)
  /\ \A t \in Task : Loaded(t) /\ Mine(t) \notin lost => job[t].token \in live

\* "archives the matching player files while all mutations are blocked"
\* (docs/server-operations.md): when the files have been read, the database is still
\* the one that was copied, and no deletion is halfway.
CoherentBackup ==
  [][\A t \in Task : At(t, {"backup"}, "copied") /\ job'[t] = Idle =>
       /\ staging = [status |-> status, tokens |-> tokens]
       /\ \A u \in Task : Deleting(u) = {}]_vars

\* Whatever the others do, no call is starved: it is served, or told that the
\* storage is busy.
EveryCallEnds == \A t \in Task : []<>(job[t] = Idle)

\* Locks and permits always come back: refreshes and queries are admitted again,
\* deletions and backups get their turn.
NothingHeldForever ==
  /\ []<>(capacity > 0)
  /\ []<>(exclusive = Nobody)
  /\ \A p \in Player : []<>(lock[p] = Nobody)

\* "removes the snapshot immediately" (docs/server-operations.md): an account that is
\* deleted, and that nobody is deleting any more, has no snapshot.
DeletionRemovesData ==
  \A p \in Player : status[p] = "inactive" /\ (\A t \in Task : p \notin Deleting(t)) =>
    "snapshot.json" \notin data[p]

=============================================================================
