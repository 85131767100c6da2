# Formal models of msf-assistant

This directory holds the TLA+ models of msf-assistant: what its parts keep, what every operation
does to it, and what must hold however operations, failures and crashes interleave. TLC checks the
models on small instances; TLAPS proves the most important results for every value of the
constants. Definitions are translated from `src/src/msf_assistant/`; `PROJECT.json` ("map") names
the lines behind each of them.

1. [The system](#1-the-system)
2. [The modules](#2-the-modules)
3. [The runs](#3-the-runs)
4. [Fairness](#4-fairness)
5. [The proofs](#5-the-proofs)
6. [What the models found](#6-what-the-models-found)
7. [What is not modelled](#7-what-is-not-modelled)

## 1. The system

msf-assistant fetches a player's *Marvel Strike Force* data from the MSF API with the player's own
OAuth permission and offers it, together with a store of goals and advice, to an AI assistant over
MCP. It runs in two ways: on a player's Mac (command line and stdio MCP server, tokens in the
Keychain), and as a hosted service for many players (HTTP MCP server, its own OAuth authorization
server, SQLite, a directory for each player, backups).

| component | state | operations | what makes it correct |
| --- | --- | --- | --- |
| OAuth authorization server (`hosted_oauth.py`) | tables `oauth_clients`, `oauth_requests`, `oauth_grants`, `oauth_codes`, `oauth_tokens` | register, authorize, complete_login, approve, load and exchange of codes and refresh tokens, revoke, purge | a consent is spent once, a family of refresh tokens never forks, nothing outlives its grant, replays are recognised, references stay whole, a token never allows more than what it was traded for |
| Player store and locks (`hosted_store.py`, `hosted_identity.py`) | tables `players`, `msf_tokens`; `players/<id>/`; maintenance and player lock files; the leases of threads | player, save_tokens, load_tokens, player_lock, maintenance (nested, inherited, forked), deactivate_player | a deleted account stays deleted; locks come back; waiting is bounded; an exclusive section is alone |
| Hosted refresh and query (`hosted_sync.py`, `live_query.py`, `auth.py`) | `BoundedSemaphore(2)`; a call's tokens between MSF's answer and the save | refresh, query | MSF's single-use refresh tokens are never spent twice nor dropped |
| Advisor context (`advisor_context.py`) | `context.json`, its lock file, its temporary file | save_goal, save_player_fact, save_recommendation, delete_record, reads | no lost update, no file that later reads refuse, confirmed writes are durable |
| HTTP admission (`hosted_server.py`, PublicGuard) | `active`, `rates`, the permits of HostedSync, a request's locals | one request, from arrival to answer | slots and permits balance on every path, rates hold, one answer |
| Hosted web (`hosted_web.py`) | table `browser_sessions`; cookies, forms and callbacks in browsers | login, callback, consent, account page, revoke, delete | a login state is spent once, by the browser it was issued to; a page acts on what it shows; a request keeps its first player |
| Backup (`hosted_backup.py`, `hosted_cli.py`) | archives and their staging directories; a restored root with its marker and database | backup, pruning, restore and its clean-up, delete-player, resume, serve | an archive is one state of the service; pruning takes what it should; a half restore never serves; no authorization comes back |
| Local account (`cli.py`, `login.py`, `token_store.py`, `operation_lock.py`) | Keychain item, lock file of the checkout, LoginFlow | login, sync, live query, logout | the sign-in survives every refresh, a logout is final, a login ends |
| MSF client, snapshot reader (`client.py`, `snapshot.py`, `mcp_server.py`) | `snapshot.json`; what an assistant has read so far | paged catalogue, sync, list pages | a list is whole: nothing twice, nothing missing; paging ends |
| Texts and plumbing (`projection.py`, `advisor_instructions.py`, `hosted_pages.py`, `hosted_transport.py`, `config.py`, `deploy/`) | none | declarations | not modelled |

How they interact:

* A hosted MCP request passes **PublicGuard** (token, rate, body, refresh permit) to the SDK's
  application, whose tools run in worker threads. A tool resolves its player and takes the
  **maintenance lock** (shared) and the **player lock** (`PlayerBackend.invoke`, `HostedSync`).
* Refresh and query load MSF tokens from the store, may renew them at MSF, save them, and fetch.
  MSF is outside; it *rotates*: a refresh token that was used is dead.
* The web's callback creates the player and saves the tokens under the player lock; deletion
  deactivates, revokes the grants and removes the directory under the same lock.
* A backup takes the maintenance lock exclusively. What the lock is made of - an `flock` behind a
  counted **lease** that worker threads inherit from their parent's context - is a layer of its own.
* A restore reads an archive that some backup published; until `hosted resume` removes the marker it
  wrote, `hosted serve` refuses the root.
* The web's handlers bind a pending authorization request to the player who signed in, and approve
  it from a page that may have been open for long.
* OAuth endpoints are SDK handlers that call the provider twice: *load* a credential, then
  *exchange* or *revoke* it. Each call is one IMMEDIATE transaction; the pair is not.
* On a Mac, command-line processes and the threads of the stdio server share one Keychain item and
  exclude each other with `work/msf-account.lock`.

What is hard here, and why tests hardly reach it: two-transaction handlers racing each other, the
purge and a deletion; single-use tokens with a network call between load and save; a deletion in
several steps against calls that began before it; a rename that a power loss may undo; hand-written
counters around a dozen exits; a deadline against a browser; pages that stay open while their
browser signs in as somebody else; commands that are killed between two file operations; a file
that is replaced between two pages of a list. `PROJECT.json` ("hazards") lists each
at its line, with the properties that would catch it.

## 2. The modules

| module | models | notes |
| --- | --- | --- |
| `HostedOAuth` | `HostedOAuthProvider` | one action per transaction; a *handler* holds a loaded credential between its two transactions |
| `CredentialFamily` | - | abstract: what the server promises about a family of credentials |
| `HostedAccount` | players, tokens, directory, locks, HostedSync, deletion, what a backup copies | a *task* is a call (login, refresh, query, advise, delete, backup) and its step |
| `MaintenanceLease` | `HostedStore.maintenance`, `_MaintenanceLease` | a *section* is one execution of `with store.maintenance()`; threads start workers, fork and are killed |
| `MaintenanceLock` | - | abstract: a readers-writer lock whose holders may let others in |
| `BrowserSessions` | `BrowserSessions` and every handler of `hosted_web.py` | a *task* is a request; a step is one transaction |
| `BackupArchives` | `backup`, its staging and pruning | one step per file operation, killed or failed at each |
| `RestoredRoot` | `restore`, `resume`, `delete-player`, `serve` on a restored root | one step per file operation, killed or failed at each |
| `HostedBackup` | both together | restores need an archive that a backup published; backups go on meanwhile |
| `ContextStore` | `ContextStore` | a *writer* is a process in `_mutate`; a write is prepare, replace, confirm |
| `SnapshotPages` | `iter_game_characters`, `fetch_snapshot`, `write_snapshot`, the paged tools | a sync and a reader, page by page |
| `LocalAccount` | login, sync, query, logout on a Mac | a *task* is an operation under a checkout's lock |
| `PublicGuard` | `PublicGuard`, `HostedSync.capacity` | a connection's request is at one of its awaits |
| `*Proofs` | - | theorems about the module of that name; `PlayerFilesProofs` about `ContextStore` and `SnapshotPages`, the two files an assistant reads |
| `MC*` | - | symmetry sets and small data for TLC |

Conventions. State has the source's names (`requests`, `grants`, `capacity`, `active`, `rates`).
An operation that raises without effect is no step. Ids and tokens come from `secrets` or `uuid4`
and never repeat, so the next one is drawn with CHOOSE from those never issued. Sentinels
(`Nobody`, `Idle`, `NoRow`, `Unissued`, `Gone`) are constants of their own. A definition whose
comment begins with *Mutant* is a plausible bug of the definition below it; no action uses it, and
putting it in that definition's place makes the property named in `PROJECT.json` fail.

**HostedOAuth.** Tables are functions from ids to rows, `Unissued`
or `Gone`; `creds` merges codes and tokens, told apart by `kind`. The purge that opens most
transactions is `LiveRequests`, `LiveGrants`, `LiveCreds`, `LiveClients`, part of the action it opens.
`LoadCode`/`LoadRefresh` end in a job, `ExchangeCode`/`ExchangeRefresh` look the credential up again;
`LoadReplayed`, `ExchangeReplayed` revoke the family. Time is a counter; TTLs are constants.

**HostedAccount.** `Start`/`SignIn` begin a call, `Enter` takes the maintenance lock, `LockPlayer`
the player lock and `_require`; then the steps of the operation (`LoadTokens`, `Renew`,
`SaveTokens`, `WriteSnapshot`, `Deactivate`, `RevokePlayer`, `RemoveData`, ...), each a transaction,
a file operation or a call to MSF; `Fail` is an exception at any step, `Crash` the container's end.
`lost` and `torn` are history: sign-ins lost between MSF's answer and the save, deletions that
stopped halfway.

`HostedAccount` takes the maintenance lock for granted, as a set `shared` and a holder `exclusive`.
That this is what the code's leases amount to is what the next module is for.

**MaintenanceLease.** `context` is the context variable of each thread; a worker starts with a copy
of its parent's (`Start`). A section borrows the lease it finds there when the lease is of its own
process and still held, and otherwise opens the lock file and takes the `flock`. `Fork` copies
descriptors, so that a child may keep a lock of its parent alive; `Die` ends a process with all its
threads. It implements `MaintenanceLock`: a lease's sections are a group, a borrowed section joins
it, and the lock is free when the last of them ends, whoever began it.

**BrowserSessions.** A request reads its cookie on arrival and sets the new one with its response,
so requests of one browser cross. `begin` reads a session in one transaction and stores the login
state in another; the callback consumes the state, exchanges the code, binds the request to the
player and replaces the session, each in a transaction of its own; consent and deletion look the
session up and act later. Rows and states may expire at any moment. `pages` and callbacks may be
used late, twice, or after the cookie has changed. `begun`, `signins` and `acts` are history.

**BackupArchives, RestoredRoot, HostedBackup.** A backup stages an archive, publishes it with
`os.link`, removes the staging name and prunes by number, then by age. A restore makes the root,
writes the marker, extracts the database and the players, and clears `AUTH_TABLES`; its clean-up
(`except BaseException`) removes the root entry by entry (`Remove`, `Removed`) and may itself fail
(`RemoveFails`: `rmtree` raises, or a second Ctrl-C comes). A restore may be killed anywhere, its
clean-up included (`Kill`). `cut` is history: the step at which restore or clean-up broke off, so that a
property can say what it excepts. `BackupKills` names the steps at which a backup may be killed.

**SnapshotPages.** MSF's catalogue may change between two pages of a sync; pages are numbered, as
`iter_game_characters` counts them, and the loop stops where the code stops. A reader reopens the
file for each page, goes on at `next_offset`, and compares `retrieved_at`. That MSF honours
`perPage` is assumed. Its names are its own (`InitPages`, `Paging`, `PagesTyped`) so that it can stand next to
`ContextStore` in one module of proofs. A list is given by the place of each row: the n-th is the one
that n - 1 others come before (`Listed`), which is what can be proved about.

**ContextStore.** `Prepare` is everything under the lock up to the temporary file, `Replace` is
`os.replace`, `Confirm` the directory sync. `survivors` is what a power loss may leave.

**LocalAccount.** `Serve` opens the loopback login, `Tick` is its clock, `Visit`, `Allow`, `Callback`
and `Denied` what browsers do (several tabs, one cookie jar), `Exchange`/`ExchangeFails` the code.
`Load`, `Renew`, `SaveTokens`, `Fetch` are sync and query; `Clear`, `ClearRaises`, `LookAgain` the
logout, whose second look decides when the Keychain raised. `Fail` ends any operation anywhere
(exceptions, Ctrl-C, `handle_error`).

**PublicGuard.** A request moves between the awaits of `__call__` and `request`. The body's 413 is
sent inside `fail_after`, so its step (`overflowing`) can still be cut off by the deadline. The
permit is taken before the application and given back after the answer is out. `rates` holds
windows as what is left of them; entries that ran out stay until the next MCP request purges them.
`recent` is history: how many requests of a player were let in during the last i ticks, for each i.

## 3. The runs

| run | checks | bounds, and why they are enough | states |
| --- | --- | --- | --- |
| `oauth` | OneUnspent, WithinGrant, NoOrphan, CanReconnect, TokensInherit, PendingBounded, TombstonesKept, FamilySpec, ConsentSpentOnce | 2 players, 2 registrations and 2 requests of which 1 fits at a time, 2 handlers, one family of up to 5 credentials (a code, two refreshes with their access tokens), time 0..2: a registration ends before its request, a code before its family, and a purge comes between | 354,560 |
| `context_store` | AlwaysReadable, AckedSurvives, NoLostUpdate | 2 writers, 2 ids, limits of 1, revisions to 3: enough for a stale revision, a full collection, a dangling reference and a revision lost to a power loss | 299,558 |
| `hosted_account` | DeletionIsFinal, SignInKept, CoherentBackup, EveryCallEnds, NothingHeldForever | 2 calls at once, one identity with two player ids (before and after a deletion), 2 tokens (one rotation or a second sign-in), the 2 permits of the code: two renewals of one token are kept apart by the player's lock alone | 408,917 |
| `hosted_account_deletion` | DeletionRemovesData (violated, see 6) | as `hosted_account`, with 3 tokens | |
| `maintenance_lease` | Exclusion, LockSpec | 3 threads in one to three processes (a parent, its worker, a fork or another command), 2 leases, sections two deep | 206,047 |
| `browser_sessions` | SpentOnce, AsShown, ApprovedBySignIn, SignInGenuine | two browsers, one with a client's request and one that opened its account; 2 requests at once, of one browser or of both; 3 sessions, 2 at a time, 2 login states, two identities, two accounts (of both, or of one before and after a deletion), 2 forms open in each browser: a browser opens the callback address of the other, which awaits a state of its own, and an old page is posted under another account | 3,010,600 |
| `hosted_backup` | ServedOnlyResumed, NoResurrection, AuthorizationCleared, RetentionHolds, NewestKept | 3 backups over two days of which one is kept for one day; 2 accounts, any of them deleted since. Backups and restores fail or are killed anywhere, clean-ups included | 3,077,128 |
| `restore_killed` | AuthorizationNeverRevived (violated, see 6) | the same root | |
| `snapshot_pages` | PagesTyped, PagesWhole, CatalogueWhole, ReaderEnds | catalogues of 0 to 4 characters in pages of 2 (empty, short, full and just full), a change between pages, readers with pages of 1 or 2 rows, 2 syncs | 379,585 |
| `local_account` | SignInUsable, LogoutHolds, LoginEnds | one checkout (so one lock), 2 operations, 2 attempts, 4 tokens (a sign-in and three renewals), deadline of 2 ticks | 14,638 |
| `local_account_checkouts` | LogoutHolds (violated, see 6) | two checkouts, one Keychain item | |
| `public_guard` | SlotsBalance, PermitsBalance, OneAnswer, RateBounded, EveryRequestEnds | 3 clients, 2 slots, 1 permit, a rate table for one of two players, 2 requests in 2 ticks: each resource has one claimant too many | 128,605 |

Bounds that are not in the code: `MaxTime` (a clock stops; HostedOAuth, BackupArchives), `MaxRevision`
(no write is started beyond), `Depth` (how deep sections nest), `MaxTabs` (the forms a browser
has open), `MaxChanges` and `MaxSyncs` of
SnapshotPages, and the finite pools of ids, tokens, sessions, leases and archives. TTLs, `Timeout`
and `Window` count ticks instead of seconds. Nothing else is cut. Symmetry is used for callers only
(players and handlers, writers and ids, threads and leases, the requests of browsers and the
identities at MSF), only in runs
without liveness, and never where CHOOSE draws ids. No run turns the deadlock check off.

Type invariants: those of the modules with proofs are theorems (5) and not model-checked again;
`SnapshotPages!PagesTyped` is both. What is only there with more actors than a run has - three
handlers at one family, scopes beyond `msf:read` and `offline_access`, two browsers that race for one
request or both finish a sign-in - is covered by the proofs, which bound no constant.

What the properties say is in the comment above each of them. The central ones:

* **OneUnspent, FamilySpec**: however token requests interleave with each other, expiry, purge,
  revocation and deletion, a family holds at most one credential that can still be traded, and it
  only ever fades. `HostedOAuth` implements `CredentialFamily` under the mapping `FamilyStatus`,
  `FamilyRedeemable`, `HandedOut`.
* **TokensInherit**: whatever happened between a handler's load and its exchange, a token is only
  issued for a credential that is good until it is spent in that very step, and allows no more than
  that credential did and the client asked for: scopes that one refresh gives up never come back.
* **SignInKept, SignInUsable**: the stored refresh token is the one MSF accepts, or its successor is
  on its way to be saved; only a failure between MSF's answer and the save costs the sign-in.
* **DeletionIsFinal**: no call that began earlier brings back anything of a deleted account.
* **CoherentBackup**: when an archive is published, the tables it holds are still the tables, and no
  deletion is halfway.
* **NoLostUpdate, AckedSurvives, AlwaysReadable**: the advisor context under concurrency and crashes.
* **Exclusion, LockSpec**: an exclusive section shares no time with a section of another lease,
  whatever was inherited, borrowed, forked or killed, and the lease behaves as a readers-writer lock.
* **SpentOnce, SignInGenuine, AsShown, ApprovedBySignIn**: a login state is consumed once and only
  by the browser that began with it; what a late page does, it does for the player and the request
  it showed; and only the first player of a request can approve it.
* **ServedOnlyResumed, NoResurrection, AuthorizationCleared**: no order of restores, failures,
  kills, deletions and resumes serves a root nobody attested, a player deleted since the backup, or
  a grant of the archive - except what a clean-up left that did not end and, for the grants, a kill
  before they were cleared (both in 6).
* **RetentionHolds, NewestKept**: a backup that ends well leaves at most `--retention` archives, the
  leftovers of earlier failures included, and pruning never takes one that is young and new enough.
* **PagesWhole, CatalogueWhole, ReaderEnds**: pages under one `retrieved_at` are the list, each row
  once; a sync during which the catalogue did not change stores all of it; a reader that goes on gets to the end.
* **SlotsBalance, PermitsBalance, OneAnswer, RateBounded**: the guard, on every way out.

## 4. Fairness

* `HostedAccount!FairSpec`: weak fairness of `Proceed(t)`, one condition for each call: a running
  thread runs on, a request to MSF is answered or times out (`request_timeout`), a wait for a lock ends
  in the lock or in its deadline. No lock is assumed fair: that a poll may always lose the race is
  what the deadlines are for.
* `LocalAccount!FairSpec`: weak fairness of `Proceed(t)` and of `Tick(t)`: the serving loop wakes up
  four times a second, the clock runs, and MSF answers or times out. Nothing is assumed of browsers,
  players or Ctrl-C.
* `PublicGuard!FairSpec`: weak fairness of `Proceed(c)` and `BodyTimeout(c)`: token lookups, tools and
  *sends* end, and `fail_after` fires. Clients need not finish a body. That sends end is an
  assumption on the HTTP server in front: the code itself sets no deadline for a client that
  stops reading its answer.
* `SnapshotPages!FairSpec`: weak fairness of `NextRead`: an assistant that pages through a list asks for
  the next page at some time. Syncs need not happen, and may happen between any two pages.
* The other modules have no liveness property: an operation is a transaction or a command that ends,
  and nothing waits for another beyond a database or file lock with a deadline. The deadline on the
  maintenance lock is in `HostedAccount`.

## 5. The proofs

All for every value of the constants that satisfies the named ASSUMEs of the module (positive
TTLs and limits, sentinels that are not values). The steps are those of `Next`, one step of the
proof for each action.

| module | theorems | inductive invariant, and why the property alone is not enough |
| --- | --- | --- |
| `HostedOAuthProofs` | TypeCorrect, ReferencesHold, SingleUse, ConsentBounds, TombstonesStay, ImplementsFamilies, TokensAreInherited, ReconnectsHold, ConsentsSpentOnce, RequestsBounded | `TypeOK /\ NoOrphan` carries the rest: that a purge leaves no unspent twin needs every credential to have its grant. Exchanges are shown to be trades (`Trades`), all other actions `Quiet` (they add no credential); the refinement maps trades to `Redeem`, approval to `Open` and quiet steps to `Fade`. `TokensAreInherited` reads the trades once more, with what a handler holds, and needs `CodesWhole`: a code stands for the whole consent. `ConsentsSpentOnce` splits steps by what they do to a bound request (`BoundStays`) and to the table of grants (`GrantsAreApproved`). `RequestsBounded` assumes finitely many request ids |
| `PlayerFilesProofs` | of ContextStore: TypeCorrect, NeverBricked, ConfirmedIsDurable, UpdatesAreAtomic; of SnapshotPages: RankedOnce, PagesTypeCorrect, PagesAreWhole, CataloguesAreWhole | `IInv == TypeOK /\ Exclusive /\ Durable`: a draft is one mutation away from the file *while its writer holds the lock*, and everything on the disk is valid and no older than what was confirmed. `PagesInv`: a sync in whose time the catalogue did not change holds exactly the pages before the next (`SyncTrue`), a date always names one catalogue, wherever it was kept (`FilesTrue`), and a reader that saw one date holds the list of that date up to its offset (`ReaderTrue`). `ListedOnce` shows that counting who comes before is one-to-one, so that a listing misses nobody |
| `HostedAccountProofs` | TypeCorrect, DeletedStaysDeleted, BackupsAreCoherent, SignInsAreKept, CallsImplementLock | `Locked` (which step holds which lock, and whose), with `Balanced` (permits out = calls that took one) for the type of `capacity`, `Deletion` (what an inactive player may still have, and who may be deleting), `Frozen` (a backup's copy is the tables while it is exclusive); `Placed`: every refresh token has one place - a call's hands or a player's row -, and one that a call carries is its player's, so that a renewal cannot strand somebody else's. `CallsImplementLock` maps `shared`, `exclusive` onto `MaintenanceLock`, with a group of one section for each call: the very lock that `LeaseIsLock` shows the leases to be |
| `LocalAccountProofs` | TypeCorrect, SignInSurvives, LogoutIsFinal | `Safe`: who is under way owns the lock (`Exclusive`), what it carries is the Keychain's token or a live successor (`Carried`), and the stored token works or is being replaced (`Usable`). The last two theorems assume `OneCheckout`: with two, LogoutHolds is false (6) |
| `PublicGuardProofs` | TypeCorrect, SlotsAreBalanced, PermitsAreBalanced, AnsweredOnce, RatesAreBounded | `Inv` adds to the types and the two balances what a request at each await has charged, holds and has sent (`UnderWay`, `Charges`, `RequestTrue`); cardinalities change with the one request that moves, which needs finitely many connections. `RecentTrue` relates the requests of the last i ticks to what is left of the window and to its count: what came before a window that is still open is at most one more window's worth |
| `MaintenanceLeaseProofs` | TypeCorrect, LeasesExclude, LeasesCount, LeaseIsLock | `SectionsTrue` (the sections of a thread nest), `LeasesTrue` (a lease that is used is held, and an exclusive one is alone), `ContextsTrue` (what a context points to is real or stale), `Counted` (references = sections): without the count, the last section to leave could be one too early. `LeaseIsLock` is the refinement: entering is Open or Join, leaving and dying are Leave, the rest stutters |
| `BrowserSessionsProofs` | TypeCorrect, StatesSpentOnce, CallbacksGenuine, PagesAct, ApprovalsSigned, FirstOwner | `Inv == Types /\ JobsTrue /\ PagesTrue /\ CookiesTrue /\ RowsTrue`: what a request remembers was true of its session when it looked, and sessions never change their player; `OnePlace`: a login state is in one row, in one callback's hands, or spent |
| `HostedBackupProofs` | TypeCorrect, ServedAttested, DeletedStayDeleted, NothingRevived, RetentionIsKept, NewestStay, all of the composition | `Safe`: an archive's database lies next to the marker until somebody attests the deletions or a clean-up takes both (`Marked`, `Attested`), and what exists, is served or restored fits together (`Holds`); `ClearedBefore`: an uncleared database is at the steps before the clearing, or was left there by a kill or by a clean-up. Nothing is assumed of kills. `Orderly`: archives are numbered as they are published, the running backup's is the last, and only a kill leaves a second link; that pruning leaves enough is counted with the least number that could go wrong (`Least`). The commands of the composition run restores and backups that do not disturb each other (`CommandsRunRestores`, `CommandsRunBackups`), which is how the invariants of both parts hold in it |

Every safety property of the runs that pass is a theorem. Only model-checked is liveness
(EveryCallEnds, NothingHeldForever, LoginEnds, EveryRequestEnds, ReaderEnds): tlapm has no rule for
ENABLED, and so none for WF. Where an argument needs an induction over numbers (`RetentionIsKept`), it
takes the least counterexample instead, which the library's theorem on well-founded orders provides;
the induction theorems themselves take an operator, which the provers cannot instantiate. For the same
reason sequences are not sorted with an operator in SnapshotPages, but listed by counting. No module
here declares a RECURSIVE operator.

## 6. What the models found

* **A deletion that stops halfway keeps the snapshot** (`hosted_account_deletion`).
  `docs/server-operations.md:251-252` says that `/account` deletion or `hosted delete-player` "removes
  the snapshot immediately". Both commit `deactivate_player` first; if revoking or `rmtree` then
  fails, or the process dies, the directory stays, and a retry is refused because an inactive
  player can no longer be locked. `DeletionIsFinal` therefore exempts players in `torn`.
* **The lock is the checkout's, the Keychain item is not** (`local_account_checkouts`).
  `operation_lock.py:15` speaks of "this checkout's token store", and `cli.py:251-252` promises that the
  item is not "rotated or resurrected concurrently". The item is keyed by client id and OAuth URL
  only (`token_store.py:48-49`), so two checkouts of one client do not exclude each other, and a sync
  in one brings back what a logout in the other has removed.
* **A killed restore can revive authorization** (`restore_killed`). `docs/server-operations.md:182-186`
  says that restore clears every grant, token and session, and that every client must reconnect.
  `restore` extracts the archive's database under its final name (`hosted_backup.py:209-211`) and clears
  it afterwards (`:214`); its clean-up never sees a SIGKILL. What is left carries the marker, but
  `resume` looks at nothing else, so an operator who resumes it serves the archive's grants. A root
  must be restored again after a kill, and nothing tells the operator so.
* Not findings, but visible in assumptions and exceptions:
  * The clean-up of a failed restore may break off - `rmtree` raises, a second Ctrl-C or a SIGKILL
    comes - after it has removed the marker and before it removes the database (`hosted_backup.py:222`).
    `serve` then starts on the rest, although restore is to "require reconciliation before a server can
    start" (`:170`), unattested and, if it failed early, with the archive's grants. `ServedOnlyResumed`,
    `NoResurrection` and `AuthorizationCleared` name this case (`cut = "failed"`) and nothing wider.
  * A backup that is killed between `os.link` and the removal of its staging name
    (`hosted_backup.py:111-117`) leaves an archive that no later backup prunes: `RetentionHolds` counts
    those apart.
* Not a finding, but visible in `OneAnswer`: the 413 of an oversized body is sent under the body's own
  deadline (`hosted_server.py:194-206`). If that send is held up past the deadline, a 408 is started
  after it. The property states this exception; a started answer is never followed by any other.

## 7. What is not modelled

Abstracted in what is modelled: contents of tokens, documents and messages; redirect URIs, PKCE,
scopes beyond a subset; file permissions and symlink checks; the encryption of payloads; access
tokens of MSF, whose expiry only decides whether a query renews; the validation of an archive's
members, schema and key, which is an outcome (refused or not). `time.time()` is taken to be
monotonic.

Not modelled at all, because they keep no state that anything else depends on: HTML and texts
(`hosted_pages.py`, `advisor_instructions.py`), shaping of one response (`projection.py`, profile and
status), configuration parsing and `generate-key`, MCP tool declarations, network transport options,
the application behind PublicGuard, deployment scripts. MSF is external: it is modelled by what the
code relies on (rotation of refresh tokens, pages of a catalogue).

Left for later: MSF answering with pages of another size than asked.
