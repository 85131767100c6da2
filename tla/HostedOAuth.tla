---------------------------- MODULE HostedOAuth ----------------------------
(***************************************************************************)
(* The hosted authorization server: registered clients, pending            *)
(* authorization requests, grants (one per approved consent, the root of a *)
(* refresh-token family) and the credentials that hang off a grant.        *)
(*                                                                         *)
(* Every public operation of HostedOAuthProvider is one IMMEDIATE SQLite   *)
(* transaction, hence one action here.  A token or revocation request is   *)
(* two of them - the SDK handler first loads the credential, then          *)
(* exchanges or revokes it - with everything else free to happen between,  *)
(* so a handler is a process with a job.  An operation that raises rolls   *)
(* its transaction back, its purge included, and is no step at all.        *)
(*                                                                         *)
(* oauth_codes and oauth_tokens are one table here, told apart by `kind`;  *)
(* redirect URIs, PKCE, the encrypted payloads and the resource (one       *)
(* constant for the whole service) are data no property reads.             *)
(* time.time() is taken to be monotonic.                                   *)
(***************************************************************************)
EXTENDS Integers, FiniteSets

CONSTANTS
  Player,      \* player ids (players.id, a fresh uuid per identity)
  Client,      \* client ids, drawn fresh by the SDK at registration
  Request,     \* hashes of request ids
  Grant,       \* grant ids
  Cred,        \* hashes of codes and tokens
  Handler,     \* concurrent token and revocation requests
  Scope,       \* a subset of SCOPES holding "msf:read"
  Metadata,    \* the registrations clients ask for
  ClientTTL, RequestTTL, CodeTTL, AccessTTL, FamilyTTL,
  MaxClients,  \* MAX_CLIENTS
  MaxRequests, \* MAX_REQUESTS
  MaxTime,     \* bound of the model: the clock stops there
  Unissued, Gone, Nobody, Idle

VARIABLES
  now,       \* time.time()
  players,   \* the players table: "unknown", "active" or "inactive"
  clients,   \* oauth_clients
  requests,  \* oauth_requests
  grants,    \* oauth_grants
  creds,     \* oauth_codes and oauth_tokens
  job        \* what each SDK handler holds between its two transactions

vars == <<now, players, clients, requests, grants, creds, job>>

Granted == {S \in SUBSET Scope : "msf:read" \in S}

ClientRow == [scope : SUBSET Scope, refresh : BOOLEAN, expires : Nat]
RequestRow == [client : Client, player : Player \cup {Nobody},
               scopes : Granted, expires : Nat]
GrantRow == [client : Client, player : Player, scopes : Granted,
             expires : Nat, revoked : BOOLEAN]
CredRow == [kind : {"code", "access", "refresh"}, grant : Grant,
            scopes : Granted, expires : Nat, used : BOOLEAN]
Job == [op : {"code", "refresh", "revoke"}, client : Client, cred : Cred,
        scopes : SUBSET Scope]

ASSUME TTLAssumption ==
  \A ttl \in {ClientTTL, RequestTTL, CodeTTL, AccessTTL, FamilyTTL} :
    ttl \in Nat \ {0}

ASSUME MetadataAssumption ==
  Metadata \subseteq [scope : SUBSET Scope, refresh : BOOLEAN]

ASSUME SentinelAssumption ==
  /\ Unissued # Gone
  /\ Unissued \notin ClientRow /\ Gone \notin ClientRow
  /\ Unissued \notin RequestRow /\ Gone \notin RequestRow
  /\ Unissued \notin GrantRow /\ Gone \notin GrantRow
  /\ Unissued \notin CredRow /\ Gone \notin CredRow
  /\ Nobody \notin Player
  /\ Idle \notin Job

-----------------------------------------------------------------------------
(* Rows and lookups                                                        *)

Row(x) == x \notin {Unissued, Gone}

\* Ids come from `secrets` and uuid4 and never repeat: which of the ids that were
\* never issued comes next is immaterial.  The pools bound the model.
Left(table, taken) == \E x \in DOMAIN table \ taken : table[x] = Unissued
Draw(table, taken) == CHOOSE x \in DOMAIN table \ taken : table[x] = Unissued

\* Mutant: only unrevoked grants keep a registration.
KnownByLive(cs, gs, c) ==
  /\ Row(cs[c])
  /\ \/ cs[c].expires > now
     \/ \E g \in Grant : /\ Row(gs[g]) /\ gs[g].client = c
                         /\ gs[g].expires > now /\ ~gs[g].revoked

\* The registration of c in the tables cs and gs: within its own window, or
\* within the lifetime of any grant it ever got, revoked or not.
Known(cs, gs, c) ==
  /\ Row(cs[c])
  /\ \/ cs[c].expires > now
     \/ \E g \in Grant : Row(gs[g]) /\ gs[g].client = c /\ gs[g].expires > now

Active(p) == players[p] = "active"

\* A grant that still authorizes anything.
LiveGrant(g) ==
  /\ Row(grants[g])
  /\ grants[g].expires > now
  /\ ~grants[g].revoked
  /\ Active(grants[g].player)

\* The join of _credential.
Valid(k) ==
  /\ Row(creds[k])
  /\ creds[k].expires > now
  /\ LiveGrant(creds[k].grant)

ValidFor(k, c) == Valid(k) /\ grants[creds[k].grant].client = c

Redeemable(k) == Valid(k) /\ creds[k].kind # "access" /\ ~creds[k].used

-----------------------------------------------------------------------------
(* The purge that opens registration and authorization                     *)

LiveRequests ==
  [r \in Request |-> IF Row(requests[r]) /\ requests[r].expires <= now
                     THEN Gone ELSE requests[r]]

LiveGrants ==
  [g \in Grant |-> IF Row(grants[g]) /\ grants[g].expires <= now
                   THEN Gone ELSE grants[g]]

\* Mutant: spent refresh tokens are purged too.
CredsUnspent ==
  [k \in Cred |-> IF /\ Row(creds[k])
                     /\ \/ ~Row(LiveGrants[creds[k].grant])
                        \/ creds[k].used
                  THEN Gone ELSE creds[k]]

\* Credentials go with their grant (ON DELETE CASCADE); on their own only codes
\* and access tokens do: a refresh token, spent or not, stays.
LiveCreds ==
  [k \in Cred |-> IF /\ Row(creds[k])
                     /\ \/ ~Row(LiveGrants[creds[k].grant])
                        \/ creds[k].kind # "refresh" /\ creds[k].expires <= now
                  THEN Gone ELSE creds[k]]

\* Mutant: registrations with a pending request are purged.
ClientsGranted ==
  [c \in Client |-> IF /\ Row(clients[c])
                       /\ clients[c].expires <= now
                       /\ \A g \in Grant : Row(LiveGrants[g]) => LiveGrants[g].client # c
                    THEN Gone ELSE clients[c]]

LiveClients ==
  [c \in Client |-> IF /\ Row(clients[c])
                       /\ clients[c].expires <= now
                       /\ \A g \in Grant : Row(LiveGrants[g]) => LiveGrants[g].client # c
                       /\ \A r \in Request : Row(LiveRequests[r]) => LiveRequests[r].client # c
                    THEN Gone ELSE clients[c]]

-----------------------------------------------------------------------------
Init ==
  /\ now = 0
  /\ players = [p \in Player |-> "unknown"]
  /\ clients = [c \in Client |-> Unissued]
  /\ requests = [r \in Request |-> Unissued]
  /\ grants = [g \in Grant |-> Unissued]
  /\ creds = [k \in Cred |-> Unissued]
  /\ job = [h \in Handler |-> Idle]

Tick ==
  /\ now < MaxTime
  /\ now' = now + 1
  /\ UNCHANGED <<players, clients, requests, grants, creds, job>>

-----------------------------------------------------------------------------
(* Players, in hosted_store.py: an identity gets an active player, and a   *)
(* deactivated player is never active again.                               *)

CreatePlayer(p) ==
  /\ players[p] = "unknown"
  /\ players' = [players EXCEPT ![p] = "active"]
  /\ UNCHANGED <<now, clients, requests, grants, creds, job>>

DeactivatePlayer(p) ==
  /\ Active(p)
  /\ players' = [players EXCEPT ![p] = "inactive"]
  /\ UNCHANGED <<now, clients, requests, grants, creds, job>>

-----------------------------------------------------------------------------
(* Registration and consent                                                *)

\* Registrations no live grant vouches for: these count against MAX_CLIENTS.
Unvouched(cs, gs) ==
  {c \in Client : /\ Row(cs[c])
                  /\ \A g \in Grant : Row(gs[g]) /\ gs[g].client = c =>
                       \/ gs[g].revoked
                       \/ gs[g].expires <= now
                       \/ ~Active(gs[g].player)}

RegisterClient(meta) ==
  /\ Left(clients, {})
  /\ Cardinality(Unvouched(LiveClients, LiveGrants)) < MaxClients
  /\ clients' = [LiveClients EXCEPT ![Draw(clients, {})] =
                   [scope |-> meta.scope, refresh |-> meta.refresh,
                    expires |-> now + ClientTTL]]
  /\ requests' = LiveRequests
  /\ grants' = LiveGrants
  /\ creds' = LiveCreds
  /\ UNCHANGED <<now, players, job>>

\* Mutant: the limit itself is let in.
RequestsLeftInclusive ==
  Cardinality({q \in Request : Row(LiveRequests[q])}) <= MaxRequests

RequestsLeft == Cardinality({q \in Request : Row(LiveRequests[q])}) < MaxRequests

Authorize(c, S) ==
  /\ Left(requests, {})
  /\ Known(LiveClients, LiveGrants, c)
  /\ S \subseteq clients[c].scope
  /\ "offline_access" \in S => clients[c].refresh
  /\ RequestsLeft
  /\ requests' = [LiveRequests EXCEPT ![Draw(requests, {})] =
                    [client |-> c, player |-> Nobody, scopes |-> S,
                     expires |-> now + RequestTTL]]
  /\ clients' = LiveClients
  /\ grants' = LiveGrants
  /\ creds' = LiveCreds
  /\ UNCHANGED <<now, players, job>>

\* _request: the row a login or a consent may still act on.
Pending(r) ==
  /\ Row(requests[r])
  /\ requests[r].expires > now
  /\ Known(clients, grants, requests[r].client)

\* Mutant: a second login takes a bound request over.
MayBindAny(r, p) == Pending(r) /\ Active(p)

MayBind(r, p) == Pending(r) /\ Active(p) /\ requests[r].player \in {Nobody, p}

CompleteLogin(r, p) ==
  /\ MayBind(r, p)
  /\ requests' = [requests EXCEPT ![r].player = p]
  /\ UNCHANGED <<now, players, clients, grants, creds, job>>

Approve(r, p) ==
  LET g == Draw(grants, {})
      k == Draw(creds, {}) IN
  /\ Pending(r)
  /\ requests[r].player = p
  /\ Active(p)
  /\ Left(grants, {}) /\ Left(creds, {})
  /\ grants' = [grants EXCEPT ![g] =
                  [client |-> requests[r].client, player |-> p,
                   scopes |-> requests[r].scopes,
                   expires |-> now + FamilyTTL, revoked |-> FALSE]]
  /\ creds' = [creds EXCEPT ![k] =
                 [kind |-> "code", grant |-> g, scopes |-> requests[r].scopes,
                  expires |-> now + CodeTTL, used |-> FALSE]]
  /\ requests' = [requests EXCEPT ![r] = Gone]
  /\ UNCHANGED <<now, players, clients, job>>

-----------------------------------------------------------------------------
(* The token endpoint                                                      *)

Revoked(G) == [g \in Grant |-> IF g \in G /\ Row(grants[g])
                               THEN [grants[g] EXCEPT !.revoked = TRUE]
                               ELSE grants[g]]

Take(h, c, k, op, S) ==
  job' = [job EXCEPT ![h] = [op |-> op, client |-> c, cred |-> k, scopes |-> S]]

\* The SDK knows the client that posts to the token and revocation endpoints.
Asks(h, c) == job[h] = Idle /\ Known(clients, grants, c)

LoadCode(h, c, k) ==
  /\ Asks(h, c)
  /\ ValidFor(k, c)
  /\ creds[k].kind = "code"
  /\ ~creds[k].used
  /\ Take(h, c, k, "code", {})
  /\ UNCHANGED <<now, players, clients, requests, grants, creds>>

\* The SDK asks for scopes of the loaded token only, for all of them by default.
LoadRefresh(h, c, k, S) ==
  /\ Asks(h, c)
  /\ ValidFor(k, c)
  /\ creds[k].kind = "refresh"
  /\ ~creds[k].used
  /\ S \subseteq creds[k].scopes /\ S # {}
  /\ Take(h, c, k, "refresh", S)
  /\ UNCHANGED <<now, players, clients, requests, grants, creds>>

\* Loading a spent refresh token, to redeem or to revoke it, is a replay: the
\* load answers None, and the family is revoked.
LoadReplayed(h, c, k) ==
  /\ Asks(h, c)
  /\ ValidFor(k, c)
  /\ creds[k].kind = "refresh"
  /\ creds[k].used
  /\ grants' = Revoked({creds[k].grant})
  /\ UNCHANGED <<now, players, clients, requests, creds, job>>

LoadRevoke(h, c, k) ==
  /\ Asks(h, c)
  /\ ValidFor(k, c)
  /\ creds[k].kind \in {"access", "refresh"}
  /\ ~creds[k].used
  /\ Take(h, c, k, "revoke", {})
  /\ UNCHANGED <<now, players, clients, requests, grants, creds>>

\* Mutant: access tokens live their full term.
AccessExpiryUncapped(family) == now + AccessTTL

AccessExpiry(family) == IF now + AccessTTL < family THEN now + AccessTTL ELSE family

\* _issue after the credential k is marked used: an access token, and a refresh
\* token for as long as the family lives when offline access was granted.
NewAccess == Draw(creds, {})
NewRefresh == Draw(creds, {NewAccess})

CanIssue(S) ==
  /\ Left(creds, {})
  /\ "offline_access" \in S => Left(creds, {NewAccess})

\* Mutant: the tokens get the scopes of the grant.
GrantScopes(k, S) == grants[creds[k].grant].scopes

\* Both tokens get the scopes that were asked for.
IssuedScopes(k, S) == S

Issued(k, S) ==
  LET g == creds[k].grant
      family == grants[g].expires
      Token(kind, until) == [kind |-> kind, grant |-> g, scopes |-> IssuedScopes(k, S),
                             expires |-> until, used |-> FALSE]
  IN [x \in Cred |->
        CASE x = k -> [creds[k] EXCEPT !.used = TRUE]
          [] x = NewAccess -> Token("access", AccessExpiry(family))
          [] x = NewRefresh /\ "offline_access" \in S -> Token("refresh", family)
          [] OTHER -> creds[x]]

Doing(h, op) == job[h] # Idle /\ job[h].op = op

Release(h) == job' = [job EXCEPT ![h] = Idle]

\* An exchange looks the credential up again: it may have been spent, revoked or
\* purged since the load.
StillValid(h) ==
  /\ ValidFor(job[h].cred, job[h].client)
  /\ creds[job[h].cred].kind = job[h].op

\* Mutant: an exchange trusts the load on whether the credential is spent.
UnusedAtLoad(h) == StillValid(h)

StillUnused(h) == StillValid(h) /\ ~creds[job[h].cred].used

ExchangeCode(h) ==
  LET k == job[h].cred
      S == grants[creds[k].grant].scopes IN
  /\ Doing(h, "code")
  /\ StillUnused(h)
  /\ CanIssue(S)
  /\ creds' = Issued(k, S)
  /\ Release(h)
  /\ UNCHANGED <<now, players, clients, requests, grants>>

ScopesAllowed(h) ==
  job[h].scopes \subseteq creds[job[h].cred].scopes /\ "msf:read" \in job[h].scopes

ExchangeRefresh(h) ==
  /\ Doing(h, "refresh")
  /\ StillUnused(h)
  /\ ScopesAllowed(h)
  /\ CanIssue(job[h].scopes)
  /\ creds' = Issued(job[h].cred, job[h].scopes)
  /\ Release(h)
  /\ UNCHANGED <<now, players, clients, requests, grants>>

\* Another handler spent the token after this one loaded it.  The scopes are
\* checked first: a replay that fails that check revokes nothing.
ExchangeReplayed(h) ==
  /\ Doing(h, "refresh")
  /\ StillValid(h)
  /\ ScopesAllowed(h)
  /\ creds[job[h].cred].used
  /\ grants' = Revoked({creds[job[h].cred].grant})
  /\ Release(h)
  /\ UNCHANGED <<now, players, clients, requests, creds>>

RevokeToken(h) ==
  LET k == job[h].cred IN
  /\ Doing(h, "revoke")
  /\ grants' = IF ValidFor(k, job[h].client)
               THEN Revoked({creds[k].grant}) ELSE grants
  /\ Release(h)
  /\ UNCHANGED <<now, players, clients, requests, creds>>

\* invalid_grant or invalid_scope, a request cancelled between its two
\* transactions, or a process restart: the job is dropped and nothing else.
Abandon(h) ==
  /\ job[h] # Idle
  /\ Release(h)
  /\ UNCHANGED <<now, players, clients, requests, grants, creds>>

-----------------------------------------------------------------------------
(* The account page and the operator                                       *)

RevokeGrant(p, g) ==
  /\ Row(grants[g]) /\ grants[g].player = p
  /\ grants' = Revoked({g})
  /\ UNCHANGED <<now, players, clients, requests, creds, job>>

RevokePlayer(p) ==
  /\ grants' = Revoked({g \in Grant : Row(grants[g]) /\ grants[g].player = p})
  /\ requests' = [r \in Request |->
                    IF Row(requests[r]) /\ requests[r].player = p
                    THEN Gone ELSE requests[r]]
  /\ UNCHANGED <<now, players, clients, creds, job>>

InvalidateAll ==
  /\ grants' = Revoked(Grant)
  /\ requests' = [r \in Request |-> IF Row(requests[r]) THEN Gone ELSE requests[r]]
  /\ UNCHANGED <<now, players, clients, creds, job>>

-----------------------------------------------------------------------------
PlayerStep(p) == CreatePlayer(p) \/ DeactivatePlayer(p)

ClientStep ==
  \/ \E meta \in Metadata : RegisterClient(meta)
  \/ \E c \in Client, S \in Granted : Authorize(c, S)

ConsentStep(p) == \E r \in Request : CompleteLogin(r, p) \/ Approve(r, p)

LoadStep(h) ==
  /\ job[h] = Idle
  /\ \E c \in Client, k \in Cred :
       \/ LoadCode(h, c, k)
       \/ \E S \in SUBSET Scope : LoadRefresh(h, c, k, S)
       \/ LoadReplayed(h, c, k)
       \/ LoadRevoke(h, c, k)

FinishStep(h) ==
  \/ ExchangeCode(h)
  \/ ExchangeRefresh(h)
  \/ ExchangeReplayed(h)
  \/ RevokeToken(h)
  \/ Abandon(h)

RevocationStep ==
  \/ \E p \in Player, g \in Grant : RevokeGrant(p, g)
  \/ \E p \in Player : RevokePlayer(p)
  \/ InvalidateAll

Next ==
  \/ Tick
  \/ \E p \in Player : PlayerStep(p) \/ ConsentStep(p)
  \/ ClientStep
  \/ \E h \in Handler : LoadStep(h) \/ FinishStep(h)
  \/ RevocationStep

Spec == Init /\ [][Next]_vars
-----------------------------------------------------------------------------
(* Properties                                                              *)

\* Every table holds rows of its own shape.
TypeOK ==
  /\ now \in Nat
  /\ players \in [Player -> {"unknown", "active", "inactive"}]
  /\ clients \in [Client -> ClientRow \cup {Unissued, Gone}]
  /\ requests \in [Request -> RequestRow \cup {Unissued, Gone}]
  /\ grants \in [Grant -> GrantRow \cup {Unissued, Gone}]
  /\ creds \in [Cred -> CredRow \cup {Unissued, Gone}]
  /\ job \in [Handler -> Job \cup {Idle}]

\* Referential integrity across the purge, whose deletes run one after the other
\* over tables that reference each other: a request or a grant always has its
\* registration and its player, and a credential its grant.
NoOrphan ==
  /\ \A r \in Request : Row(requests[r]) =>
       /\ Row(clients[requests[r].client])
       /\ requests[r].player # Nobody => players[requests[r].player] # "unknown"
  /\ \A g \in Grant : Row(grants[g]) =>
       /\ Row(clients[grants[g].client])
       /\ players[grants[g].player] # "unknown"
  /\ \A k \in Cred : Row(creds[k]) => Row(grants[creds[k].grant])

\* "The player's client keeps its client_id after a revocation and must be able
\* to reconnect" (comment in _client): no purge and no expiry forgets a client
\* that was granted anything within the lifetime of a family.
CanReconnect ==
  \A g \in Grant : Row(grants[g]) /\ grants[g].expires > now =>
    Known(clients, grants, grants[g].client)

\* A consent is spent once and by the player it was bound to: a bound request
\* never changes hands, and the grant that appears takes its client, player and
\* scopes from one request, which disappears in the same transaction.
ConsentSpentOnce ==
  [][/\ \A r \in Request : Row(requests[r]) /\ requests[r].player \in Player =>
          requests'[r] \in {requests[r], Gone}
     /\ \A g \in Grant : grants[g] = Unissued /\ grants'[g] # Unissued =>
          \E r \in Request :
            /\ Row(requests[r]) /\ requests'[r] = Gone
            /\ grants'[g].client = requests[r].client
            /\ grants'[g].player = requests[r].player
            /\ grants'[g].scopes = requests[r].scopes]_vars

\* A token is only ever issued for a credential that is spent in the same transaction and
\* that was good until then, its grant not revoked, not expired and its player not deleted
\* since the handler loaded it; and for no more than that credential allowed and the handler
\* asked for, so that what one refresh gave up no later one gets back.  (_credential, _issue
\* and both exchanges, hosted_oauth.py:403-414, 433-465, 467-476, 514-534)
TokensInherit ==
  [][\A k \in Cred : creds[k] = Unissued /\ Row(creds'[k]) /\ creds'[k].kind # "code" =>
       \E h \in Handler : LET j == job[h].cred IN
         /\ job[h] # Idle /\ job'[h] = Idle
         /\ Redeemable(j)
         /\ creds'[j] = [creds[j] EXCEPT !.used = TRUE]
         /\ creds'[k].grant = creds[j].grant
         /\ creds'[k].scopes \subseteq creds[j].scopes
         /\ job[h].op = "refresh" => creds'[k].scopes \subseteq job[h].scopes]_vars

\* MAX_REQUESTS bounds the table itself, expired rows included.
PendingBounded == Cardinality({r \in Request : Row(requests[r])}) <= MaxRequests

\* However handlers interleave their loads and exchanges, a family never holds
\* two credentials that could still be traded for tokens.
Unspent(k) == Row(creds[k]) /\ creds[k].kind # "access" /\ ~creds[k].used

OneUnspent ==
  \A j, k \in Cred : Unspent(j) /\ Unspent(k) /\ creds[j].grant = creds[k].grant =>
    j = k

\* No chain of refreshes outlives or outgrows the consent it started from.
WithinGrant ==
  \A k \in Cred : Row(creds[k]) =>
    LET g == grants[creds[k].grant] IN
    /\ creds[k].scopes \subseteq g.scopes
    /\ creds[k].kind = "access" => creds[k].expires <= g.expires
    /\ creds[k].kind = "refresh" => /\ creds[k].expires = g.expires
                                    /\ "offline_access" \in creds[k].scopes

\* "Refresh families have a fixed 30-day lifetime, including consumed-token
\* tombstones" (module docstring): a spent refresh token stays recognizable as
\* spent, so that its replay is caught, until its whole family is gone.
TombstonesKept ==
  [][\A k \in Cred : Row(creds[k]) /\ creds[k].kind = "refresh" /\ creds[k].used =>
       \/ creds'[k] = creds[k]
       \/ creds'[k] = Gone /\ grants'[creds[k].grant] = Gone]_vars

\* The families of this server are families of CredentialFamily: at most one
\* credential to redeem, never one seen before, and no return from the dead.
FamilyStatus ==
  [g \in Grant |-> IF grants[g] = Unissued THEN "none"
                   ELSE IF LiveGrant(g) THEN "live" ELSE "dead"]

FamilyRedeemable ==
  [g \in Grant |-> {k \in Cred : Redeemable(k) /\ creds[k].grant = g}]

HandedOut == {k \in Cred : creds[k] # Unissued}

Families == INSTANCE CredentialFamily WITH
  Family <- Grant,
  Credential <- Cred,
  status <- FamilyStatus,
  redeemable <- FamilyRedeemable,
  known <- HandedOut

FamilySpec == Families!Spec

=============================================================================
