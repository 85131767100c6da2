------------------------- MODULE HostedOAuthProofs -------------------------
(***************************************************************************)
(* Proofs about HostedOAuth, for any number of players, clients, handlers  *)
(* and ids, and any lifetimes.                                             *)
(***************************************************************************)
EXTENDS HostedOAuth, FiniteSetTheorems, TLAPS

-----------------------------------------------------------------------------
(* Lemmas about the operators the actions are built from                   *)

\* An id that is drawn was never issued.
LEMMA DrawFresh ==
  ASSUME NEW table, NEW taken, Left(table, taken)
  PROVE  /\ Draw(table, taken) \in DOMAIN table \ taken
         /\ table[Draw(table, taken)] = Unissued
  BY DEF Left, Draw

\* Sentinels are not rows.
LEMMA NoRow == ~Row(Unissued) /\ ~Row(Gone)
  BY DEF Row

LEMMA PurgeType ==
  ASSUME TypeOK
  PROVE  /\ LiveRequests \in [Request -> RequestRow \cup {Unissued, Gone}]
         /\ LiveGrants \in [Grant -> GrantRow \cup {Unissued, Gone}]
         /\ LiveCreds \in [Cred -> CredRow \cup {Unissued, Gone}]
         /\ LiveClients \in [Client -> ClientRow \cup {Unissued, Gone}]
  BY DEF TypeOK, LiveRequests, LiveGrants, LiveCreds, LiveClients

LEMMA RevokedType ==
  ASSUME TypeOK, NEW G
  PROVE  Revoked(G) \in [Grant -> GrantRow \cup {Unissued, Gone}]
  BY DEF TypeOK, Revoked, Row, GrantRow

\* The rows a valid credential joins.
LEMMA ValidRows ==
  ASSUME TypeOK, NEW k \in Cred, Valid(k)
  PROVE  /\ creds[k] \in CredRow
         /\ creds[k].grant \in Grant
         /\ grants[creds[k].grant] \in GrantRow
         /\ Row(grants[creds[k].grant])
         /\ Row(creds[k])
  BY DEF TypeOK, Valid, LiveGrant, Row, CredRow

LEMMA IssuedType ==
  ASSUME TypeOK, NEW k \in Cred, Valid(k), NEW S \in Granted
  PROVE  Issued(k, S) \in [Cred -> CredRow \cup {Unissued, Gone}]
<1>1. creds[k] \in CredRow /\ creds[k].grant \in Grant
      /\ grants[creds[k].grant] \in GrantRow
  BY ValidRows
<1>2. AccessExpiry(grants[creds[k].grant].expires) \in Nat
  BY <1>1, TTLAssumption DEF AccessExpiry, GrantRow, TypeOK
<1> QED
  BY <1>1, <1>2 DEF Issued, IssuedScopes, CredRow, GrantRow, TypeOK

-----------------------------------------------------------------------------
(* Type correctness                                                        *)

LEMMA InitType == Init => TypeOK
  BY DEF Init, TypeOK

LEMMA NextType == TypeOK /\ [Next]_vars => TypeOK'
<1> SUFFICES ASSUME TypeOK, [Next]_vars
             PROVE  TypeOK'
  OBVIOUS
<1>1. CASE Tick
  BY <1>1 DEF Tick, TypeOK
<1>2. ASSUME NEW p \in Player, CreatePlayer(p) \/ DeactivatePlayer(p)
      PROVE  TypeOK'
  BY <1>2 DEF CreatePlayer, DeactivatePlayer, TypeOK
<1>3. ASSUME NEW p \in Player, NEW r \in Request, CompleteLogin(r, p)
      PROVE  TypeOK'
  <2>1. requests[r] \in RequestRow
    BY <1>3 DEF CompleteLogin, MayBind, Pending, Row, TypeOK
  <2> QED
    BY <1>3, <2>1 DEF CompleteLogin, TypeOK, RequestRow
<1>4. ASSUME NEW p \in Player, NEW r \in Request, Approve(r, p)
      PROVE  TypeOK'
  <2> DEFINE g == Draw(grants, {})
             k == Draw(creds, {})
  <2>1. requests[r] \in RequestRow
    BY <1>4 DEF Approve, Pending, Row, TypeOK
  <2>2. g \in Grant /\ k \in Cred
    BY <1>4, DrawFresh DEF Approve, TypeOK
  <2>3. now + FamilyTTL \in Nat /\ now + CodeTTL \in Nat
    BY TTLAssumption DEF TypeOK
  <2> HIDE DEF g, k
  <2>4. grants' = [grants EXCEPT ![g] =
                     [client |-> requests[r].client, player |-> p,
                      scopes |-> requests[r].scopes,
                      expires |-> now + FamilyTTL, revoked |-> FALSE]]
    BY <1>4 DEF Approve, g
  <2>5. creds' = [creds EXCEPT ![k] =
                    [kind |-> "code", grant |-> g, scopes |-> requests[r].scopes,
                     expires |-> now + CodeTTL, used |-> FALSE]]
    BY <1>4 DEF Approve, g, k
  <2>6. grants' \in [Grant -> GrantRow \cup {Unissued, Gone}]
    BY <2>1, <2>3, <2>4 DEF TypeOK, RequestRow, GrantRow
  <2>7. creds' \in [Cred -> CredRow \cup {Unissued, Gone}]
    BY <2>1, <2>2, <2>3, <2>5 DEF TypeOK, RequestRow, CredRow
  <2> QED
    BY <1>4, <2>6, <2>7 DEF Approve, TypeOK
<1>5. ASSUME NEW meta \in Metadata, RegisterClient(meta)
      PROVE  TypeOK'
  <2> DEFINE row == [scope |-> meta.scope, refresh |-> meta.refresh,
                     expires |-> now + ClientTTL]
  <2>1. row \in ClientRow
    BY MetadataAssumption, TTLAssumption DEF ClientRow, TypeOK
  <2> HIDE DEF row
  <2>2. clients' = [LiveClients EXCEPT ![Draw(clients, {})] = row]
    BY <1>5 DEF RegisterClient, row
  <2> QED
    BY <1>5, <2>1, <2>2, PurgeType DEF RegisterClient, TypeOK
<1>6. ASSUME NEW c \in Client, NEW S \in Granted, Authorize(c, S)
      PROVE  TypeOK'
  <2> DEFINE row == [client |-> c, player |-> Nobody, scopes |-> S,
                     expires |-> now + RequestTTL]
  <2>1. row \in RequestRow
    BY TTLAssumption DEF RequestRow, TypeOK
  <2> HIDE DEF row
  <2>2. requests' = [LiveRequests EXCEPT ![Draw(requests, {})] = row]
    BY <1>6 DEF Authorize, row
  <2> QED
    BY <1>6, <2>1, <2>2, PurgeType DEF Authorize, TypeOK
<1>7. ASSUME NEW h \in Handler, LoadStep(h)
      PROVE  TypeOK'
  <2>1. PICK c \in Client, k \in Cred :
          \/ \E op \in {"code", "refresh", "revoke"}, S \in SUBSET Scope :
               /\ Take(h, c, k, op, S)
               /\ UNCHANGED <<now, players, clients, requests, grants, creds>>
          \/ LoadReplayed(h, c, k)
    BY <1>7 DEF LoadStep, LoadCode, LoadRefresh, LoadRevoke
  <2>2. CASE LoadReplayed(h, c, k)
    BY <2>2, RevokedType DEF LoadReplayed, TypeOK
  <2>3. ASSUME NEW op \in {"code", "refresh", "revoke"}, NEW S \in SUBSET Scope,
               Take(h, c, k, op, S),
               UNCHANGED <<now, players, clients, requests, grants, creds>>
        PROVE  TypeOK'
    BY <2>3 DEF Take, Job, TypeOK
  <2> QED
    BY <2>1, <2>2, <2>3
<1>8. ASSUME NEW h \in Handler, FinishStep(h)
      PROVE  TypeOK'
  <2>1. job[h] \in Job \cup {Idle}
    BY DEF TypeOK
  <2>2. Release(h) => job' \in [Handler -> Job \cup {Idle}]
    BY DEF Release, TypeOK
  <2>3. CASE ExchangeCode(h)
    <3> DEFINE k == job[h].cred
    <3>1. k \in Cred /\ Valid(k)
      BY <2>1, <2>3 DEF ExchangeCode, Doing, StillUnused, StillValid, ValidFor, Job
    <3>2. grants[creds[k].grant].scopes \in Granted
      BY <3>1, ValidRows DEF GrantRow
    <3> QED
      BY <2>2, <2>3, <3>1, <3>2, IssuedType DEF ExchangeCode, TypeOK
  <2>4. CASE ExchangeRefresh(h)
    <3> DEFINE k == job[h].cred
    <3>1. k \in Cred /\ Valid(k) /\ job[h].scopes \in Granted
      BY <2>1, <2>4 DEF ExchangeRefresh, Doing, StillUnused, StillValid, ValidFor,
                        ScopesAllowed, Granted, Job
    <3> QED
      BY <2>2, <2>4, <3>1, IssuedType DEF ExchangeRefresh, TypeOK
  <2>5. CASE ExchangeReplayed(h)
    BY <2>2, <2>5, RevokedType DEF ExchangeReplayed, TypeOK
  <2>6. CASE RevokeToken(h)
    BY <2>2, <2>6, RevokedType DEF RevokeToken, TypeOK
  <2>7. CASE Abandon(h)
    BY <2>2, <2>7 DEF Abandon, TypeOK
  <2> QED
    BY <1>8, <2>3, <2>4, <2>5, <2>6, <2>7 DEF FinishStep
<1>9. CASE RevocationStep
  <2>1. PICK G : grants' = Revoked(G)
    BY <1>9 DEF RevocationStep, RevokeGrant, RevokePlayer, InvalidateAll
  <2>2. grants' \in [Grant -> GrantRow \cup {Unissued, Gone}]
    BY <2>1, RevokedType
  <2>3. requests' \in [Request -> RequestRow \cup {Unissued, Gone}]
    BY <1>9 DEF RevocationStep, RevokeGrant, RevokePlayer, InvalidateAll, TypeOK
  <2>4. UNCHANGED <<now, players, clients, creds, job>>
    BY <1>9 DEF RevocationStep, RevokeGrant, RevokePlayer, InvalidateAll
  <2> QED
    BY <2>2, <2>3, <2>4 DEF TypeOK
<1>10. CASE UNCHANGED vars
  BY <1>10 DEF vars, TypeOK
<1> QED
  BY <1>1, <1>2, <1>3, <1>4, <1>5, <1>6, <1>7, <1>8, <1>9, <1>10
     DEF Next, PlayerStep, ConsentStep, ClientStep

\* Every table always holds rows of its own shape, whatever the lifetimes and pools.
THEOREM TypeCorrect == Spec => []TypeOK
  BY InitType, NextType, PTL DEF Spec

-----------------------------------------------------------------------------
(* What the table operators keep, row by row                               *)

\* The purge leaves rows as they are or takes them away, and takes nothing away
\* that a row it leaves refers to.
LEMMA PurgeRows ==
  ASSUME TypeOK, NoOrphan
  PROVE  /\ \A r \in Request : Row(LiveRequests[r]) =>
              /\ LiveRequests[r] = requests[r]
              /\ Row(LiveClients[requests[r].client])
         /\ \A g \in Grant : Row(LiveGrants[g]) =>
              /\ LiveGrants[g] = grants[g]
              /\ Row(LiveClients[grants[g].client])
         /\ \A k \in Cred : Row(LiveCreds[k]) =>
              /\ LiveCreds[k] = creds[k]
              /\ Row(LiveGrants[creds[k].grant])
<1>1. ASSUME NEW r \in Request, Row(LiveRequests[r])
      PROVE  /\ LiveRequests[r] = requests[r]
             /\ Row(LiveClients[requests[r].client])
  <2>1. LiveRequests[r] = requests[r] /\ requests[r] \in RequestRow
    BY <1>1 DEF LiveRequests, Row, TypeOK
  <2> QED
    BY <1>1, <2>1 DEF NoOrphan, LiveClients, RequestRow
<1>2. ASSUME NEW g \in Grant, Row(LiveGrants[g])
      PROVE  /\ LiveGrants[g] = grants[g]
             /\ Row(LiveClients[grants[g].client])
  <2>1. LiveGrants[g] = grants[g] /\ grants[g] \in GrantRow
    BY <1>2 DEF LiveGrants, Row, TypeOK
  <2> QED
    BY <1>2, <2>1 DEF NoOrphan, LiveClients, GrantRow
<1>3. ASSUME NEW k \in Cred, Row(LiveCreds[k])
      PROVE  /\ LiveCreds[k] = creds[k]
             /\ Row(LiveGrants[creds[k].grant])
  BY <1>3 DEF LiveCreds, Row
<1> QED
  BY <1>1, <1>2, <1>3

\* Revocation sets a flag and nothing else.
LEMMA RevokedRows ==
  ASSUME TypeOK, NEW G, NEW g \in Grant
  PROVE  /\ Row(Revoked(G)[g]) <=> Row(grants[g])
         /\ Revoked(G)[g] = Unissued <=> grants[g] = Unissued
         /\ Row(grants[g]) => /\ Revoked(G)[g].client = grants[g].client
                              /\ Revoked(G)[g].player = grants[g].player
                              /\ Revoked(G)[g].scopes = grants[g].scopes
                              /\ Revoked(G)[g].expires = grants[g].expires
                              /\ grants[g].revoked => Revoked(G)[g].revoked
<1>1. CASE Row(grants[g])
  <2>1. grants[g] \in GrantRow
    BY <1>1 DEF Row, TypeOK
  <2>2. [grants[g] EXCEPT !.revoked = TRUE] \in GrantRow
    BY <2>1 DEF GrantRow
  <2> QED
    BY <1>1, <2>1, <2>2, SentinelAssumption DEF Revoked, Row, GrantRow
<1>2. CASE ~Row(grants[g])
  BY <1>2 DEF Revoked, Row
<1> QED
  BY <1>1, <1>2

\* An issue marks k used, adds its tokens to k's family, and touches nothing else.
LEMMA IssuedRows ==
  ASSUME TypeOK, NEW k \in Cred, Valid(k), NEW S \in Granted, CanIssue(S),
         NEW x \in Cred
  PROVE  \/ /\ x = k
            /\ Issued(k, S)[x] = [creds[k] EXCEPT !.used = TRUE]
            /\ Row(creds[x]) /\ Row(Issued(k, S)[x])
         \/ /\ x # k /\ creds[x] = Unissued
            /\ Issued(k, S)[x] \in CredRow
            /\ Row(Issued(k, S)[x])
            /\ Issued(k, S)[x].grant = creds[k].grant
            /\ Issued(k, S)[x].scopes = S
            /\ ~Issued(k, S)[x].used
            /\ \/ /\ Issued(k, S)[x].kind = "access"
                  /\ Issued(k, S)[x].expires <= grants[creds[k].grant].expires
               \/ /\ Issued(k, S)[x].kind = "refresh"
                  /\ x = NewRefresh
                  /\ "offline_access" \in S
                  /\ Issued(k, S)[x].expires = grants[creds[k].grant].expires
         \/ x # k /\ Issued(k, S)[x] = creds[x]
<1> DEFINE g == creds[k].grant
           Token(kind, until) == [kind |-> kind, grant |-> g, scopes |-> S,
                                  expires |-> until, used |-> FALSE]
<1>1. /\ creds[k] \in CredRow /\ g \in Grant /\ grants[g] \in GrantRow
      /\ Row(creds[k])
  BY ValidRows
<1>2. NewAccess \in Cred /\ creds[NewAccess] = Unissued
  BY DrawFresh DEF NewAccess, CanIssue, TypeOK
<1>3. "offline_access" \in S =>
        /\ NewRefresh \in Cred /\ creds[NewRefresh] = Unissued
        /\ NewRefresh # NewAccess
  BY DrawFresh DEF NewRefresh, CanIssue, TypeOK
<1>4. k # NewAccess /\ ("offline_access" \in S => k # NewRefresh)
  BY <1>1, <1>2, <1>3 DEF Row
<1>5. /\ AccessExpiry(grants[g].expires) \in Nat
      /\ AccessExpiry(grants[g].expires) <= grants[g].expires
  BY <1>1, TTLAssumption DEF AccessExpiry, GrantRow, TypeOK
<1>6. CASE x = k
  <2>1. Issued(k, S)[x] = [creds[k] EXCEPT !.used = TRUE]
    BY <1>4, <1>6 DEF Issued, IssuedScopes
  <2>2. [creds[k] EXCEPT !.used = TRUE] \in CredRow
    BY <1>1 DEF CredRow
  <2> QED
    BY <1>1, <1>6, <2>1, <2>2, SentinelAssumption DEF Row
<1>7. CASE x = NewAccess
  <2>1. Issued(k, S)[x] = Token("access", AccessExpiry(grants[g].expires))
    BY <1>3, <1>4, <1>7 DEF Issued, IssuedScopes
  <2>2. Token("access", AccessExpiry(grants[g].expires)) \in CredRow
    BY <1>1, <1>5 DEF CredRow
  <2>3. Row(Issued(k, S)[x]) /\ Issued(k, S)[x] \in CredRow
    BY <2>1, <2>2, SentinelAssumption DEF Row
  <2>4. /\ Issued(k, S)[x].kind = "access"
        /\ Issued(k, S)[x].grant = g
        /\ Issued(k, S)[x].scopes = S
        /\ Issued(k, S)[x].expires = AccessExpiry(grants[g].expires)
        /\ ~Issued(k, S)[x].used
    BY <2>1
  <2> QED
    BY <1>2, <1>4, <1>5, <1>7, <2>3, <2>4
<1>8. CASE x = NewRefresh /\ x # NewAccess /\ "offline_access" \in S
  <2>1. Issued(k, S)[x] = Token("refresh", grants[g].expires)
    BY <1>4, <1>8 DEF Issued, IssuedScopes
  <2>2. Token("refresh", grants[g].expires) \in CredRow
    BY <1>1 DEF CredRow, GrantRow
  <2>3. Row(Issued(k, S)[x]) /\ Issued(k, S)[x] \in CredRow
    BY <2>1, <2>2, SentinelAssumption DEF Row
  <2>4. /\ Issued(k, S)[x].kind = "refresh"
        /\ Issued(k, S)[x].grant = g
        /\ Issued(k, S)[x].scopes = S
        /\ Issued(k, S)[x].expires = grants[g].expires
        /\ ~Issued(k, S)[x].used
    BY <2>1
  <2> QED
    BY <1>3, <1>4, <1>8, <2>3, <2>4
<1>9. CASE x # k /\ x # NewAccess /\ ~(x = NewRefresh /\ "offline_access" \in S)
  BY <1>9 DEF Issued, IssuedScopes
<1> QED
  BY <1>6, <1>7, <1>8, <1>9

-----------------------------------------------------------------------------
(* The shapes of a step, as far as the tables are concerned                *)

\* No row is added, and all that changes are bindings, revocations and requests
\* that go away.
Quiet ==
  /\ UNCHANGED <<clients, creds>>
  /\ grants' = grants \/ \E G : grants' = Revoked(G)
  /\ \A r \in Request : Row(requests'[r]) =>
       /\ Row(requests[r])
       /\ requests'[r].client = requests[r].client
       /\ \/ requests'[r].player = requests[r].player
          \/ requests'[r].player \in Player /\ Active(requests'[r].player)
  /\ \A p \in Player :
       \/ players'[p] = players[p]
       \/ players[p] = "unknown" /\ players'[p] = "active"
       \/ players'[p] = "inactive"
  /\ now' \in Nat /\ now <= now'

\* An unspent code or refresh token k is traded for tokens of scopes S.
Trades(k, S) ==
  /\ Valid(k) /\ creds[k].kind # "access" /\ ~creds[k].used
  /\ S \in Granted
  /\ S \subseteq creds[k].scopes \/ S = grants[creds[k].grant].scopes
  /\ CanIssue(S)
  /\ creds' = Issued(k, S)
  /\ UNCHANGED <<now, players, clients, requests, grants>>

LEMMA ExchangeTrades ==
  ASSUME TypeOK, NEW h \in Handler, ExchangeCode(h) \/ ExchangeRefresh(h)
  PROVE  \E k \in Cred, S \in Granted : Trades(k, S)
<1> DEFINE k == job[h].cred
<1>1. k \in Cred /\ Valid(k) /\ creds[k].kind # "access" /\ ~creds[k].used
  BY DEF ExchangeCode, ExchangeRefresh, Doing, StillUnused, StillValid, ValidFor, Job, TypeOK
<1>2. CASE ExchangeCode(h)
  <2>1. grants[creds[k].grant].scopes \in Granted
    BY <1>1, ValidRows DEF GrantRow
  <2> QED
    BY <1>1, <1>2, <2>1 DEF ExchangeCode, Trades
<1>3. CASE ExchangeRefresh(h)
  <2>1. job[h].scopes \in Granted /\ job[h].scopes \subseteq creds[k].scopes
    BY <1>3 DEF ExchangeRefresh, Doing, ScopesAllowed, Granted, Job, TypeOK
  <2> QED
    BY <1>1, <1>3, <2>1 DEF ExchangeRefresh, Trades
<1> QED
  BY <1>2, <1>3

\* What a step does to the tables, and which handler's exchange it is if it is one
LEMMA TableSteps ==
  ASSUME TypeOK, [Next]_vars
  PROVE  \/ Quiet
         \/ \E meta \in Metadata : RegisterClient(meta)
         \/ \E c \in Client, S \in Granted : Authorize(c, S)
         \/ \E p \in Player, r \in Request : Approve(r, p)
         \/ \E h \in Handler : ExchangeCode(h) \/ ExchangeRefresh(h)
<1>0. now \in Nat /\ now <= now /\ now + 1 \in Nat /\ now <= now + 1
  BY DEF TypeOK
<1>1. CASE Tick \/ UNCHANGED vars
  BY <1>0, <1>1 DEF Tick, vars, Quiet
<1>2. ASSUME NEW p \in Player, CreatePlayer(p) \/ DeactivatePlayer(p)
      PROVE  Quiet
  <2>1. \A q \in Player :
          \/ players'[q] = players[q]
          \/ players[q] = "unknown" /\ players'[q] = "active"
          \/ players'[q] = "inactive"
    BY <1>2 DEF CreatePlayer, DeactivatePlayer, TypeOK
  <2> QED
    BY <1>0, <1>2, <2>1 DEF CreatePlayer, DeactivatePlayer, Quiet
<1>3. ASSUME NEW p \in Player, NEW r \in Request, CompleteLogin(r, p)
      PROVE  Quiet
  <2>1. Row(requests[r]) /\ requests[r] \in RequestRow
    BY <1>3 DEF CompleteLogin, MayBind, Pending, Row, TypeOK
  <2> QED
    BY <1>0, <1>3, <2>1 DEF CompleteLogin, MayBind, Quiet, RequestRow, TypeOK
<1>4. ASSUME NEW h \in Handler, LoadStep(h)
      PROVE  Quiet
  BY <1>0, <1>4 DEF LoadStep, LoadCode, LoadRefresh, LoadReplayed, LoadRevoke, Quiet
<1>5. ASSUME NEW h \in Handler, ExchangeReplayed(h) \/ RevokeToken(h) \/ Abandon(h)
      PROVE  Quiet
  BY <1>0, <1>5 DEF ExchangeReplayed, RevokeToken, Abandon, Quiet
<1>6. CASE RevocationStep
  <2>1. \E G : grants' = Revoked(G)
    BY <1>6 DEF RevocationStep, RevokeGrant, RevokePlayer, InvalidateAll
  <2>2. \A r \in Request : requests'[r] \in {requests[r], Gone}
    BY <1>6 DEF RevocationStep, RevokeGrant, RevokePlayer, InvalidateAll, TypeOK
  <2>3. UNCHANGED <<now, players, clients, creds>>
    BY <1>6 DEF RevocationStep, RevokeGrant, RevokePlayer, InvalidateAll
  <2> QED
    BY <1>0, <2>1, <2>2, <2>3, NoRow DEF Quiet
<1> QED
  BY <1>1, <1>2, <1>3, <1>4, <1>5, <1>6
     DEF Next, PlayerStep, ConsentStep, ClientStep, FinishStep

LEMMA StepShapes ==
  ASSUME TypeOK, [Next]_vars
  PROVE  \/ Quiet
         \/ \E meta \in Metadata : RegisterClient(meta)
         \/ \E c \in Client, S \in Granted : Authorize(c, S)
         \/ \E p \in Player, r \in Request : Approve(r, p)
         \/ \E k \in Cred, S \in Granted : Trades(k, S)
  BY TableSteps, ExchangeTrades

-----------------------------------------------------------------------------
(* Referential integrity                                                   *)

LEMMA QuietNoOrphan ==
  ASSUME TypeOK, NoOrphan, Quiet
  PROVE  NoOrphan'
<1>1. ASSUME NEW r \in Request, Row(requests'[r])
      PROVE  /\ Row(clients'[requests'[r].client])
             /\ requests'[r].player # Nobody => players'[requests'[r].player] # "unknown"
  <2>1. Row(requests[r]) /\ requests[r] \in RequestRow
    BY <1>1 DEF Quiet, Row, TypeOK
  <2> QED
    BY <1>1, <2>1 DEF NoOrphan, Quiet, Active, RequestRow
<1>2. ASSUME NEW g \in Grant, Row(grants'[g])
      PROVE  /\ Row(clients'[grants'[g].client])
             /\ players'[grants'[g].player] # "unknown"
  <2>1. /\ Row(grants[g]) /\ grants'[g].client = grants[g].client
        /\ grants'[g].player = grants[g].player
    BY <1>2, RevokedRows DEF Quiet
  <2>2. grants[g] \in GrantRow
    BY <2>1 DEF Row, TypeOK
  <2> QED
    BY <2>1, <2>2 DEF NoOrphan, Quiet, GrantRow
<1>3. \A g \in Grant : Row(grants[g]) => Row(grants'[g])
  BY RevokedRows DEF Quiet
<1>4. \A k \in Cred : Row(creds[k]) => creds[k].grant \in Grant
  BY DEF TypeOK, Row, CredRow
<1> QED
  BY <1>1, <1>2, <1>3, <1>4 DEF NoOrphan, Quiet, Row

LEMMA PurgeNoOrphan ==
  ASSUME TypeOK, NoOrphan,
         grants' = LiveGrants, creds' = LiveCreds, players' = players,
         \A c \in Client : Row(LiveClients[c]) => Row(clients'[c]),
         \A r \in Request : Row(requests'[r]) =>
           \/ requests'[r] = LiveRequests[r]
           \/ /\ requests'[r].client \in Client /\ Row(LiveClients[requests'[r].client])
              /\ requests'[r].player = Nobody
  PROVE  NoOrphan'
<1>1. ASSUME NEW r \in Request, Row(requests'[r])
      PROVE  /\ Row(clients'[requests'[r].client])
             /\ requests'[r].player # Nobody => players'[requests'[r].player] # "unknown"
  <2>1. CASE requests'[r] = LiveRequests[r]
    <3>1. requests'[r] = requests[r] /\ Row(LiveClients[requests[r].client])
      BY <1>1, <2>1, PurgeRows
    <3>2. requests[r].client \in Client
      BY <1>1, <3>1 DEF TypeOK, Row, RequestRow
    <3> QED
      BY <1>1, <3>1, <3>2 DEF NoOrphan
  <2> QED
    BY <1>1, <2>1
<1>2. ASSUME NEW g \in Grant, Row(grants'[g])
      PROVE  /\ Row(clients'[grants'[g].client])
             /\ players'[grants'[g].player] # "unknown"
  <2>1. grants'[g] = grants[g] /\ Row(LiveClients[grants[g].client])
    BY <1>2, PurgeRows
  <2>2. grants[g].client \in Client
    BY <1>2, <2>1 DEF TypeOK, Row, GrantRow
  <2> QED
    BY <1>2, <2>1, <2>2 DEF NoOrphan
<1>3. ASSUME NEW k \in Cred, Row(creds'[k])
      PROVE  Row(grants'[creds'[k].grant])
  BY <1>3, PurgeRows
<1> QED
  BY <1>1, <1>2, <1>3 DEF NoOrphan, Row

LEMMA NextNoOrphan == TypeOK /\ NoOrphan /\ [Next]_vars => NoOrphan'
<1> SUFFICES ASSUME TypeOK, NoOrphan, [Next]_vars
             PROVE  NoOrphan'
  OBVIOUS
<1>1. CASE Quiet
  BY <1>1, QuietNoOrphan
<1>2. ASSUME NEW meta \in Metadata, RegisterClient(meta)
      PROVE  NoOrphan'
  <2> DEFINE row == [scope |-> meta.scope, refresh |-> meta.refresh,
                     expires |-> now + ClientTTL]
  <2>1. Row(row)
    <3>1. row \in ClientRow
      BY MetadataAssumption, TTLAssumption DEF ClientRow, TypeOK
    <3> QED
      BY <3>1, SentinelAssumption DEF Row
  <2> HIDE DEF row
  <2>2. clients' = [LiveClients EXCEPT ![Draw(clients, {})] = row]
    BY <1>2 DEF RegisterClient, row
  <2>3. \A c \in Client : Row(LiveClients[c]) => Row(clients'[c])
    BY <2>1, <2>2, PurgeType
  <2> QED
    BY <1>2, <2>3, PurgeNoOrphan DEF RegisterClient
<1>3. ASSUME NEW c \in Client, NEW S \in Granted, Authorize(c, S)
      PROVE  NoOrphan'
  <2> DEFINE row == [client |-> c, player |-> Nobody, scopes |-> S,
                     expires |-> now + RequestTTL]
  <2>1. row.client = c /\ row.player = Nobody /\ Row(LiveClients[c])
    BY <1>3 DEF Authorize, Known
  <2> HIDE DEF row
  <2>2. requests' = [LiveRequests EXCEPT ![Draw(requests, {})] = row]
    BY <1>3 DEF Authorize, row
  <2>3. \A r \in Request : requests'[r] = LiveRequests[r] \/ requests'[r] = row
    BY <2>2, PurgeType
  <2> QED
    BY <1>3, <2>1, <2>3, PurgeNoOrphan DEF Authorize
<1>4. ASSUME NEW p \in Player, NEW r \in Request, Approve(r, p)
      PROVE  NoOrphan'
  <2> DEFINE g == Draw(grants, {})
             k == Draw(creds, {})
             newGrant == [client |-> requests[r].client, player |-> p,
                          scopes |-> requests[r].scopes,
                          expires |-> now + FamilyTTL, revoked |-> FALSE]
             newCode == [kind |-> "code", grant |-> g, scopes |-> requests[r].scopes,
                         expires |-> now + CodeTTL, used |-> FALSE]
  <2>1. requests[r] \in RequestRow /\ Row(requests[r])
    BY <1>4 DEF Approve, Pending, Row, TypeOK
  <2>2. g \in Grant /\ grants[g] = Unissued /\ k \in Cred
    BY <1>4, DrawFresh DEF Approve, TypeOK
  <2>3. newGrant \in GrantRow
    BY <2>1, TTLAssumption DEF GrantRow, RequestRow, TypeOK
  <2>4. /\ Row(newGrant) /\ newGrant.client = requests[r].client
        /\ newGrant.player = p /\ players[p] = "active"
        /\ newCode.grant = g
    BY <1>4, <2>3, SentinelAssumption DEF Row, Approve, Active
  <2> HIDE DEF g, k, newGrant, newCode
  <2>5. /\ grants' = [grants EXCEPT ![g] = newGrant]
        /\ creds' = [creds EXCEPT ![k] = newCode]
        /\ requests' = [requests EXCEPT ![r] = Gone]
        /\ clients' = clients /\ players' = players
    BY <1>4 DEF Approve, g, k, newGrant, newCode
  <2>6. \A q \in Request : Row(requests'[q]) =>
          /\ Row(clients'[requests'[q].client])
          /\ requests'[q].player # Nobody => players'[requests'[q].player] # "unknown"
    BY <2>5, NoRow DEF NoOrphan, TypeOK
  <2>7. \A q \in Grant : Row(grants'[q]) =>
          /\ Row(clients'[grants'[q].client])
          /\ players'[grants'[q].player] # "unknown"
    BY <2>1, <2>4, <2>5 DEF NoOrphan, TypeOK
  <2>8. \A j \in Cred : Row(creds[j]) => creds[j].grant # g /\ creds[j].grant \in Grant
    BY <2>2, NoRow DEF NoOrphan, TypeOK, Row, CredRow
  <2>9. \A j \in Cred : Row(creds'[j]) => Row(grants'[creds'[j].grant])
    BY <2>2, <2>4, <2>5, <2>8 DEF NoOrphan, TypeOK
  <2> QED
    BY <2>6, <2>7, <2>9 DEF NoOrphan, Row
<1>5. ASSUME NEW k \in Cred, NEW S \in Granted, Trades(k, S)
      PROVE  NoOrphan'
  <2>1. creds[k] \in CredRow /\ Row(grants[creds[k].grant])
    BY <1>5, ValidRows DEF Trades
  <2>2. ASSUME NEW x \in Cred, Row(creds'[x])
        PROVE  Row(grants[creds'[x].grant])
    <3>1. \/ creds'[x] = [creds[k] EXCEPT !.used = TRUE]
          \/ creds'[x].grant = creds[k].grant
          \/ creds'[x] = creds[x]
      BY <1>5, IssuedRows DEF Trades
    <3>2. creds'[x] = [creds[k] EXCEPT !.used = TRUE] => creds'[x].grant = creds[k].grant
      BY <2>1 DEF CredRow
    <3> QED
      BY <2>1, <2>2, <3>1, <3>2 DEF NoOrphan
  <2> QED
    BY <1>5, <2>2 DEF NoOrphan, Row, Trades
<1> QED
  BY <1>1, <1>2, <1>3, <1>4, <1>5, StepShapes

\* No purge, issue or deletion ever leaves a row whose registration or grant is gone.
THEOREM ReferencesHold == Spec => []NoOrphan
<1>1. Init => NoOrphan
  BY DEF Init, NoOrphan, Row
<1> QED
  BY <1>1, TypeCorrect, NextNoOrphan, PTL DEF Spec

-----------------------------------------------------------------------------
(* At most one credential of a family can be traded                        *)

LEMMA NextOneUnspent == TypeOK /\ NoOrphan /\ OneUnspent /\ [Next]_vars => OneUnspent'
<1> SUFFICES ASSUME TypeOK, NoOrphan, OneUnspent, [Next]_vars
             PROVE  OneUnspent'
  OBVIOUS
<1>1. CASE Quiet
  BY <1>1 DEF Quiet, OneUnspent, Unspent, Row
<1>2. CASE creds' = LiveCreds
  <2>1. \A k \in Cred : Row(creds'[k]) => creds'[k] = creds[k]
    BY <1>2, PurgeRows
  <2> QED
    BY <2>1 DEF OneUnspent, Unspent, Row
<1>3. ASSUME NEW p \in Player, NEW r \in Request, Approve(r, p)
      PROVE  OneUnspent'
  <2> DEFINE g == Draw(grants, {})
             k == Draw(creds, {})
             newCode == [kind |-> "code", grant |-> g, scopes |-> requests[r].scopes,
                         expires |-> now + CodeTTL, used |-> FALSE]
  <2>1. g \in Grant /\ grants[g] = Unissued /\ k \in Cred
    BY <1>3, DrawFresh DEF Approve, TypeOK
  <2>2. \A j \in Cred : Row(creds[j]) => creds[j].grant # g
    BY <2>1, NoRow DEF NoOrphan
  <2>3. newCode.grant = g
    OBVIOUS
  <2> HIDE DEF g, k, newCode
  <2>4. creds' = [creds EXCEPT ![k] = newCode]
    BY <1>3 DEF Approve, g, k, newCode
  <2>5. \A j \in Cred : j # k => creds'[j] = creds[j]
    BY <2>4 DEF TypeOK
  <2>6. creds'[k].grant = g
    BY <2>1, <2>3, <2>4 DEF TypeOK
  <2> QED
    BY <2>2, <2>5, <2>6 DEF OneUnspent, Unspent, Row
<1>4. ASSUME NEW k \in Cred, NEW S \in Granted, Trades(k, S)
      PROVE  OneUnspent'
  <2> DEFINE g == creds[k].grant
  <2>1. creds[k] \in CredRow /\ Unspent(k)
    BY <1>4, ValidRows DEF Trades, Unspent
  <2>2. [creds[k] EXCEPT !.used = TRUE].used
    BY <2>1 DEF CredRow
  <2>3. ASSUME NEW x \in Cred, Unspent(x)'
        PROVE  \/ x = NewRefresh /\ creds'[x].grant = g
               \/ x # k /\ creds'[x] = creds[x] /\ Unspent(x)
    <3>1. \/ x = k /\ creds'[x] = [creds[k] EXCEPT !.used = TRUE]
          \/ creds'[x].kind = "access"
          \/ x = NewRefresh /\ creds'[x].grant = g
          \/ x # k /\ creds'[x] = creds[x]
      BY <1>4, IssuedRows DEF Trades
    <3> QED
      BY <2>2, <2>3, <3>1 DEF Unspent, Row
  <2>4. \A x \in Cred : x # k /\ Unspent(x) => creds[x].grant # g
    BY <2>1 DEF OneUnspent
  <2> QED
    BY <2>3, <2>4 DEF OneUnspent
<1> QED
  BY <1>1, <1>2, <1>3, <1>4, StepShapes DEF RegisterClient, Authorize

\* However loads and exchanges interleave, a refresh family never holds two
\* credentials that could still be traded for tokens.
THEOREM SingleUse == Spec => []OneUnspent
<1>1. Init => OneUnspent
  BY DEF Init, OneUnspent, Unspent, Row
<1> QED
  BY <1>1, TypeCorrect, ReferencesHold, NextOneUnspent, PTL DEF Spec

-----------------------------------------------------------------------------
(* Tokens stay within the consent                                          *)

LEMMA NextWithinGrant ==
  TypeOK /\ NoOrphan /\ WithinGrant /\ [Next]_vars => WithinGrant'
<1> SUFFICES ASSUME TypeOK, NoOrphan, WithinGrant, [Next]_vars
             PROVE  WithinGrant'
  OBVIOUS
<1> DEFINE Fits(row, g) ==
      /\ row.scopes \subseteq g.scopes
      /\ row.kind = "access" => row.expires <= g.expires
      /\ row.kind = "refresh" => /\ row.expires = g.expires
                                 /\ "offline_access" \in row.scopes
<1>0. \A k \in Cred : Row(creds[k]) =>
        /\ creds[k] \in CredRow /\ creds[k].grant \in Grant
        /\ Row(grants[creds[k].grant])
        /\ Fits(creds[k], grants[creds[k].grant])
  BY DEF WithinGrant, NoOrphan, TypeOK, Row, CredRow
<1> SUFFICES ASSUME NEW x \in Cred, Row(creds'[x])
             PROVE  Fits(creds'[x], grants'[creds'[x].grant])
  BY DEF WithinGrant, Row
<1>1. CASE Quiet
  <2>1. creds'[x] = creds[x] /\ Row(creds[x])
    BY <1>1 DEF Quiet
  <2>2. /\ grants'[creds[x].grant].scopes = grants[creds[x].grant].scopes
        /\ grants'[creds[x].grant].expires = grants[creds[x].grant].expires
    BY <1>0, <1>1, <2>1, RevokedRows DEF Quiet
  <2> QED
    BY <1>0, <2>1, <2>2
<1>2. CASE creds' = LiveCreds /\ grants' = LiveGrants
  <2>1. creds'[x] = creds[x] /\ Row(LiveGrants[creds[x].grant])
    BY <1>2, PurgeRows
  <2>2. creds[x].grant \in Grant /\ Row(creds[x])
    BY <1>0, <2>1
  <2>3. grants'[creds[x].grant] = grants[creds[x].grant]
    BY <1>2, <2>1, <2>2, PurgeRows
  <2> QED
    BY <1>0, <2>1, <2>2, <2>3
<1>3. ASSUME NEW p \in Player, NEW r \in Request, Approve(r, p)
      PROVE  Fits(creds'[x], grants'[creds'[x].grant])
  <2> DEFINE g == Draw(grants, {})
             k == Draw(creds, {})
             newGrant == [client |-> requests[r].client, player |-> p,
                          scopes |-> requests[r].scopes,
                          expires |-> now + FamilyTTL, revoked |-> FALSE]
             newCode == [kind |-> "code", grant |-> g, scopes |-> requests[r].scopes,
                         expires |-> now + CodeTTL, used |-> FALSE]
  <2>1. g \in Grant /\ grants[g] = Unissued /\ k \in Cred
    BY <1>3, DrawFresh DEF Approve, TypeOK
  <2>2. newCode.grant = g /\ Fits(newCode, newGrant)
    OBVIOUS
  <2> HIDE DEF g, k, newCode, newGrant, Fits
  <2>3. creds' = [creds EXCEPT ![k] = newCode] /\ grants' = [grants EXCEPT ![g] = newGrant]
    BY <1>3 DEF Approve, g, k, newCode, newGrant
  <2>4. CASE x = k
    BY <2>1, <2>2, <2>3, <2>4 DEF TypeOK
  <2>5. CASE x # k
    <3>1. creds'[x] = creds[x] /\ creds[x].grant # g
      BY <1>0, <2>1, <2>3, <2>5, NoRow DEF TypeOK
    <3> QED
      BY <1>0, <2>3, <3>1 DEF TypeOK
  <2> QED
    BY <2>4, <2>5
<1>4. ASSUME NEW k \in Cred, NEW S \in Granted, Trades(k, S)
      PROVE  Fits(creds'[x], grants'[creds'[x].grant])
  <2> DEFINE g == creds[k].grant
  <2>1. Row(creds[k])
    BY <1>4, ValidRows DEF Trades
  <2>2. grants' = grants /\ S \subseteq grants[g].scopes
    BY <1>0, <1>4, <2>1 DEF Trades
  <2>3. \/ /\ x = k
           /\ creds'[x] = [creds[k] EXCEPT !.used = TRUE]
        \/ /\ creds'[x].grant = g /\ creds'[x].scopes = S
           /\ \/ creds'[x].kind = "access" /\ creds'[x].expires <= grants[g].expires
              \/ /\ creds'[x].kind = "refresh" /\ creds'[x].expires = grants[g].expires
                 /\ "offline_access" \in S
        \/ creds'[x] = creds[x]
    BY <1>4, IssuedRows DEF Trades
  <2>4. ASSUME creds'[x] = [creds[k] EXCEPT !.used = TRUE]
        PROVE  /\ creds'[x].grant = g /\ creds'[x].scopes = creds[k].scopes
               /\ creds'[x].kind = creds[k].kind /\ creds'[x].expires = creds[k].expires
    BY <1>0, <2>1, <2>4 DEF CredRow
  <2> QED
    BY <1>0, <2>1, <2>2, <2>3, <2>4
<1> QED
  BY <1>1, <1>2, <1>3, <1>4, StepShapes DEF RegisterClient, Authorize

\* No chain of refreshes outlives or outgrows the consent it started from.
THEOREM ConsentBounds == Spec => []WithinGrant
<1>1. Init => WithinGrant
  BY DEF Init, WithinGrant, Row
<1> QED
  BY <1>1, TypeCorrect, ReferencesHold, NextWithinGrant, PTL DEF Spec

-----------------------------------------------------------------------------
(* Consents and tombstones: what a step may never do                       *)

\* The purge and every other step keep a spent refresh token until its family goes.
LEMMA NextTombstones ==
  ASSUME TypeOK, NoOrphan, [Next]_vars,
         NEW k \in Cred, Row(creds[k]), creds[k].kind = "refresh", creds[k].used
  PROVE  \/ creds'[k] = creds[k]
         \/ creds'[k] = Gone /\ grants'[creds[k].grant] = Gone
<1>0. creds[k] \in CredRow /\ creds[k] # Unissued
  BY DEF TypeOK, Row
<1>1. CASE Quiet
  BY <1>1 DEF Quiet
<1>2. CASE creds' = LiveCreds /\ grants' = LiveGrants
  <2>1. creds[k].grant \in Grant /\ Row(grants[creds[k].grant])
    BY <1>0 DEF NoOrphan, CredRow
  <2>2. CASE Row(LiveGrants[creds[k].grant])
    BY <1>2, <2>2 DEF LiveCreds
  <2>3. CASE ~Row(LiveGrants[creds[k].grant])
    BY <1>2, <2>1, <2>3 DEF LiveCreds, LiveGrants
  <2> QED
    BY <2>2, <2>3
<1>3. ASSUME NEW p \in Player, NEW r \in Request, Approve(r, p)
      PROVE  creds'[k] = creds[k]
  BY <1>0, <1>3, DrawFresh DEF Approve, TypeOK
<1>4. ASSUME NEW j \in Cred, NEW S \in Granted, Trades(j, S)
      PROVE  creds'[k] = creds[k]
  BY <1>0, <1>4, IssuedRows DEF Trades
<1> QED
  BY <1>1, <1>2, <1>3, <1>4, StepShapes DEF RegisterClient, Authorize

\* A spent refresh token stays recognizable for the fixed lifetime of its family.
THEOREM TombstonesStay == Spec => TombstonesKept
<1>1. TypeOK /\ NoOrphan /\ [Next]_vars =>
        [\A k \in Cred : Row(creds[k]) /\ creds[k].kind = "refresh" /\ creds[k].used =>
           \/ creds'[k] = creds[k]
           \/ creds'[k] = Gone /\ grants'[creds[k].grant] = Gone]_vars
  BY NextTombstones
<1> QED
  BY <1>1, TypeCorrect, ReferencesHold, PTL DEF Spec, TombstonesKept

-----------------------------------------------------------------------------
(* Every family of the server is a family of CredentialFamily              *)

\* Nothing comes to life when no row is added.
LEMMA QuietLive ==
  ASSUME TypeOK, NoOrphan, Quiet, NEW g \in Grant
  PROVE  /\ grants'[g] = Unissued <=> grants[g] = Unissued
         /\ LiveGrant(g)' => LiveGrant(g)
<1>1. grants'[g] = Unissued <=> grants[g] = Unissued
  BY RevokedRows DEF Quiet
<1>2. ASSUME LiveGrant(g)'
      PROVE  LiveGrant(g)
  <2>1. /\ Row(grants[g]) /\ grants'[g].player = grants[g].player
        /\ grants'[g].expires = grants[g].expires
        /\ grants[g].revoked => grants'[g].revoked
    BY <1>2, RevokedRows DEF Quiet, LiveGrant, Row
  <2>2. grants[g] \in GrantRow /\ players[grants[g].player] # "unknown"
    BY <2>1 DEF NoOrphan, TypeOK, Row
  <2>3. Active(grants[g].player)
    BY <1>2, <2>1, <2>2 DEF Quiet, LiveGrant, Active, GrantRow
  <2>4. grants[g].expires > now
    BY <1>2, <2>1, <2>2 DEF Quiet, LiveGrant, GrantRow, TypeOK
  <2> QED
    BY <1>2, <2>1, <2>3, <2>4 DEF LiveGrant
<1> QED
  BY <1>1, <1>2

LEMMA QuietFades == TypeOK /\ NoOrphan /\ Quiet => Families!Fade
<1> SUFFICES ASSUME TypeOK, NoOrphan, Quiet
             PROVE  Families!Fade
  OBVIOUS
<1>1. \A g \in Grant : \/ FamilyStatus'[g] = FamilyStatus[g]
                       \/ FamilyStatus[g] = "live" /\ FamilyStatus'[g] = "dead"
  BY QuietLive DEF FamilyStatus
<1>2. ASSUME NEW k \in Cred, Redeemable(k)'
      PROVE  Redeemable(k)
  <2>1. creds[k] \in CredRow /\ creds' = creds /\ Row(creds[k])
    BY <1>2 DEF Quiet, Redeemable, Valid, Row, TypeOK
  <2>2. creds[k].grant \in Grant /\ creds[k].expires \in Nat
    BY <2>1 DEF CredRow
  <2>3. LiveGrant(creds[k].grant)
    <3>1. LiveGrant(creds[k].grant)'
      BY <1>2, <2>1 DEF Redeemable, Valid
    <3> QED
      BY <2>1, <2>2, <3>1, QuietLive DEF LiveGrant
  <2>4. creds[k].expires > now
    BY <1>2, <2>1, <2>2 DEF Quiet, Redeemable, Valid, TypeOK
  <2> QED
    BY <1>2, <2>1, <2>3, <2>4 DEF Redeemable, Valid
<1>3. \A g \in Grant : FamilyRedeemable'[g] \subseteq FamilyRedeemable[g]
  BY <1>2 DEF FamilyRedeemable, Quiet
<1>4. UNCHANGED HandedOut
  BY DEF HandedOut, Quiet
<1>5. /\ FamilyStatus' \in [Grant -> {"none", "live", "dead"}]
      /\ FamilyRedeemable' \in [Grant -> SUBSET Cred]
  BY DEF FamilyStatus, FamilyRedeemable
<1> QED
  BY <1>1, <1>3, <1>4, <1>5 DEF Families!Fade

LEMMA PurgeFades ==
  ASSUME TypeOK, NoOrphan, grants' = LiveGrants, creds' = LiveCreds,
         UNCHANGED <<now, players>>
  PROVE  Families!Fade
<1>1. ASSUME NEW g \in Grant
      PROVE  /\ grants'[g] = Unissued <=> grants[g] = Unissued
             /\ LiveGrant(g)' <=> LiveGrant(g)
  <2>1. grants'[g] = grants[g] \/ /\ grants'[g] = Gone /\ Row(grants[g])
                                  /\ grants[g].expires <= now
    BY DEF LiveGrants
  <2>2. Row(grants[g]) => grants[g].expires \in Nat
    BY DEF TypeOK, Row, GrantRow
  <2> QED
    BY <2>1, <2>2, NoRow, SentinelAssumption DEF LiveGrant, Active, Row, TypeOK
<1>2. ASSUME NEW k \in Cred
      PROVE  /\ creds'[k] = Unissued <=> creds[k] = Unissued
             /\ Row(creds'[k]) => creds'[k] = creds[k]
  BY PurgeRows, SentinelAssumption DEF LiveCreds, Row
<1>3. ASSUME NEW k \in Cred, Redeemable(k)'
      PROVE  Redeemable(k) /\ creds'[k] = creds[k]
  <2>1. creds'[k] = creds[k] /\ Row(creds[k])
    BY <1>2, <1>3 DEF Redeemable, Valid
  <2>2. creds[k].grant \in Grant
    BY <2>1 DEF TypeOK, Row, CredRow
  <2>3. LiveGrant(creds[k].grant)'
    BY <1>3, <2>1 DEF Redeemable, Valid
  <2>4. LiveGrant(creds[k].grant)
    BY <1>1, <2>1, <2>2, <2>3 DEF LiveGrant
  <2> QED
    BY <1>3, <2>1, <2>4 DEF Redeemable, Valid
<1>4. /\ \A g \in Grant : FamilyStatus'[g] = FamilyStatus[g]
      /\ \A g \in Grant : FamilyRedeemable'[g] \subseteq FamilyRedeemable[g]
      /\ UNCHANGED HandedOut
  BY <1>1, <1>2, <1>3 DEF FamilyStatus, FamilyRedeemable, HandedOut
<1>5. /\ FamilyStatus' \in [Grant -> {"none", "live", "dead"}]
      /\ FamilyRedeemable' \in [Grant -> SUBSET Cred]
  BY DEF FamilyStatus, FamilyRedeemable
<1> QED
  BY <1>4, <1>5 DEF Families!Fade

LEMMA ApproveOpens ==
  ASSUME TypeOK, NoOrphan, NEW p \in Player, NEW r \in Request, Approve(r, p)
  PROVE  \E g \in Grant, k \in Cred : Families!Open(g, k)
<1>1. PICK g \in Grant, k \in Cred :
        /\ g = Draw(grants, {}) /\ grants[g] = Unissued
        /\ k = Draw(creds, {}) /\ creds[k] = Unissued
  BY DrawFresh DEF Approve, TypeOK
<1> DEFINE newGrant == [client |-> requests[r].client, player |-> p,
                        scopes |-> requests[r].scopes,
                        expires |-> now + FamilyTTL, revoked |-> FALSE]
           newCode == [kind |-> "code", grant |-> g, scopes |-> requests[r].scopes,
                       expires |-> now + CodeTTL, used |-> FALSE]
<1>2. requests[r] \in RequestRow
  BY DEF Approve, Pending, Row, TypeOK
<1>3. newGrant \in GrantRow /\ newCode \in CredRow
  BY <1>1, <1>2, TTLAssumption DEF GrantRow, CredRow, RequestRow, TypeOK
<1>4. /\ Row(newGrant) /\ newGrant.player = p /\ newGrant.expires > now /\ ~newGrant.revoked
      /\ Row(newCode) /\ newCode.grant = g /\ newCode.expires > now
      /\ newCode.kind # "access" /\ ~newCode.used
  <2>1. Row(newGrant) /\ Row(newCode)
    BY <1>3, SentinelAssumption DEF Row
  <2>2. now + FamilyTTL > now /\ now + CodeTTL > now
    BY TTLAssumption DEF TypeOK
  <2> QED
    BY <2>1, <2>2
<1>5. /\ grants' = [grants EXCEPT ![g] = newGrant]
      /\ creds' = [creds EXCEPT ![k] = newCode]
      /\ UNCHANGED <<now, players>> /\ players[p] = "active"
  BY <1>1 DEF Approve, Active
<1> HIDE DEF newGrant, newCode
<1>6. LiveGrant(g)' /\ grants'[g] # Unissued
  <2>1. grants'[g] = newGrant
    BY <1>5 DEF TypeOK
  <2> QED
    BY <1>4, <1>5, <2>1 DEF LiveGrant, Active, Row
<1>7. \A e \in Grant \ {g} : grants'[e] = grants[e] /\ (LiveGrant(e)' <=> LiveGrant(e))
  BY <1>5 DEF LiveGrant, Active, TypeOK
<1>8. \A j \in Cred : Row(creds[j]) => creds[j].grant # g /\ creds[j].grant \in Grant
  BY <1>1, NoRow DEF NoOrphan, TypeOK, Row, CredRow
<1>9. creds'[k] = newCode /\ \A j \in Cred \ {k} : creds'[j] = creds[j]
  BY <1>1, <1>5 DEF TypeOK
<1>10. Redeemable(k)'
  BY <1>4, <1>5, <1>6, <1>9 DEF Redeemable, Valid, Row
<1>11. \A j \in Cred \ {k} : /\ Redeemable(j)' <=> Redeemable(j)
                             /\ Redeemable(j) => creds[j].grant \in Grant \ {g}
  BY <1>5, <1>7, <1>8, <1>9 DEF Redeemable, Valid, Row
<1>12. ~Redeemable(k)
  BY <1>1, NoRow DEF Redeemable, Valid
<1>13. FamilyStatus' = [FamilyStatus EXCEPT ![g] = "live"] /\ FamilyStatus[g] = "none"
  BY <1>1, <1>6, <1>7 DEF FamilyStatus
<1>14. FamilyRedeemable' = [FamilyRedeemable EXCEPT ![g] = {k}]
  <2>1. FamilyRedeemable'[g] = {k}
    BY <1>1, <1>4, <1>9, <1>10, <1>11 DEF FamilyRedeemable
  <2>2. \A e \in Grant \ {g} : FamilyRedeemable'[e] = FamilyRedeemable[e]
    BY <1>4, <1>9, <1>11, <1>12 DEF FamilyRedeemable
  <2> QED
    BY <1>1, <2>1, <2>2 DEF FamilyRedeemable
<1>15. HandedOut' = HandedOut \cup {k} /\ k \notin HandedOut
  BY <1>1, <1>4, <1>9 DEF HandedOut, Row
<1> QED
  BY <1>1, <1>13, <1>14, <1>15 DEF Families!Open

LEMMA TradeRedeems ==
  ASSUME TypeOK, NoOrphan, OneUnspent, OneUnspent',
         NEW k \in Cred, NEW S \in Granted, Trades(k, S)
  PROVE  \E g \in Grant : Families!Redeem(g, k)
<1> DEFINE g == creds[k].grant
<1>1. g \in Grant /\ creds[k] \in CredRow /\ Row(creds[k]) /\ LiveGrant(g)
  BY ValidRows DEF Trades, Valid
<1>2. \A e \in Grant : LiveGrant(e)' <=> LiveGrant(e)
  BY DEF Trades, LiveGrant, Active
<1>3. UNCHANGED FamilyStatus
  BY <1>2 DEF FamilyStatus, Trades
<1>4. FamilyStatus[g] = "live"
  BY <1>1, NoRow DEF FamilyStatus, LiveGrant, Row
<1>5. FamilyRedeemable[g] = {k}
  BY <1>1 DEF FamilyRedeemable, OneUnspent, Redeemable, Unspent, Valid, Trades
<1>6. ASSUME NEW x \in Cred
      PROVE  \/ x = k /\ creds'[x].used /\ creds'[x] # Unissued /\ creds[x] # Unissued
             \/ creds[x] = Unissued /\ creds'[x].grant = g /\ creds'[x] # Unissued
             \/ x # k /\ creds'[x] = creds[x]
  <2>1. [creds[k] EXCEPT !.used = TRUE].used
    BY <1>1 DEF CredRow
  <2> QED
    <3>1. CASE x = k /\ creds'[x] = [creds[k] EXCEPT !.used = TRUE] /\ Row(creds'[x])
      BY <1>1, <2>1, <3>1 DEF Row
    <3>2. CASE creds[x] = Unissued /\ Row(creds'[x]) /\ creds'[x].grant = g
      BY <3>2 DEF Row
    <3>3. CASE x # k /\ creds'[x] = creds[x]
      BY <3>3
    <3> QED
      BY <3>1, <3>2, <3>3, IssuedRows DEF Trades
<1>7. ASSUME NEW x \in Cred, creds'[x] = creds[x]
      PROVE  Redeemable(x)' <=> Redeemable(x)
  <2>1. Row(creds[x]) => creds[x].grant \in Grant
    BY DEF TypeOK, Row, CredRow
  <2>2. UNCHANGED <<now, grants, players>>
    BY DEF Trades
  <2> QED
    BY <1>7, <2>1, <2>2 DEF Redeemable, Valid, LiveGrant, Active
<1>8. \A e \in Grant \ {g} : FamilyRedeemable'[e] = FamilyRedeemable[e]
  <2> SUFFICES ASSUME NEW e \in Grant \ {g}, NEW x \in Cred
               PROVE  Redeemable(x)' /\ creds'[x].grant = e
                        <=> Redeemable(x) /\ creds[x].grant = e
    BY DEF FamilyRedeemable
  <2>1. CASE x = k /\ creds'[x].used
    BY <2>1 DEF Redeemable
  <2>2. CASE creds[x] = Unissued /\ creds'[x].grant = g
    BY <2>2, NoRow DEF Redeemable, Valid
  <2>3. CASE x # k /\ creds'[x] = creds[x]
    BY <1>7, <2>3
  <2> QED
    BY <1>6, <2>1, <2>2, <2>3
<1>9. FamilyRedeemable'[g] \subseteq HandedOut' \ HandedOut
  <2> SUFFICES ASSUME NEW x \in Cred, Redeemable(x)', creds'[x].grant = g
               PROVE  creds[x] = Unissued /\ creds'[x] # Unissued
    BY <1>1 DEF FamilyRedeemable, HandedOut
  <2>1. ~(x = k /\ creds'[x].used)
    BY DEF Redeemable
  <2>2. ~(x # k /\ creds'[x] = creds[x])
    <3> SUFFICES ASSUME x # k, creds'[x] = creds[x]
                 PROVE  FALSE
      OBVIOUS
    <3>1. Redeemable(x) /\ creds[x].grant = g
      BY <1>7
    <3>2. x \in FamilyRedeemable[g]
      BY <1>1, <3>1 DEF FamilyRedeemable
    <3> QED
      BY <1>5, <3>2
  <2> QED
    BY <1>6, <2>1, <2>2
<1>10. \A i, j \in FamilyRedeemable'[g] : i = j
  BY <1>1 DEF FamilyRedeemable, OneUnspent, Redeemable, Unspent, Valid
<1>11. HandedOut \subseteq HandedOut'
  BY <1>6 DEF HandedOut
<1>12. FamilyRedeemable' \in [Grant -> SUBSET Cred]
  BY DEF FamilyRedeemable
<1> QED
  BY <1>1, <1>3, <1>4, <1>5, <1>8, <1>9, <1>10, <1>11, <1>12 DEF Families!Redeem

\* Refinement: the tables, handlers, clock and purge implement CredentialFamily.
THEOREM ImplementsFamilies == Spec => FamilySpec
<1>1. Init => Families!Init
  <2> SUFFICES ASSUME Init
               PROVE  Families!Init
    OBVIOUS
  <2>1. FamilyStatus = [g \in Grant |-> "none"]
    BY DEF Init, FamilyStatus
  <2>2. \A k \in Cred : ~Redeemable(k) /\ creds[k] = Unissued
    BY NoRow DEF Init, Redeemable, Valid
  <2>3. FamilyRedeemable = [g \in Grant |-> {}] /\ HandedOut = {}
    BY <2>2 DEF FamilyRedeemable, HandedOut
  <2> QED
    BY <2>1, <2>3 DEF Families!Init
<1>2. TypeOK /\ NoOrphan /\ OneUnspent /\ OneUnspent' /\ [Next]_vars =>
        [Families!Next]_(Families!fvars)
  <2> SUFFICES ASSUME TypeOK, NoOrphan, OneUnspent, OneUnspent', [Next]_vars
               PROVE  Families!Next
    OBVIOUS
  <2>1. CASE Quiet
    BY <2>1, QuietFades DEF Families!Next
  <2>2. ASSUME NEW meta \in Metadata, RegisterClient(meta)
        PROVE  Families!Next
    BY <2>2, PurgeFades DEF RegisterClient, Families!Next
  <2>3. ASSUME NEW c \in Client, NEW S \in Granted, Authorize(c, S)
        PROVE  Families!Next
    BY <2>3, PurgeFades DEF Authorize, Families!Next
  <2>4. ASSUME NEW p \in Player, NEW r \in Request, Approve(r, p)
        PROVE  Families!Next
    BY <2>4, ApproveOpens DEF Families!Next
  <2>5. ASSUME NEW k \in Cred, NEW S \in Granted, Trades(k, S)
        PROVE  Families!Next
    BY <2>5, TradeRedeems DEF Families!Next
  <2> QED
    BY <2>1, <2>2, <2>3, <2>4, <2>5, StepShapes
<1> QED
  BY <1>1, <1>2, TypeCorrect, ReferencesHold, SingleUse, PTL
     DEF Spec, FamilySpec, Families!Spec

-----------------------------------------------------------------------------
(* The account page, reconnecting, consent and the table of requests       *)

\* A code stands for the whole of its consent.
CodesWhole ==
  \A k \in Cred : Row(creds[k]) /\ creds[k].kind = "code" =>
    creds[k].scopes = grants[creds[k].grant].scopes

LEMMA NextCodesWhole ==
  TypeOK /\ NoOrphan /\ CodesWhole /\ [Next]_vars => CodesWhole'
<1> SUFFICES ASSUME TypeOK, NoOrphan, CodesWhole, [Next]_vars,
                    NEW x \in Cred, Row(creds'[x]), creds'[x].kind = "code"
             PROVE  creds'[x].scopes = grants'[creds'[x].grant].scopes
  BY DEF CodesWhole, Row
<1>0. \A k \in Cred : Row(creds[k]) =>
        /\ creds[k] \in CredRow /\ creds[k].grant \in Grant
        /\ Row(grants[creds[k].grant])
        /\ creds[k].kind = "code" => creds[k].scopes = grants[creds[k].grant].scopes
  BY DEF CodesWhole, NoOrphan, TypeOK, Row, CredRow
<1>1. CASE Quiet
  <2>1. creds'[x] = creds[x] /\ Row(creds[x])
    BY <1>1 DEF Quiet
  <2>2. grants'[creds[x].grant].scopes = grants[creds[x].grant].scopes
    BY <1>0, <1>1, <2>1, RevokedRows DEF Quiet
  <2> QED
    BY <1>0, <2>1, <2>2
<1>2. CASE creds' = LiveCreds /\ grants' = LiveGrants
  <2>1. creds'[x] = creds[x] /\ Row(LiveGrants[creds[x].grant])
    BY <1>2, PurgeRows
  <2>2. creds[x].grant \in Grant /\ Row(creds[x])
    BY <1>0, <2>1
  <2>3. grants'[creds[x].grant] = grants[creds[x].grant]
    BY <1>2, <2>1, <2>2, PurgeRows
  <2> QED
    BY <1>0, <2>1, <2>2, <2>3
<1>3. ASSUME NEW p \in Player, NEW r \in Request, Approve(r, p)
      PROVE  creds'[x].scopes = grants'[creds'[x].grant].scopes
  <2> DEFINE g == Draw(grants, {})
             k == Draw(creds, {})
             newGrant == [client |-> requests[r].client, player |-> p,
                          scopes |-> requests[r].scopes,
                          expires |-> now + FamilyTTL, revoked |-> FALSE]
             newCode == [kind |-> "code", grant |-> g, scopes |-> requests[r].scopes,
                         expires |-> now + CodeTTL, used |-> FALSE]
  <2>1. g \in Grant /\ grants[g] = Unissued /\ k \in Cred
    BY <1>3, DrawFresh DEF Approve, TypeOK
  <2>2. newCode.grant = g /\ newCode.scopes = newGrant.scopes
    OBVIOUS
  <2> HIDE DEF g, k, newCode, newGrant
  <2>3. creds' = [creds EXCEPT ![k] = newCode] /\ grants' = [grants EXCEPT ![g] = newGrant]
    BY <1>3 DEF Approve, g, k, newCode, newGrant
  <2>4. CASE x = k
    BY <2>1, <2>2, <2>3, <2>4 DEF TypeOK
  <2>5. CASE x # k
    <3>1. creds'[x] = creds[x] /\ creds[x].grant # g
      BY <1>0, <2>1, <2>3, <2>5, NoRow DEF TypeOK
    <3> QED
      BY <1>0, <2>3, <3>1 DEF TypeOK
  <2> QED
    BY <2>4, <2>5
<1>4. ASSUME NEW k \in Cred, NEW S \in Granted, Trades(k, S)
      PROVE  creds'[x].scopes = grants'[creds'[x].grant].scopes
  <2>1. Row(creds[k]) /\ creds[k] \in CredRow /\ grants' = grants
    BY <1>0, <1>4, ValidRows DEF Trades
  <2>2. \/ x = k /\ creds'[x] = [creds[k] EXCEPT !.used = TRUE]
        \/ creds'[x].kind \in {"access", "refresh"}
        \/ creds'[x] = creds[x]
    BY <1>4, IssuedRows DEF Trades
  <2>3. ASSUME creds'[x] = [creds[k] EXCEPT !.used = TRUE]
        PROVE  /\ creds'[x].grant = creds[k].grant /\ creds'[x].scopes = creds[k].scopes
               /\ creds'[x].kind = creds[k].kind
    BY <2>1, <2>3 DEF CredRow
  <2> QED
    BY <1>0, <2>1, <2>2, <2>3
<1> QED
  BY <1>1, <1>2, <1>3, <1>4, StepShapes DEF RegisterClient, Authorize

\* A token that appears is the work of one exchange.
LEMMA TokensAreTraded ==
  ASSUME TypeOK, NoOrphan, CodesWhole, [Next]_vars,
         NEW x \in Cred, creds[x] = Unissued, Row(creds'[x]), creds'[x].kind # "code"
  PROVE  \E h \in Handler : LET j == job[h].cred IN
           /\ job[h] # Idle /\ job'[h] = Idle
           /\ Redeemable(j)
           /\ creds'[j] = [creds[j] EXCEPT !.used = TRUE]
           /\ creds'[x].grant = creds[j].grant
           /\ creds'[x].scopes \subseteq creds[j].scopes
           /\ job[h].op = "refresh" => creds'[x].scopes \subseteq job[h].scopes
<1>1. ~Quiet
  BY NoRow DEF Quiet
<1>2. ~(creds' = LiveCreds)
  BY NoRow, PurgeRows
<1>3. ASSUME NEW p \in Player, NEW r \in Request, Approve(r, p) PROVE FALSE
  <2>1. \A k \in Cred : creds'[k] = creds[k] \/ creds'[k].kind = "code"
    BY <1>3 DEF Approve, TypeOK
  <2> QED
    BY <2>1, NoRow
<1>4. PICK h \in Handler : ExchangeCode(h) \/ ExchangeRefresh(h)
  BY <1>1, <1>2, <1>3, TableSteps DEF RegisterClient, Authorize
<1> DEFINE j == job[h].cred
<1>5. /\ job[h] # Idle /\ job'[h] = Idle
      /\ j \in Cred /\ Redeemable(j)
  BY <1>4 DEF ExchangeCode, ExchangeRefresh, Doing, StillUnused, StillValid, ValidFor, Release,
              Job, Redeemable, TypeOK
<1>6. PICK S \in Granted :
        /\ CanIssue(S) /\ creds' = Issued(j, S)
        /\ S \subseteq creds[j].scopes
        /\ job[h].op = "refresh" => S \subseteq job[h].scopes
  <2>1. CASE ExchangeCode(h)
    <3>1. /\ Row(creds[j]) /\ creds[j].kind = "code" /\ job[h].op = "code"
          /\ creds[j].scopes \in Granted
      BY <1>5, <2>1, ValidRows DEF ExchangeCode, StillUnused, StillValid, Doing, Redeemable,
         CredRow
    <3>2. creds[j].scopes = grants[creds[j].grant].scopes
      BY <1>5, <3>1 DEF CodesWhole
    <3> QED
      BY <2>1, <3>1, <3>2 DEF ExchangeCode
  <2>2. CASE ExchangeRefresh(h)
    <3>1. job[h].scopes \in Granted /\ job[h].scopes \subseteq creds[j].scopes
      BY <2>2 DEF ExchangeRefresh, Doing, ScopesAllowed, Granted, Job, TypeOK
    <3> QED
      BY <2>2, <3>1 DEF ExchangeRefresh
  <2> QED
    BY <1>4, <2>1, <2>2
<1>7. Valid(j) /\ creds[j] \in CredRow /\ Row(creds[j])
  BY <1>5, ValidRows DEF Redeemable
<1>8. creds'[j] = [creds[j] EXCEPT !.used = TRUE]
  BY <1>5, <1>6, <1>7, IssuedRows
<1>9. x # j /\ creds'[x].grant = creds[j].grant /\ creds'[x].scopes = S
  <2>1. x # j /\ creds'[x] # creds[x]
    BY <1>7, NoRow
  <2> QED
    BY <1>5, <1>6, <1>7, <2>1, IssuedRows
<1> QED
  BY <1>5, <1>6, <1>8, <1>9

\* However the loads and exchanges of handlers interleave with revocations, expiry, purges and
\* deletions, a token only comes from a credential that is good and spent at that moment, and
\* allows no more than it: access never revives and never widens.  The codes' part needs that
\* a code stands for its whole consent.  (exchange_authorization_code, exchange_refresh_token,
\* hosted_oauth.py:467-478, 514-534)
THEOREM TokensAreInherited == Spec => TokensInherit
<1>1. Init => CodesWhole
  BY NoRow DEF Init, CodesWhole
<1>2. TypeOK /\ NoOrphan /\ CodesWhole /\ [Next]_vars =>
        [\A k \in Cred : creds[k] = Unissued /\ Row(creds'[k]) /\ creds'[k].kind # "code" =>
           \E h \in Handler : LET j == job[h].cred IN
             /\ job[h] # Idle /\ job'[h] = Idle
             /\ Redeemable(j)
             /\ creds'[j] = [creds[j] EXCEPT !.used = TRUE]
             /\ creds'[k].grant = creds[j].grant
             /\ creds'[k].scopes \subseteq creds[j].scopes
             /\ job[h].op = "refresh" => creds'[k].scopes \subseteq job[h].scopes]_vars
  BY TokensAreTraded
<1> QED
  BY <1>1, <1>2, NextCodesWhole, TypeCorrect, ReferencesHold, PTL DEF Spec, TokensInherit

\* A client that was granted anything is known for as long as a family lives, whatever was
\* revoked and purged meanwhile: the purge spares the registration of every grant.
\* (_cleanup and _client, hosted_oauth.py:195-222)
THEOREM ReconnectsHold == Spec => []CanReconnect
<1>1. NoOrphan => CanReconnect
  BY DEF NoOrphan, CanReconnect, Known
<1> QED
  BY <1>1, ReferencesHold, PTL

\* A request that is bound to a player keeps that player, client and scopes until it is gone.
LEMMA BoundStays ==
  ASSUME TypeOK, [Next]_vars,
         NEW r \in Request, Row(requests[r]), requests[r].player \in Player
  PROVE  requests'[r] \in {requests[r], Gone}
<1>0. requests[r] \in RequestRow /\ requests[r] # Unissued
  BY DEF TypeOK, Row
<1>1. CASE requests' = requests
  BY <1>1
<1>2. ASSUME NEW q \in Request, NEW p \in Player, CompleteLogin(q, p)
      PROVE  requests'[r] = requests[r]
  <2>1. CASE q = r
    BY <1>0, <1>2, <2>1, SentinelAssumption DEF CompleteLogin, MayBind, RequestRow, TypeOK
  <2>2. CASE q # r
    BY <1>2, <2>2 DEF CompleteLogin, TypeOK
  <2> QED
    BY <2>1, <2>2
<1>3. ASSUME NEW q \in Request, NEW p \in Player, Approve(q, p)
      PROVE  requests'[r] \in {requests[r], Gone}
  BY <1>3 DEF Approve, TypeOK
<1>4. ASSUME NEW meta \in Metadata, RegisterClient(meta)
      PROVE  requests'[r] \in {requests[r], Gone}
  BY <1>4 DEF RegisterClient, LiveRequests
<1>5. ASSUME NEW c \in Client, NEW S \in Granted, Authorize(c, S)
      PROVE  requests'[r] \in {requests[r], Gone}
  <2>1. PICK q \in Request : /\ requests[q] = Unissued
                             /\ \A x \in Request \ {q} : requests'[x] = LiveRequests[x]
    BY <1>5, DrawFresh DEF Authorize, TypeOK, LiveRequests
  <2> QED
    BY <1>0, <2>1 DEF LiveRequests
<1>6. CASE RevocationStep
  BY <1>6 DEF RevocationStep, RevokeGrant, RevokePlayer, InvalidateAll
<1>7. ASSUME NEW p \in Player, PlayerStep(p)
      PROVE  requests' = requests
  BY <1>7 DEF PlayerStep, CreatePlayer, DeactivatePlayer
<1>8. ASSUME NEW h \in Handler, LoadStep(h) \/ FinishStep(h)
      PROVE  requests' = requests
  BY <1>8 DEF LoadStep, LoadCode, LoadRefresh, LoadReplayed, LoadRevoke, FinishStep,
              ExchangeCode, ExchangeRefresh, ExchangeReplayed, RevokeToken, Abandon
<1>9. CASE Tick \/ UNCHANGED vars
  BY <1>1, <1>9 DEF Tick, vars
<1> QED
  BY <1>1, <1>2, <1>3, <1>4, <1>5, <1>6, <1>7, <1>8, <1>9 DEF Next, ConsentStep, ClientStep

\* A grant comes from an approval only, with the player, client and scopes of its request.
LEMMA GrantsAreApproved ==
  ASSUME TypeOK, [Next]_vars,
         NEW g \in Grant, grants[g] = Unissued, grants'[g] # Unissued
  PROVE  \E r \in Request :
           /\ Row(requests[r]) /\ requests'[r] = Gone
           /\ grants'[g].client = requests[r].client
           /\ grants'[g].player = requests[r].player
           /\ grants'[g].scopes = requests[r].scopes
<1>1. CASE Quiet
  <2>1. \A G : Revoked(G)[g] = grants[g]
    BY NoRow DEF Revoked, Row
  <2> QED
    BY <1>1, <2>1 DEF Quiet
<1>2. CASE grants' = LiveGrants
  BY <1>2, NoRow DEF LiveGrants, Row
<1>3. ASSUME NEW p \in Player, NEW r \in Request, Approve(r, p)
      PROVE  /\ Row(requests[r]) /\ requests'[r] = Gone
             /\ grants'[g].client = requests[r].client
             /\ grants'[g].player = requests[r].player
             /\ grants'[g].scopes = requests[r].scopes
  BY <1>3 DEF Approve, Pending, TypeOK
<1>4. ASSUME NEW k \in Cred, NEW S \in Granted, Trades(k, S)
      PROVE  grants' = grants
  BY <1>4 DEF Trades
<1> QED
  BY <1>1, <1>2, <1>3, <1>4, StepShapes DEF RegisterClient, Authorize

\* However many logins and tabs race for a request, it is bound once and approved once, and
\* the grant is what was asked for.  (complete_login, approve, hosted_oauth.py:329-401)
THEOREM ConsentsSpentOnce == Spec => ConsentSpentOnce
<1>1. TypeOK /\ [Next]_vars =>
        [/\ \A r \in Request : Row(requests[r]) /\ requests[r].player \in Player =>
              requests'[r] \in {requests[r], Gone}
         /\ \A g \in Grant : grants[g] = Unissued /\ grants'[g] # Unissued =>
              \E r \in Request :
                /\ Row(requests[r]) /\ requests'[r] = Gone
                /\ grants'[g].client = requests[r].client
                /\ grants'[g].player = requests[r].player
                /\ grants'[g].scopes = requests[r].scopes]_vars
  BY BoundStays, GrantsAreApproved
<1> QED
  BY <1>1, TypeCorrect, PTL DEF Spec, ConsentSpentOnce

\* The table of requests never holds more than MAX_REQUESTS rows, those included that expired
\* and were not purged yet.  (authorize, hosted_oauth.py:291-294)
THEOREM RequestsBounded ==
  ASSUME IsFiniteSet(Request), MaxRequests \in Nat
  PROVE  Spec => []PendingBounded
<1> DEFINE Rows == {r \in Request : Row(requests[r])}
<1>1. Init => PendingBounded
  <2>1. Init => Rows = {}
    BY DEF Init, Row
  <2> QED
    BY <2>1, FS_EmptySet DEF PendingBounded
<1>2. TypeOK /\ PendingBounded /\ [Next]_vars => PendingBounded'
  <2> SUFFICES ASSUME TypeOK, PendingBounded, [Next]_vars
               PROVE  PendingBounded'
    OBVIOUS
  <2>1. ASSUME NEW S, S \subseteq Rows
        PROVE  Cardinality(S) <= MaxRequests
    <3>1. IsFiniteSet(Rows)
      BY FS_Subset
    <3>2. IsFiniteSet(S) /\ Cardinality(S) <= Cardinality(Rows)
      BY <2>1, <3>1, FS_Subset
    <3> QED
      BY <3>1, <3>2, FS_CardinalityType DEF PendingBounded
  <2>2. ASSUME NEW c \in Client, NEW S \in Granted, Authorize(c, S)
        PROVE  PendingBounded'
    <3> DEFINE Left1 == {r \in Request : Row(LiveRequests[r])}
    <3>1. PICK q \in Request : \A x \in Request \ {q} : requests'[x] = LiveRequests[x]
      BY <2>2, DrawFresh DEF Authorize, TypeOK, LiveRequests
    <3>2. {r \in Request : Row(requests'[r])} \subseteq Left1 \cup {q}
      BY <3>1 DEF LiveRequests
    <3>3. /\ IsFiniteSet(Left1) /\ Cardinality(Left1) \in Nat
          /\ Cardinality(Left1) < MaxRequests
      BY <2>2, FS_Subset, FS_CardinalityType DEF Authorize, RequestsLeft
    <3>4. /\ IsFiniteSet(Left1 \cup {q})
          /\ Cardinality(Left1 \cup {q}) <= Cardinality(Left1) + 1
      <4>1. ASSUME NEW L, IsFiniteSet(L), Cardinality(L) \in Nat
            PROVE  /\ IsFiniteSet(L \cup {q})
                   /\ Cardinality(L \cup {q}) <= Cardinality(L) + 1
        <5>1. /\ IsFiniteSet(L \cup {q})
              /\ \/ Cardinality(L \cup {q}) = Cardinality(L)
                 \/ Cardinality(L \cup {q}) = Cardinality(L) + 1
          BY <4>1, FS_AddElement, Zenon
        <5> QED
          BY <4>1, <5>1
      <4> QED
        BY <3>3, <4>1
    <3>5. Cardinality({r \in Request : Row(requests'[r])}) <= Cardinality(Left1 \cup {q})
      BY <3>2, <3>4, FS_Subset
    <3>6. IsFiniteSet({r \in Request : Row(requests'[r])})
      BY FS_Subset
    <3> QED
      BY <3>3, <3>4, <3>5, <3>6, FS_CardinalityType DEF PendingBounded, Row
  <2>3. CASE \A r \in Request : Row(requests'[r]) => Row(requests[r])
    <3>1. {r \in Request : Row(requests'[r])} \subseteq Rows
      BY <2>3
    <3> QED
      BY <2>1, <3>1 DEF PendingBounded, Row
  <2>4. CASE Quiet
    BY <2>3, <2>4 DEF Quiet
  <2>5. ASSUME NEW meta \in Metadata, RegisterClient(meta)
        PROVE  \A r \in Request : Row(requests'[r]) => Row(requests[r])
    BY <2>5, NoRow DEF RegisterClient, LiveRequests
  <2>6. ASSUME NEW p \in Player, NEW r \in Request, Approve(r, p)
        PROVE  \A q \in Request : Row(requests'[q]) => Row(requests[q])
    BY <2>6, NoRow DEF Approve, TypeOK
  <2>7. ASSUME NEW k \in Cred, NEW S \in Granted, Trades(k, S)
        PROVE  \A r \in Request : Row(requests'[r]) => Row(requests[r])
    BY <2>7 DEF Trades
  <2> QED
    BY <2>2, <2>3, <2>4, <2>5, <2>6, <2>7, StepShapes
<1> QED
  BY <1>1, <1>2, TypeCorrect, PTL DEF Spec
=============================================================================
