---------------------------- MODULE LocalAccount ----------------------------
(***************************************************************************)
(* The sign-in on a player's own machine: the token item in the macOS      *)
(* Keychain, and the operations - login, sync, live query and logout, from *)
(* the command line or from the threads of the MCP server - that read,     *)
(* rotate, write and delete it under the lock file of their checkout.      *)
(* A login also serves a page on a loopback port until a browser brings    *)
(* MSF's answer back or the deadline passes.                               *)
(*                                                                         *)
(* An operation that finds the lock taken is refused at once, which is no  *)
(* step.  MSF rotates refresh tokens: a renewed one dies.  The snapshot    *)
(* file that ends a login or a sync is left out (HostedAccount has it).    *)
(***************************************************************************)
EXTENDS Integers, FiniteSets

CONSTANTS
  Task,        \* concurrent operations
  Checkout,    \* directories with an .env file for the same MSF client
  Attempt,     \* login attempts, by their `state` secret
  Token,       \* MSF refresh tokens, never issued twice
  Timeout,     \* the login window, in ticks
  AccessOnly,  \* a token set without a refresh token
  NoItem,      \* the Keychain holds no item
  Nobody, Idle

ASSUME TimeoutAssumption == Timeout \in Nat

ASSUME SentinelAssumption ==
  /\ AccessOnly \notin Token /\ NoItem \notin Token /\ AccessOnly # NoItem
  /\ Nobody \notin Task /\ Nobody \notin Attempt

VARIABLES
  keychain,   \* the refresh token in the Keychain item
  live,       \* the refresh tokens MSF accepts
  issued,     \* the refresh tokens MSF ever issued
  lock,       \* of each checkout: the holder of work/msf-account.lock
  job,        \* what each task is doing
  tabs,       \* the attempts a browser was sent to MSF for
  jar,        \* the attempt whose msf_login cookie the browser holds
  codes,      \* the attempts MSF has a code for
  signedOut,  \* history: logout has reported success, and nobody signed in since
  lost        \* history: the stored token was rotated away and its successor lost

vars == <<keychain, live, issued, lock, job, tabs, jar, codes, signedOut, lost>>

msf == <<live, issued>>
browser == <<tabs, jar, codes>>
history == <<signedOut, lost>>

Stored == Token \cup {AccessOnly, NoItem}

\*   locked      the operation has begun
\*   serving, exchanging, obtained   a login
\*   loaded, renewed                 a sync or query
\*   unsure      the Keychain raised while a logout deleted the item
\*   saved       the tokens are where they belong; the data is fetched
Job == [op : {"login", "sync", "query", "logout"},
        step : {"locked", "serving", "exchanging", "obtained", "loaded", "renewed",
                "unsure", "saved"},
        checkout : Checkout, attempt : Attempt \cup {Nobody}, left : 0..Timeout,
        token : Stored]

ASSUME JobAssumption == Idle \notin Job

-----------------------------------------------------------------------------
At(t, op, step) == job[t] # Idle /\ job[t].op \in op /\ job[t].step = step

Tried == {job[t].attempt : t \in {u \in Task : job[u] # Idle}} \cup tabs

Init ==
  /\ keychain = NoItem
  /\ live = {}
  /\ issued = {}
  /\ lock = [c \in Checkout |-> Nobody]
  /\ job = [t \in Task |-> Idle]
  /\ tabs = {}
  /\ jar = Nobody
  /\ codes = {}
  /\ signedOut = FALSE
  /\ lost = FALSE

Goto(t, step) == job' = [job EXCEPT ![t] = [@ EXCEPT !.step = step]]
GotoWith(t, step, token) ==
  job' = [job EXCEPT ![t] = [@ EXCEPT !.step = step, !.token = token]]

\* flock(LOCK_EX | LOCK_NB)
MayLock(c) == lock[c] = Nobody

Start(t, op, c) ==
  /\ job[t] = Idle
  /\ MayLock(c)
  /\ lock' = [lock EXCEPT ![c] = t]
  /\ job' = [job EXCEPT ![t] = [op |-> op, step |-> "locked", checkout |-> c,
                                attempt |-> Nobody, left |-> 0, token |-> NoItem]]
  /\ UNCHANGED <<keychain, msf, browser, history>>

\* The operation is over, well or not, and its lock descriptor closed.
Finish(t) ==
  /\ job' = [job EXCEPT ![t] = Idle]
  /\ lock' = [c \in Checkout |-> IF lock[c] = t THEN Nobody ELSE lock[c]]

-----------------------------------------------------------------------------
(* Login                                                                   *)

\* A token set that MSF hands out: with a refresh token it never issued, or without.
Issues(token) ==
  /\ token \in {AccessOnly} \cup (Token \ issued)
  /\ token \in Token => token = CHOOSE k \in Token : k \notin issued
  /\ issued' = issued \cup ({token} \ {AccessOnly})

\* One process can bind the loopback port of the redirect URI.
PortFree == \A u \in Task : ~At(u, {"login"}, "serving") /\ ~At(u, {"login"}, "exchanging")

\* LoginFlow, and its server
Serve(t) ==
  /\ At(t, {"login"}, "locked")
  /\ PortFree
  /\ \E a \in Attempt \ Tried :
       job' = [job EXCEPT ![t] = [@ EXCEPT !.step = "serving", !.attempt = a,
                                           !.left = Timeout]]
  /\ UNCHANGED <<keychain, msf, lock, browser, history>>

\* "Der lokale Login-Port ist nicht verfuegbar.": another login or any other program has it.
PortTaken(t) ==
  /\ At(t, {"login"}, "locked")
  /\ Finish(t)
  /\ UNCHANGED <<keychain, msf, browser, history>>

\* Mutant: the deadline no longer counts once the page was visited.
ExpiredUnvisited(t) == job[t].left = 0 /\ jar # job[t].attempt

Expired(t) == job[t].left = 0

Tick(t) ==
  /\ At(t, {"login"}, "serving")
  /\ job[t].left > 0
  /\ job' = [job EXCEPT ![t].left = @ - 1]
  /\ UNCHANGED <<keychain, msf, lock, browser, history>>

\* GET /login: the browser gets the cookie and goes to MSF.
Visit(t) ==
  /\ At(t, {"login"}, "serving")
  /\ ~Expired(t)
  /\ jar' = job[t].attempt
  /\ tabs' = tabs \cup {job[t].attempt}
  /\ UNCHANGED <<keychain, msf, lock, job, codes, history>>

\* The player allows access at MSF, in whichever tab is still open.
Allow(a) ==
  /\ a \in tabs
  /\ codes' = codes \cup {a}
  /\ UNCHANGED <<keychain, msf, lock, job, tabs, jar, history>>

\* The callback: the answer belongs to this attempt and comes from its browser.  Any
\* other is answered 400 and changes nothing.
Callback(t) ==
  /\ At(t, {"login"}, "serving")
  /\ ~Expired(t)
  /\ job[t].attempt \in tabs
  /\ jar = job[t].attempt
  /\ Goto(t, "exchanging")
  /\ UNCHANGED <<keychain, msf, lock, browser, history>>

\* "Die Freigabe wurde bei MSF abgebrochen oder abgelehnt."
Denied(t) ==
  /\ At(t, {"login"}, "serving")
  /\ ~Expired(t)
  /\ job[t].attempt \in tabs
  /\ jar = job[t].attempt
  /\ Finish(t)
  /\ UNCHANGED <<keychain, msf, browser, history>>

\* "Die Anmeldung ist abgelaufen.", noticed by the loop or by a request
Expire(t) ==
  /\ At(t, {"login"}, "serving")
  /\ Expired(t)
  /\ Finish(t)
  /\ UNCHANGED <<keychain, msf, browser, history>>

\* exchange_code: once answered, the deadline is no longer looked at.
Exchange(t) ==
  /\ At(t, {"login"}, "exchanging")
  /\ job[t].attempt \in codes
  /\ codes' = codes \ {job[t].attempt}
  /\ \E token \in Stored :
       /\ Issues(token)
       /\ live' = live \cup ({token} \ {AccessOnly})
       /\ GotoWith(t, "obtained", token)
  /\ UNCHANGED <<keychain, lock, tabs, jar, history>>

\* "Der Token-Austausch mit MSF ist fehlgeschlagen.", which MSF may see otherwise
ExchangeFails(t) ==
  /\ At(t, {"login"}, "exchanging")
  /\ codes' = codes \ {job[t].attempt}
  /\ \/ UNCHANGED msf
     \/ \E token \in Token : Issues(token) /\ live' = live \cup {token}
  /\ Finish(t)
  /\ UNCHANGED <<keychain, tabs, jar, history>>

\* store.save
SaveLogin(t) ==
  /\ At(t, {"login"}, "obtained")
  /\ keychain' = job[t].token
  /\ signedOut' = FALSE
  /\ lost' = FALSE
  /\ Goto(t, "saved")
  /\ UNCHANGED <<msf, lock, browser>>

\* login --no-save
KeepInMemory(t) ==
  /\ At(t, {"login"}, "obtained")
  /\ Goto(t, "saved")
  /\ UNCHANGED <<keychain, msf, lock, browser, history>>

-----------------------------------------------------------------------------
(* Sync and live query                                                     *)

Load(t) ==
  /\ At(t, {"sync", "query"}, "locked")
  /\ keychain # NoItem
  /\ GotoWith(t, "loaded", keychain)
  /\ UNCHANGED <<keychain, msf, lock, browser, history>>

\* "Keine gespeicherte Anmeldung."
NotSignedIn(t) ==
  /\ At(t, {"sync", "query"}, "locked")
  /\ keychain = NoItem
  /\ Finish(t)
  /\ UNCHANGED <<keychain, msf, browser, history>>

Loaded(t) == At(t, {"sync", "query"}, "loaded") /\ job[t].token \in Token

\* MSF rotates k, or answers without a new refresh token.
Rotates(k, renewed) ==
  \/ /\ renewed = AccessOnly
     /\ UNCHANGED msf
  \/ /\ renewed \in Token
     /\ Issues(renewed)
     /\ live' = (live \ {k}) \cup {renewed}

\* Mutant: the old refresh token wins over the renewed one.
KeepOld(old, renewed) == old

KeepRenewed(old, renewed) == IF renewed = AccessOnly THEN old ELSE renewed

\* A sync renews first; a query does so after a 401.
Renew(t) ==
  /\ Loaded(t)
  /\ job[t].token \in live
  /\ \E renewed \in Token \cup {AccessOnly} :
       /\ Rotates(job[t].token, renewed)
       /\ GotoWith(t, "renewed", KeepRenewed(job[t].token, renewed))
  /\ UNCHANGED <<keychain, lock, browser, history>>

\* MSF rotated the token, and its answer is lost or unusable.
RenewLost(t) ==
  /\ Loaded(t)
  /\ job[t].token \in live
  /\ \E renewed \in Token : Rotates(job[t].token, renewed)
  /\ lost' = TRUE
  /\ Finish(t)
  /\ UNCHANGED <<keychain, browser, signedOut>>

\* "Token-Erneuerung bei MSF fehlgeschlagen.", CredentialsRejected
Rejected(t) ==
  /\ Loaded(t)
  /\ job[t].token \notin live
  /\ Finish(t)
  /\ UNCHANGED <<keychain, msf, browser, history>>

SaveTokens(t) ==
  /\ At(t, {"sync", "query"}, "renewed")
  /\ keychain' = job[t].token
  /\ Goto(t, "saved")
  /\ UNCHANGED <<msf, lock, browser, history>>

\* fetch_snapshot, or the query itself
Fetch(t) ==
  /\ \/ At(t, {"login", "sync", "query"}, "saved")
     \/ At(t, {"query"}, "loaded")
     \/ At(t, {"sync"}, "loaded") /\ job[t].token = AccessOnly
  /\ Finish(t)
  /\ UNCHANGED <<keychain, msf, browser, history>>

-----------------------------------------------------------------------------
(* Logout                                                                  *)

\* "Lokale Tokens entfernt."
ReportSignedOut(t) == signedOut' = TRUE /\ Finish(t)

\* There is nothing to delete, or it is deleted.
Clear(t) ==
  /\ At(t, {"logout"}, "locked")
  /\ keychain' = NoItem
  /\ ReportSignedOut(t)
  /\ UNCHANGED <<msf, browser, lost>>

\* The Keychain raises, and may have deleted the item all the same.
ClearRaises(t) ==
  /\ At(t, {"logout"}, "locked")
  /\ keychain' \in {keychain, NoItem}
  /\ Goto(t, "unsure")
  /\ UNCHANGED <<msf, lock, browser, history>>

\* Mutant: an exception of the Keychain is taken for success.
GoneAnyway == TRUE

Gone == keychain = NoItem

\* A second look decides.
LookAgain(t) ==
  /\ At(t, {"logout"}, "unsure")
  /\ IF Gone THEN ReportSignedOut(t) ELSE Finish(t) /\ UNCHANGED signedOut
  /\ UNCHANGED <<keychain, msf, browser, lost>>

-----------------------------------------------------------------------------
\* Any step may raise, Ctrl-C may end any operation, and so may a browser that drops
\* the connection: handle_error fails the login even after MSF's answer.
Fail(t) ==
  /\ job[t] # Idle
  /\ lost' = \/ lost
             \/ At(t, {"sync", "query"}, "renewed") /\ keychain # job[t].token
  /\ Finish(t)
  /\ UNCHANGED <<keychain, msf, browser, signedOut>>

\* The next thing the code does in an operation.
Proceed(t) ==
  \/ Serve(t)
  \/ PortTaken(t)
  \/ Expire(t)
  \/ Exchange(t)
  \/ ExchangeFails(t)
  \/ SaveLogin(t)
  \/ KeepInMemory(t)
  \/ Load(t)
  \/ NotSignedIn(t)
  \/ Renew(t)
  \/ RenewLost(t)
  \/ Rejected(t)
  \/ SaveTokens(t)
  \/ Fetch(t)
  \/ Clear(t)
  \/ ClearRaises(t)
  \/ LookAgain(t)

\* What browsers and players do.
Browse(t) == Visit(t) \/ Callback(t) \/ Denied(t)

Next ==
  \/ \E t \in Task :
       \/ \E op \in {"login", "sync", "query", "logout"}, c \in Checkout : Start(t, op, c)
       \/ Proceed(t)
       \/ Browse(t)
       \/ Tick(t)
       \/ Fail(t)
  \/ \E a \in Attempt : Allow(a)

Spec == Init /\ [][Next]_vars

\* The process runs and its clock does too: the serving loop wakes four times a second,
\* and a request to MSF is answered or times out.
FairSpec == Spec /\ \A t \in Task : WF_vars(Proceed(t)) /\ WF_vars(Tick(t))

-----------------------------------------------------------------------------
(* Properties                                                              *)

\* A job has the attempt or the tokens that its step works with.
Equipped(j) ==
  /\ j.step = "serving" => j.attempt \in Attempt
  /\ j.step \in {"obtained", "loaded"} => j.token # NoItem
  /\ j.step = "renewed" => j.token \in Token

\* Every variable has its type, and an operation past its first step holds what that
\* step obtained; after a renewal there is a refresh token in it.
TypeOK ==
  /\ keychain \in Stored
  /\ issued \subseteq Token
  /\ live \subseteq issued
  /\ lock \in [Checkout -> Task \cup {Nobody}]
  /\ job \in [Task -> Job \cup {Idle}]
  /\ tabs \subseteq Attempt
  /\ jar \in tabs \cup {Nobody}
  /\ codes \subseteq tabs
  /\ signedOut \in BOOLEAN
  /\ lost \in BOOLEAN
  /\ \A t \in Task : job[t] # Idle => Equipped(job[t])

\* The token that an operation carries from MSF to the Keychain
Successor(k) == \E t \in Task : At(t, {"sync", "query"}, "renewed") /\ job[t].token = k

\* A sign-in outlives every refresh of it.  Unless MSF's answer or its save failed, the
\* refresh token in the Keychain is one MSF accepts, or an operation on its way to save
\* holds the successor; and no operation presents one that MSF already rotated away.
\* (_refresh, cli.py:114-127; run_query's save_tokens; "refresh tokens are single-use",
\* cli.py:251.)
SignInUsable ==
  ~lost =>
    /\ keychain \in Token => keychain \in live \/ \E k \in live : Successor(k)
    /\ \A t \in Task : Loaded(t) => job[t].token \in live

\* Once logout has said that the tokens are removed, no operation that was already under
\* way brings them back: the Keychain stays empty until somebody signs in.
\* ("must not be ... resurrected concurrently", cli.py:252)
LogoutHolds == signedOut => keychain = NoItem

\* A login never waits for a browser forever: it saves its tokens or ends without them,
\* whatever the browser and MSF do, and its lock and port are free again.
LoginEnds == \A t \in Task : At(t, {"login"}, "serving") ~> job[t] = Idle
=============================================================================
