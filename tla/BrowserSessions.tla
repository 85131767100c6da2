-------------------------- MODULE BrowserSessions --------------------------
(***************************************************************************)
(* The browser side of the hosted service: cookies, login states and the   *)
(* handlers of /login, /oauth/callback, /consent and /account.             *)
(*                                                                         *)
(* Every handler is a task with one transaction per step; other requests,  *)
(* of the same browser and of others, come between them.  A cookie is read *)
(* when a request arrives and set when its response does.  Pages stay open *)
(* in tabs and may be posted late, twice and with another cookie; a        *)
(* callback address may be opened late, twice and in another browser.      *)
(*                                                                         *)
(* A form's CSRF value is drawn with its session, so that it stands for    *)
(* it.  Rows and states that expire are found expired at any time, without *)
(* a clock.  Grants are HostedOAuth's; tokens, files and the locks of a    *)
(* deletion are HostedAccount's.                                           *)
(***************************************************************************)
EXTENDS FiniteSets, Naturals

CONSTANTS
  Browser, Task,
  Session,      \* cookies; bound of the model
  State,        \* login states; bound of the model
  Request,      \* ids of authorization requests, all of them pending at first
  Asked,        \* browsers and what /login is opened with there: a request, or None
  Identity,     \* what MSF knows a player by
  Player,       \* accounts; bound of the model
  MaxTabs,      \* the forms that a browser may have open: bound of the model
  MaxSessions,  \* MAX_SESSIONS
  None, Unissued, Gone, Idle

VARIABLES
  jar,        \* the cookie of each browser
  pages,      \* the forms open in tabs
  sessions,   \* browser_sessions
  identity,   \* the identity of each account that was ever made
  deleted,    \* accounts that are not active any more
  requests,   \* oauth_requests: the player bound to each
  job,        \* what each handler holds between its steps
  begun,      \* history: the browser and the request each login state was issued for
  signins,    \* history: the sessions that callbacks made
  acts        \* history: what was done for a posted page

vars == <<jar, pages, sessions, identity, deleted, requests, job,
          begun, signins, acts>>

Row == [player : Player \cup {None}, request : Request \cup {None},
        state : State \cup {None}]

Page == [kind : {"login", "account", "consent"}, browser : Browser, session : Session,
         player : Player \cup {None}, request : Request \cup {None}]

Callback == [state : State, identity : Identity]

Job == [at : {"create", "begin", "consume", "exchange", "bind", "signin", "recheck",
              "approve", "revoke", "delete", "forget", "reply"},
        browser : Browser,
        cookie : Session \cup {None},      \* of the request
        page : Page \cup {None},           \* that was posted
        callback : Callback \cup {None},   \* that was opened
        player : Player \cup {None},
        request : Request \cup {None},
        new : Session \cup {None}]         \* the cookie of the response

ASSUME SentinelAssumption ==
  /\ None \notin Session \cup State \cup Request \cup Identity \cup Player
  /\ None \notin Page \cup Callback \cup [browser : Browser, request : Request \cup {None}]
  /\ Unissued # Gone /\ Unissued \notin Row /\ Gone \notin Row
  /\ Idle \notin Job
  /\ Gone \notin Player \cup {None}

ASSUME AskedAssumption == Asked \subseteq Browser \X (Request \cup {None})

Init ==
  /\ jar = [b \in Browser |-> None]
  /\ pages = {}
  /\ sessions = [s \in Session |-> Unissued]
  /\ identity = [p \in Player |-> None]
  /\ deleted = {}
  /\ requests = [r \in Request |-> None]
  /\ job = [t \in Task |-> Idle]
  /\ begun = [x \in State |-> None]
  /\ signins = {}
  /\ acts = {}

-----------------------------------------------------------------------------
(* BrowserSessions                                                         *)

Live(s) == s \in Session /\ sessions[s] \in Row

Active(p) == p \in Player /\ identity[p] # None /\ p \notin deleted

\* read
Readable(s) == Live(s) /\ (sessions[s].player = None \/ Active(sessions[s].player))

\* create
Replace(s, old, p, r) ==
  [x \in Session |->
    CASE x = s -> [player |-> p, request |-> r, state |-> None]
      [] x = old /\ x # s /\ Live(x) -> Gone
      [] OTHER -> sessions[x]]

\* Cookies, states and account ids are random: which of those never issued is next is
\* immaterial.
NextSession == CHOOSE s \in Session : sessions[s] = Unissued
NextState == CHOOSE x \in State : begun[x] = None
NextPlayer == CHOOSE p \in Player : identity[p] = None

Creates(s, old, p, r) ==
  /\ \E x \in Session : sessions[x] = Unissued
  /\ s = NextSession
  /\ Cardinality({x \in Session \ {old} : Live(x)}) < MaxSessions
  /\ sessions' = Replace(s, old, p, r)

\* A row reaches its end, or a state does.
Expire(s) ==
  /\ Live(s)
  /\ sessions' = [sessions EXCEPT ![s] = Gone]
  /\ UNCHANGED <<jar, pages, identity, deleted, requests, job, begun, signins, acts>>

ExpireState(s) ==
  /\ Live(s) /\ sessions[s].state # None
  /\ sessions' = [sessions EXCEPT ![s].state = None]
  /\ UNCHANGED <<jar, pages, identity, deleted, requests, job, begun, signins, acts>>

-----------------------------------------------------------------------------
(* Requests that arrive, and how they end                                  *)

Blank(b) ==
  [at |-> "create", browser |-> b, cookie |-> jar[b], page |-> None, callback |-> None,
   player |-> None, request |-> None, new |-> None]

Arrives(t, j) == job[t] = Idle /\ job' = [job EXCEPT ![t] = j]

At(t, step) == job[t] # Idle /\ job[t].at = step

Goes(t, step) == job' = [job EXCEPT ![t].at = step]

Ends(t) == job' = [job EXCEPT ![t] = Idle]

Open(b, kind, s, p, r) ==
  /\ pages' = pages \cup
       {[kind |-> kind, browser |-> b, session |-> s, player |-> p, request |-> r]}
  /\ Cardinality({page \in pages' : page.browser = b}) <= MaxTabs

\* A check that fails, an upstream that does, a capacity that is reached or a connection
\* that is lost: the handler answers 400, or nobody, and undoes none of its steps.
Fail(t) ==
  /\ job[t] # Idle
  /\ Ends(t)
  /\ UNCHANGED <<jar, pages, sessions, identity, deleted, requests, begun, signins, acts>>

\* The response, with its cookie and its form
Reply(t) ==
  /\ At(t, "reply")
  /\ jar' = [jar EXCEPT ![job[t].browser] = job[t].new]
  /\ IF job[t].callback = None /\ job[t].new # None
       THEN Open(job[t].browser, "login", job[t].new, None, job[t].request)
       ELSE UNCHANGED pages
  /\ Ends(t)
  /\ UNCHANGED <<sessions, identity, deleted, requests, begun, signins, acts>>

-----------------------------------------------------------------------------
(* /login                                                                  *)

Login(t, b, r) ==
  /\ <<b, r>> \in Asked
  /\ Arrives(t, [Blank(b) EXCEPT !.request = r])
  /\ UNCHANGED <<jar, pages, sessions, identity, deleted, requests, begun, signins, acts>>

CreateLogin(t) ==
  /\ At(t, "create")
  /\ \E s \in Session :
       /\ Creates(s, job[t].cookie, None, job[t].request)
       /\ job' = [job EXCEPT ![t].at = "reply", ![t].new = s]
  /\ UNCHANGED <<jar, pages, identity, deleted, requests, begun, signins, acts>>

\* Mutant: the CSRF value of a form is not compared.
ReadableOnly(b, page) == Readable(jar[b])

\* post: the cookie of the request reads a session, and the form is of that session.
Posted(b, page) == Readable(jar[b]) /\ page.session = jar[b]

\* The first read of a POST, with what it read
Post(t, page, step) ==
  LET b == page.browser IN
  /\ page \in pages
  /\ Arrives(t, [Blank(b) EXCEPT !.at = step, !.page = page,
                                 !.player = sessions[jar[b]].player,
                                 !.request = sessions[jar[b]].request])
  /\ UNCHANGED <<jar, pages, sessions, identity, deleted, requests, begun, signins, acts>>

PostLogin(t, page) ==
  /\ page.kind = "login"
  /\ Posted(page.browser, page)
  /\ Post(t, page, "begin")

\* dict(payload, state=...), of the payload that the first read found
Written(j, x) == [player |-> j.player, request |-> j.request, state |-> x]

\* Writes what the first read found, with a state of its own; the response is a redirect
\* to MSF.
Begin(t) ==
  /\ At(t, "begin")
  /\ Live(job[t].cookie)
  /\ \E x \in State : begun[x] = None
  /\ begun' = [begun EXCEPT
       ![NextState] = [browser |-> job[t].browser, request |-> job[t].request]]
  /\ sessions' = [sessions EXCEPT ![job[t].cookie] = Written(job[t], NextState)]
  /\ Ends(t)
  /\ UNCHANGED <<jar, pages, identity, deleted, requests, signins, acts>>

-----------------------------------------------------------------------------
(* /oauth/callback                                                         *)

\* A callback address, to which MSF redirects whoever signs in there with a state that was
\* begun: maybe once more with another account.
Return(t, b, c) ==
  /\ begun[c.state] # None
  /\ Arrives(t, [Blank(b) EXCEPT !.at = "consume", !.callback = c])
  /\ UNCHANGED <<jar, pages, sessions, identity, deleted, requests, begun, signins, acts>>

\* Mutant: any state does while one is awaited.
AwaitsAny(s, x) == sessions[s].state # None

\* compare_digest(payload["state"], digest(consume_state))
Awaits(s, x) == sessions[s].state = x

\* Mutant: the state is compared, and left in the row.
CompareOnly(s, x) == sessions

\* payload.pop("state"), in the transaction that compared it
Consumed(s, x) == [sessions EXCEPT ![s].state = None]

Consume(t) ==
  LET s == job[t].cookie IN
  /\ At(t, "consume")
  /\ Readable(s)
  /\ Awaits(s, job[t].callback.state)
  /\ sessions' = Consumed(s, job[t].callback.state)
  /\ job' = [job EXCEPT ![t].at = "exchange", ![t].request = sessions[s].request]
  /\ UNCHANGED <<jar, pages, identity, deleted, requests, begun, signins, acts>>

\* identity.exchange and persist: the active account of the identity, or a new one
Exchange(t) ==
  LET i == job[t].callback.identity IN
  /\ At(t, "exchange")
  /\ \E p \in Player :
       /\ \/ identity[p] = i /\ Active(p)
          \/ /\ ~\E q \in Player : identity[q] = i /\ Active(q)
             /\ identity[p] = None /\ p = NextPlayer
       /\ identity' = [identity EXCEPT ![p] = i]
       /\ job' = [job EXCEPT ![t].player = p,
                             ![t].at = IF job[t].request = None THEN "signin" ELSE "bind"]
  /\ UNCHANGED <<jar, pages, sessions, deleted, requests, begun, signins, acts>>

\* row[2] in (None, player_id)
Unclaimed(r, p) == requests[r] \in {None, p}

\* complete_login
Bind(t) ==
  LET p == job[t].player IN
  /\ At(t, "bind")
  /\ Unclaimed(job[t].request, p) /\ Active(p)
  /\ requests' = [requests EXCEPT ![job[t].request] = p]
  /\ Goes(t, "signin")
  /\ UNCHANGED <<jar, pages, sessions, identity, deleted, begun, signins, acts>>

SignIn(t) ==
  LET j == job[t] IN
  /\ At(t, "signin")
  /\ \E s \in Session :
       /\ Creates(s, j.cookie, j.player, j.request)
       /\ job' = [job EXCEPT ![t].at = "reply", ![t].new = s]
       /\ signins' = signins \cup
            {[session |-> s, browser |-> j.browser, callback |-> j.callback,
              player |-> j.player, request |-> j.request]}
  /\ UNCHANGED <<jar, pages, identity, deleted, requests, begun, acts>>

-----------------------------------------------------------------------------
(* /consent and /account                                                   *)

\* The pages change nothing, and each of their checks can only refuse them: what one read
\* shows is what any shows.
ShowAccount(b) ==
  LET s == jar[b] IN
  /\ Readable(s) /\ sessions[s].player # None
  /\ Open(b, "account", s, sessions[s].player, None)
  /\ UNCHANGED <<jar, sessions, identity, deleted, requests, job, begun, signins, acts>>

\* Mutant: any request of the player may be asked for.
OwnPending(s, r) ==
  Readable(s) /\ sessions[s].player # None /\ requests[r] = sessions[s].player

\* The request of the session, bound to its player
MayConsent(s, r) ==
  /\ Readable(s) /\ sessions[s].player # None
  /\ sessions[s].request = r
  /\ requests[r] = sessions[s].player

ShowConsent(b, r) ==
  LET s == jar[b] IN
  /\ MayConsent(s, r)
  /\ Open(b, "consent", s, sessions[s].player, r)
  /\ UNCHANGED <<jar, sessions, identity, deleted, requests, job, begun, signins, acts>>

\* The session of the cookie and pending_consent come first, the form after them.
PostConsent(t, page) ==
  /\ page.kind = "consent"
  /\ MayConsent(jar[page.browser], page.request)
  /\ Post(t, page, "recheck")

\* post reads the session of the same request again.
Recheck(t) ==
  /\ At(t, "recheck")
  /\ Readable(job[t].cookie) /\ job[t].page.session = job[t].cookie
  /\ Goes(t, "approve")
  /\ UNCHANGED <<jar, pages, sessions, identity, deleted, requests, begun, signins, acts>>

Act(t, kind) ==
  acts' = acts \cup {[kind |-> kind, page |-> job[t].page, player |-> job[t].player]}

\* approve, with the player of the first read
Approve(t) ==
  LET r == job[t].page.request IN
  /\ At(t, "approve")
  /\ requests[r] = job[t].player /\ Active(job[t].player)
  /\ requests' = [requests EXCEPT ![r] = Gone]
  /\ Act(t, "approve")
  /\ Ends(t)
  /\ UNCHANGED <<jar, pages, sessions, identity, deleted, begun, signins>>

PostAccount(t, page, step) ==
  /\ page.kind = "account"
  /\ Posted(page.browser, page)
  /\ step \in {"revoke", "delete"}
  /\ Post(t, page, step)

\* revoke_grant, of a grant of the player
Revoke(t) ==
  /\ At(t, "revoke")
  /\ Act(t, "revoke")
  /\ Ends(t)
  /\ UNCHANGED <<jar, pages, sessions, identity, deleted, requests, begun, signins>>

\* player_dir and deactivate_player, under the player's lock
Delete(t) ==
  /\ At(t, "delete")
  /\ Active(job[t].player)
  /\ deleted' = deleted \cup {job[t].player}
  /\ Act(t, "delete")
  /\ Goes(t, "forget")
  /\ UNCHANGED <<jar, pages, sessions, identity, requests, begun, signins>>

\* revoke_player: the requests bound to the player go; the response drops the cookie.
Forget(t) ==
  /\ At(t, "forget")
  /\ requests' = [r \in Request |-> IF requests[r] = job[t].player THEN Gone ELSE requests[r]]
  /\ Goes(t, "reply")
  /\ UNCHANGED <<jar, pages, sessions, identity, deleted, begun, signins, acts>>

-----------------------------------------------------------------------------
Next ==
  \/ \E s \in Session : Expire(s) \/ ExpireState(s)
  \/ \E b \in Browser : ShowAccount(b) \/ \E r \in Request : ShowConsent(b, r)
  \/ \E t \in Task :
       \/ Fail(t) \/ Reply(t)
       \/ \E b \in Browser : \/ \E r \in Request \cup {None} : Login(t, b, r)
                             \/ \E c \in Callback : Return(t, b, c)
       \/ \E page \in pages : \/ PostLogin(t, page) \/ PostConsent(t, page)
                              \/ PostAccount(t, page, "revoke")
                              \/ PostAccount(t, page, "delete")
       \/ CreateLogin(t) \/ Begin(t)
       \/ Consume(t) \/ Exchange(t) \/ Bind(t) \/ SignIn(t)
       \/ Recheck(t) \/ Approve(t) \/ Revoke(t) \/ Delete(t) \/ Forget(t)

Spec == Init /\ [][Next]_vars

-----------------------------------------------------------------------------
(* Properties                                                              *)

\* Every variable has its type, and a login state is in a row of the request it was issued
\* for.
TypeOK ==
  /\ jar \in [Browser -> Session \cup {None}]
  /\ pages \subseteq Page
  /\ sessions \in [Session -> Row \cup {Unissued, Gone}]
  /\ identity \in [Player -> Identity \cup {None}]
  /\ deleted \subseteq Player
  /\ requests \in [Request -> Player \cup {None, Gone}]
  /\ job \in [Task -> Job \cup {Idle}]
  /\ begun \in [State -> [browser : Browser, request : Request \cup {None}] \cup {None}]
  /\ signins \subseteq [session : Session, browser : Browser, callback : Callback,
                        player : Player, request : Request \cup {None}]
  /\ acts \subseteq [kind : {"approve", "revoke", "delete"}, page : Page, player : Player]
  /\ \A s \in Session : Live(s) /\ sessions[s].state # None =>
       /\ begun[sessions[s].state] # None
       /\ begun[sessions[s].state].request = sessions[s].request

\* A login state makes one session, however often its address is opened and whatever a
\* second form wrote meanwhile.  (BrowserSessions.read with consume_state and begin,
\* hosted_web.py:132-171; tests/test_hosted_web.py:58)
SpentOnce == \A i, j \in signins : i.callback.state = j.callback.state => i = j

\* A callback only signs in the browser that began it, for the request it began it with,
\* as the identity that MSF answered.  (callback, hosted_web.py:276-299)
SignInGenuine ==
  \A i \in signins :
    /\ begun[i.callback.state] = [browser |-> i.browser, request |-> i.request]
    /\ identity[i.player] = i.callback.identity

\* A page only acts on what it shows: the account and the request on it, though the
\* browser signed in as somebody else since.  (post and the handlers after it,
\* hosted_web.py:199-220, 301-312, 365-387)
AsShown == \A a \in acts : a.player = a.page.player

\* A connection is only approved in a browser that signed in for it.  (consent,
\* hosted_web.py:301-312)
ApprovedBySignIn ==
  \A a \in acts : a.kind = "approve" =>
    \E i \in signins : /\ i.browser = a.page.browser /\ i.player = a.player
                       /\ i.request = a.page.request

\* A request that two logins race for stays with the player who came first.
\* (complete_login, hosted_oauth.py:330-337)
OwnerFixed ==
  [][\A r \in Request : requests[r] \in Player => requests'[r] \in {requests[r], Gone}]_vars
=============================================================================
