----------------------- MODULE BrowserSessionsProofs -----------------------
(***************************************************************************)
(* What BrowserSessions promises, for any number of browsers, requests at  *)
(* a time, sessions, login states, accounts and authorization requests.    *)
(*                                                                         *)
(* The argument: a session row keeps its player and its request for as     *)
(* long as it lasts, and its cookie never leaves the browser that was the  *)
(* first to get it.  So what a page, a job or a login state was made from  *)
(* is still what it says when it is used.                                  *)
(***************************************************************************)
EXTENDS BrowserSessions, TLAPS

Types ==
  /\ jar \in [Browser -> Session \cup {None}]
  /\ pages \subseteq Page
  /\ sessions \in [Session -> Row \cup {Unissued, Gone}]
  /\ identity \in [Player -> Identity \cup {None}]
  /\ deleted \subseteq Player
  /\ requests \in [Request -> Player \cup {None, Gone}]
  /\ job \in [Task -> Job \cup {Idle}]
  /\ begun \in [State -> [browser : Browser, request : Request \cup {None}] \cup {None}]
  /\ signins \subseteq [session : Session, browser : Browser, callback : Callback,
                        player : Player, request : Request \cup {None}]
  /\ acts \subseteq [kind : {"approve", "revoke", "delete"}, page : Page, player : Player]

\* A cookie that was handed out once
Issued(s) == sessions[s] # Unissued

\* b has the cookie of s, has sent it, or is about to get it.
Holds(b, s) ==
  \/ jar[b] = s
  \/ \E t \in Task : /\ job[t] # Idle /\ job[t].browser = b
                     /\ job[t].cookie = s \/ job[t].new = s

\* The steps of a job after the first read of a POST, and after its state was spent
Posting == {"begin", "recheck", "approve", "revoke", "delete"}
Returning == {"exchange", "bind", "signin"}

\* Nothing that was handed out is handed out again, and what a row is for stays.
RowsStay ==
  \A s \in Session : Issued(s) =>
    /\ Issued(s)'
    /\ Live(s)' => /\ Live(s)
                   /\ sessions'[s].player = sessions[s].player
                   /\ sessions'[s].request = sessions[s].request

\* What happened stays on record.
RecordsStay ==
  /\ pages \subseteq pages' /\ signins \subseteq signins'
  /\ \A x \in State : begun[x] # None => begun'[x] = begun[x]
  /\ \A p \in Player : identity[p] # None => identity'[p] = identity[p]

\* What a job holds is what it was made from.
JobTrue(t) ==
  job[t] # Idle =>
    /\ job[t].at \in Posting =>
         /\ job[t].page \in pages /\ job[t].page.browser = job[t].browser
         /\ job[t].cookie \in Session /\ Issued(job[t].cookie)
         /\ Live(job[t].cookie) => /\ sessions[job[t].cookie].player = job[t].player
                                   /\ sessions[job[t].cookie].request = job[t].request
    /\ job[t].at \in {"revoke", "delete", "approve"} => job[t].player = job[t].page.player
    /\ job[t].at \in {"recheck", "approve"} => job[t].page.kind = "consent"
    /\ job[t].at \in {"revoke", "delete", "approve", "forget"} => job[t].player \in Player
    /\ job[t].at \in Returning \cup {"consume"} => job[t].callback \in Callback
    /\ job[t].at \in Returning =>
         begun[job[t].callback.state] = [browser |-> job[t].browser, request |-> job[t].request]
    /\ job[t].at \in {"bind", "signin"} =>
         /\ job[t].player \in Player
         /\ identity[job[t].player] = job[t].callback.identity

JobsTrue == \A t \in Task : JobTrue(t)

LEMMA RecordsStep == ASSUME Types, [Next]_vars PROVE RecordsStay
<1> USE SentinelAssumption DEF Types, RecordsStay
<1>1. ASSUME NEW t \in Task, Begin(t) PROVE RecordsStay
  BY <1>1 DEF Begin, NextState
<1>2. ASSUME NEW t \in Task, Exchange(t) PROVE RecordsStay
  BY <1>2 DEF Exchange, Active, Callback, Job, At
<1> QED
  BY <1>1, <1>2 DEF Next, vars, Expire, ExpireState, ShowAccount, ShowConsent, Open, Fail, Reply,
     Login, Return, PostLogin, PostConsent, PostAccount, Post, CreateLogin, Consume, Bind,
     SignIn, Recheck, Approve, Revoke, Delete, Forget
LEMMA CreatesStay == ASSUME Types, NEW s \in Session, NEW old, NEW p, NEW r,
                            Creates(s, old, p, r)
                     PROVE  RowsStay /\ ~Issued(s)
<1>1. sessions[s] = Unissued
  BY DEF Creates, NextSession
<1> QED
  BY <1>1, SentinelAssumption DEF Types, RowsStay, Creates, Replace, Issued, Live

LEMMA RowsStep == ASSUME Types, JobsTrue, [Next]_vars PROVE RowsStay
<1> USE SentinelAssumption DEF Types, RowsStay, Issued, Live
<1>1. ASSUME NEW s \in Session, Expire(s) \/ ExpireState(s) PROVE RowsStay
  BY <1>1 DEF Expire, ExpireState, Row
<1>2. ASSUME NEW t \in Task, CreateLogin(t) PROVE RowsStay
  BY <1>2, CreatesStay DEF CreateLogin
<1>3. ASSUME NEW t \in Task, Begin(t) PROVE RowsStay
  <2>1. /\ job[t] \in Job /\ job[t].cookie \in Session /\ Issued(job[t].cookie)
        /\ Live(job[t].cookie)
        /\ sessions[job[t].cookie].player = job[t].player
        /\ sessions[job[t].cookie].request = job[t].request
    <3>1. job[t] \in Job /\ job[t].at = "begin"
      BY <1>3 DEF Begin, At
    <3> QED
      BY <1>3, <3>1 DEF Begin, JobsTrue, JobTrue, Posting
  <2>2. NextState \in State
    BY <1>3 DEF Begin, NextState
  <2>3. Written(job[t], NextState) \in Row
    BY <2>1, <2>2 DEF Written, Row, Job
  <2>4. sessions' = [sessions EXCEPT ![job[t].cookie] = Written(job[t], NextState)]
    BY <1>3 DEF Begin
  <2>5. Written(job[t], NextState).player = job[t].player
        /\ Written(job[t], NextState).request = job[t].request
    BY DEF Written
  <2> QED
    BY <2>1, <2>3, <2>4, <2>5
<1>4. ASSUME NEW t \in Task, Consume(t) PROVE RowsStay
  BY <1>4 DEF Consume, Consumed, Readable, Row
<1>5. ASSUME NEW t \in Task, SignIn(t) PROVE RowsStay
  BY <1>5, CreatesStay DEF SignIn
<1>6. ASSUME sessions' = sessions PROVE RowsStay
  BY <1>6
<1> HIDE DEF Types, RowsStay, Issued, Live
<1> QED
  BY <1>1, <1>2, <1>3, <1>4, <1>5, <1>6
  DEF Next, vars, ShowAccount, ShowConsent, Fail, Reply, Login, Return, PostLogin,
      PostConsent, PostAccount, Post, Exchange, Bind, Recheck, Approve, Revoke, Delete, Forget

\* Pages show what their session is for.
PagesTrue ==
  \A page \in pages :
    /\ Issued(page.session)
    /\ page.kind # "login" /\ Live(page.session) =>
         sessions[page.session].player = page.player
    /\ page.kind # "login" => page.player \in Player
    /\ page.kind = "consent" =>
         /\ page.request \in Request
         /\ \E i \in signins : /\ i.browser = page.browser /\ i.player = page.player
                               /\ i.request = page.request

\* A cookie was handed out, and to one browser only.
CookiesTrue ==
  /\ \A b \in Browser, s \in Session : Holds(b, s) => Issued(s)
  /\ \A a, b \in Browser, s \in Session : Holds(a, s) /\ Holds(b, s) => a = b

\* What awaits a state is the session and the browser it was issued for, and who is signed
\* in did so in the browser of the cookie.
RowTrue(s) ==
  Live(s) =>
    /\ sessions[s].state # None =>
         /\ begun[sessions[s].state] # None
         /\ begun[sessions[s].state].request = sessions[s].request
         /\ \A b \in Browser : Holds(b, s) => b = begun[sessions[s].state].browser
    /\ sessions[s].player # None =>
         \E i \in signins : /\ i.player = sessions[s].player
                            /\ i.request = sessions[s].request
                            /\ \A b \in Browser : Holds(b, s) => b = i.browser

RowsTrue == \A s \in Session : RowTrue(s)

Inv == /\ Types /\ JobsTrue /\ PagesTrue /\ CookiesTrue /\ RowsTrue
       /\ SignInGenuine /\ AsShown /\ ApprovedBySignIn

LEMMA TypesStep == ASSUME Types, JobsTrue, [Next]_vars PROVE Types'
<1> USE SentinelAssumption DEF Types
<1>1. ASSUME NEW t \in Task, CreateLogin(t) \/ SignIn(t) PROVE Types'
  <2>1. job[t] \in Job
    BY <1>1 DEF CreateLogin, SignIn, At
  <2>2. ASSUME NEW p \in Player \cup {None}, NEW r \in Request \cup {None}, NEW s \in Session,
               Creates(s, job[t].cookie, p, r)
        PROVE  sessions' \in [Session -> Row \cup {Unissued, Gone}]
    BY <2>2 DEF Creates, Replace, Row
  <2>3. ASSUME NEW s \in Session
        PROVE  [job[t] EXCEPT !.at = "reply", !.new = s] \in Job
    BY <2>1 DEF Job
  <2>4. CASE CreateLogin(t)
    <3>1. PICK s \in Session :
            /\ Creates(s, job[t].cookie, None, job[t].request)
            /\ job' = [job EXCEPT ![t].at = "reply", ![t].new = s]
      BY <2>4 DEF CreateLogin
    <3>2. job' \in [Task -> Job \cup {Idle}]
      BY <2>3, <3>1
    <3> QED
      BY <2>1, <2>2, <2>4, <3>1, <3>2 DEF CreateLogin, Job
  <2>5. CASE SignIn(t)
    <3>1. PICK s \in Session :
            /\ Creates(s, job[t].cookie, job[t].player, job[t].request)
            /\ job' = [job EXCEPT ![t].at = "reply", ![t].new = s]
            /\ signins' = signins \cup
                 {[session |-> s, browser |-> job[t].browser, callback |-> job[t].callback,
                   player |-> job[t].player, request |-> job[t].request]}
      BY <2>5 DEF SignIn
    <3>2. job' \in [Task -> Job \cup {Idle}]
      BY <2>3, <3>1
    <3>3. /\ job[t].callback \in Callback /\ job[t].player \in Player
          /\ job[t].request \in Request \cup {None} /\ job[t].browser \in Browser
      BY <2>1, <2>5 DEF SignIn, At, Job, JobsTrue, JobTrue, Returning
    <3> QED
      BY <2>2, <2>5, <3>1, <3>2, <3>3 DEF SignIn
  <2> QED
    BY <1>1, <2>4, <2>5
<1>2. ASSUME NEW t \in Task, Begin(t) PROVE Types'
  <2>1. job[t] \in Job /\ NextState \in State
    BY <1>2 DEF Begin, NextState, At
  <2> QED
    BY <1>2, <2>1 DEF Begin, Written, Row, Job, Ends
<1>3. ASSUME NEW b \in Browser PROVE Blank(b) \in Job
  BY DEF Blank, Job
<1>4. ASSUME NEW t \in Task, NEW page \in pages, NEW step \in Posting, Post(t, page, step),
             Readable(jar[page.browser])
      PROVE  Types'
  <2>1. Blank(page.browser) \in Job /\ page \in Page /\ sessions[jar[page.browser]] \in Row
    BY <1>3, <1>4 DEF Readable, Live, Page
  <2>2. [Blank(page.browser) EXCEPT
           !.at = step, !.page = page, !.player = sessions[jar[page.browser]].player,
           !.request = sessions[jar[page.browser]].request] \in Job
    BY <2>1 DEF Job, Row, Posting
  <2> QED
    BY <1>4, <2>2 DEF Post, Arrives
<1>5. ASSUME NEW b \in Browser, ShowAccount(b) \/ \E r \in Request : ShowConsent(b, r)
      PROVE  Types'
  <2>1. jar[b] \in Session /\ sessions[jar[b]] \in Row
    BY <1>5 DEF ShowAccount, ShowConsent, MayConsent, Readable, Live
  <2>2. pages' \subseteq Page
    <3>1. CASE ShowAccount(b)
      BY <2>1, <3>1 DEF ShowAccount, Open, Page, Row
    <3>2. ASSUME NEW r \in Request, ShowConsent(b, r) PROVE pages' \subseteq Page
      BY <2>1, <3>2 DEF ShowConsent, Open, Page, Row
    <3> QED
      BY <1>5, <3>1, <3>2
  <2> QED
    BY <1>5, <2>2 DEF ShowAccount, ShowConsent
<1>6. ASSUME NEW t \in Task, Consume(t) PROVE Types'
  <2>1. job[t] \in Job /\ job[t].cookie \in Session /\ sessions[job[t].cookie] \in Row
    BY <1>6 DEF Consume, Readable, Live, At
  <2>2. [sessions[job[t].cookie] EXCEPT !.state = None] \in Row
    BY <2>1 DEF Row
  <2>3. [job[t] EXCEPT !.at = "exchange", !.request = sessions[job[t].cookie].request] \in Job
    BY <2>1 DEF Row, Job
  <2> QED
    BY <1>6, <2>1, <2>2, <2>3 DEF Consume, Consumed
<1>7. ASSUME NEW t \in Task, Exchange(t) \/ Bind(t) PROVE Types'
  <2>1. /\ job[t] \in Job /\ job[t].callback \in Callback
        /\ Bind(t) => job[t].player \in Player
    <3>1. job[t] \in Job /\ job[t].at \in Returning /\ (Bind(t) => job[t].at = "bind")
      BY <1>7 DEF Exchange, Bind, At, Returning
    <3> QED
      BY <3>1 DEF JobsTrue, JobTrue
  <2>2. ASSUME NEW step \in {"bind", "signin"}, NEW p \in Player
        PROVE  /\ [job[t] EXCEPT !.player = p, !.at = step] \in Job
               /\ [job[t] EXCEPT !.at = step] \in Job
    BY <2>1 DEF Job
  <2>3. CASE Exchange(t)
    <3>1. PICK p \in Player :
            /\ identity' = [identity EXCEPT ![p] = job[t].callback.identity]
            /\ job' = [job EXCEPT ![t].player = p,
                                  ![t].at = IF job[t].request = None THEN "signin" ELSE "bind"]
      BY <2>3 DEF Exchange
    <3>2. job' \in [Task -> Job \cup {Idle}]
      BY <2>2, <3>1
    <3> QED
      BY <2>1, <2>3, <3>1, <3>2 DEF Exchange, Callback
  <2>4. CASE Bind(t)
    BY <2>1, <2>2, <2>4 DEF Bind, Goes
  <2> QED
    BY <1>7, <2>3, <2>4
<1>8. ASSUME NEW t \in Task, Approve(t) \/ Revoke(t) \/ Delete(t) PROVE Types'
  <2>1. job[t] \in Job /\ job[t].page \in Page /\ job[t].player \in Player
    <3>1. job[t] \in Job /\ job[t].at \in {"approve", "revoke", "delete"}
      BY <1>8 DEF Approve, Revoke, Delete, At
    <3> QED
      BY <3>1 DEF JobsTrue, JobTrue, Posting
  <2>2. [job[t] EXCEPT !.at = "forget"] \in Job
    BY <2>1 DEF Job
  <2>3. job' \in [Task -> Job \cup {Idle}]
    BY <1>8, <2>2 DEF Approve, Revoke, Delete, Ends, Goes
  <2> QED
    BY <1>8, <2>1, <2>3 DEF Approve, Revoke, Delete, Act
<1>9. ASSUME NEW t \in Task, Forget(t) \/ Recheck(t) \/ Fail(t) \/ Reply(t) PROVE Types'
  <2>1. job[t] \in Job
    BY <1>9 DEF Forget, Recheck, Fail, Reply, At
  <2>2. ASSUME NEW step \in {"reply", "approve"} PROVE [job[t] EXCEPT !.at = step] \in Job
    BY <2>1 DEF Job
  <2>3. job' \in [Task -> Job \cup {Idle}]
    BY <1>9, <2>2 DEF Forget, Recheck, Fail, Reply, Goes, Ends
  <2>4. pages' \subseteq Page /\ jar' \in [Browser -> Session \cup {None}]
    BY <1>9, <2>1 DEF Forget, Recheck, Fail, Reply, Open, Page, Job
  <2> QED
    BY <1>9, <2>3, <2>4 DEF Forget, Recheck, Fail, Reply
<1>10. ASSUME NEW t \in Task, NEW b \in Browser,
              (\E r \in Request \cup {None} : Login(t, b, r)) \/ (\E c \in Callback : Return(t, b, c))
       PROVE  Types'
  <2>1. Blank(b) \in Job
    BY <1>3
  <2>2. ASSUME NEW r \in Request \cup {None}, Login(t, b, r) PROVE Types'
    <3>1. [Blank(b) EXCEPT !.request = r] \in Job
      BY <2>1 DEF Job
    <3> QED
      BY <2>2, <3>1 DEF Login, Arrives
  <2>3. ASSUME NEW c \in Callback, Return(t, b, c) PROVE Types'
    <3>1. [Blank(b) EXCEPT !.at = "consume", !.callback = c] \in Job
      BY <2>1 DEF Job
    <3> QED
      BY <2>3, <3>1 DEF Return, Arrives
  <2> QED
    BY <1>10, <2>2, <2>3
<1>11. ASSUME NEW s \in Session, Expire(s) \/ ExpireState(s) PROVE Types'
  BY <1>11 DEF Expire, ExpireState, Live, Row
<1> QED
  BY <1>1, <1>2, <1>4, <1>5, <1>6, <1>7, <1>8, <1>9, <1>10, <1>11
  DEF Next, vars, PostLogin, PostConsent, PostAccount, Posted, MayConsent, Posting

\* The step of t hands out s.
NewSession(t, s) ==
  /\ ~Issued(s) /\ sessions'[s] \in Row
  /\ sessions'[s].state = None /\ sessions'[s].request = job[t].request
  /\ CreateLogin(t) => sessions'[s].player = None
  /\ SignIn(t) => sessions'[s].player = job[t].player
  /\ \A x \in Session : x # s /\ sessions'[x] \in Row => sessions'[x] = sessions[x]
  /\ job[t] \in Job /\ job[t].at \in {"create", "signin"}
  /\ job'[t] \in Job /\ job'[t].at = "reply" /\ job'[t].new = s
  /\ job'[t].browser = job[t].browser /\ job'[t].cookie = job[t].cookie
  /\ \A u \in Task \ {t} : job'[u] = job[u]

LEMMA Fresh ==
  ASSUME Types, JobsTrue, NEW t \in Task, CreateLogin(t) \/ SignIn(t)
  PROVE  \E s \in Session : NewSession(t, s)
<1> USE SentinelAssumption
<1>1. job[t] \in Job /\ job[t].at \in {"create", "signin"}
  BY DEF CreateLogin, SignIn, At, Types
<1>2. PICK s \in Session, p \in Player \cup {None} :
        /\ Creates(s, job[t].cookie, p, job[t].request)
        /\ job' = [job EXCEPT ![t].at = "reply", ![t].new = s]
        /\ CreateLogin(t) => p = None
        /\ SignIn(t) => p = job[t].player
  <2>1. CASE CreateLogin(t)
    BY <1>1, <2>1 DEF CreateLogin, SignIn, At
  <2>2. CASE SignIn(t)
    BY <1>1, <2>2 DEF CreateLogin, SignIn, At, Job
  <2> QED
    BY <2>1, <2>2
<1>3. job'[t] = [job[t] EXCEPT !.at = "reply", !.new = s]
      /\ \A u \in Task \ {t} : job'[u] = job[u]
  BY <1>2 DEF Types
<1>4. /\ job'[t] \in Job /\ job'[t].at = "reply" /\ job'[t].new = s
      /\ job'[t].browser = job[t].browser /\ job'[t].cookie = job[t].cookie
  BY <1>1, <1>3 DEF Job
<1>5. /\ sessions[s] = Unissued
      /\ sessions'[s] = [player |-> p, request |-> job[t].request, state |-> None]
      /\ \A x \in Session : x # s /\ sessions'[x] \in Row => sessions'[x] = sessions[x]
  BY <1>2 DEF Creates, NextSession, Replace
<1>6. sessions'[s] \in Row
  BY <1>1, <1>5 DEF Row, Job
<1>7. /\ ~Issued(s) /\ sessions'[s].state = None
      /\ sessions'[s].request = job[t].request /\ sessions'[s].player = p
  BY <1>5 DEF Issued
<1>8. /\ CreateLogin(t) => sessions'[s].player = None
      /\ SignIn(t) => sessions'[s].player = job[t].player
  BY <1>2, <1>7
<1> QED
  BY <1>1, <1>3, <1>4, <1>5, <1>6, <1>7, <1>8 DEF NewSession

\* A cookie is held by who held it, or it is new.
LEMMA HoldsStep ==
  ASSUME Types, JobsTrue, [Next]_vars, NEW b \in Browser, NEW s \in Session, Holds(b, s)'
  PROVE  \/ Holds(b, s)
         \/ \E t \in Task : /\ CreateLogin(t) \/ SignIn(t)
                           /\ job[t].browser = b /\ job'[t].new = s
<1> USE SentinelAssumption DEF Types, Holds
<1>1. ASSUME NEW t \in Task, Reply(t) PROVE Holds(b, s)
  BY <1>1 DEF Reply, Ends, At
<1>2. ASSUME NEW t \in Task, NEW a \in Browser, NEW j, Arrives(t, j), jar' = jar,
             j.browser = a, j.cookie = jar[a], j.new = None
      PROVE  Holds(b, s)
  BY <1>2 DEF Arrives
<1>3. ASSUME NEW t \in Task, NEW a \in Browser,
             (\E r \in Request \cup {None} : Login(t, a, r)) \/ (\E c \in Callback : Return(t, a, c))
      PROVE  Holds(b, s)
  BY <1>2, <1>3 DEF Login, Return, Blank
<1>4. ASSUME NEW t \in Task, NEW page \in pages, NEW step, Post(t, page, step)
      PROVE  Holds(b, s)
  <2>1. page.browser \in Browser /\ jar' = jar
    BY <1>4 DEF Page, Post
  <2>2. job[t] = Idle /\ job'[t].browser = page.browser /\ job'[t].new = None
        /\ job'[t].cookie = jar[page.browser] /\ \A u \in Task \ {t} : job'[u] = job[u]
    BY <1>4 DEF Post, Arrives, Blank
  <2> QED
    BY <2>1, <2>2
<1>5. ASSUME NEW t \in Task, CreateLogin(t) \/ SignIn(t)
      PROVE  Holds(b, s) \/ (job[t].browser = b /\ job'[t].new = s)
  <2>1. PICK x \in Session : NewSession(t, x)
    BY <1>5, Fresh
  <2>2. jar' = jar
    BY <1>5 DEF CreateLogin, SignIn
  <2> QED
    BY <2>1, <2>2 DEF NewSession
<1>6. ASSUME NEW t \in Task, Begin(t) \/ Approve(t) \/ Revoke(t) \/ Fail(t)
      PROVE  Holds(b, s)
  BY <1>6 DEF Begin, Approve, Revoke, Fail, Ends
<1>7. ASSUME NEW t \in Task, Consume(t) \/ Exchange(t) \/ Bind(t) \/ Recheck(t)
                               \/ Delete(t) \/ Forget(t)
      PROVE  Holds(b, s)
  <2>1. /\ job[t] \in Job /\ jar' = jar
        /\ job'[t].browser = job[t].browser /\ job'[t].cookie = job[t].cookie
        /\ job'[t].new = job[t].new
        /\ \A u \in Task \ {t} : job'[u] = job[u]
    <3>1. job[t] \in Job /\ jar' = jar
      BY <1>7 DEF Consume, Exchange, Bind, Recheck, Delete, Forget, At
    <3>2. CASE Consume(t)
      BY <3>1, <3>2 DEF Consume, Job
    <3>3. CASE Exchange(t)
      BY <3>1, <3>3 DEF Exchange, Job
    <3> QED
      BY <1>7, <3>1, <3>2, <3>3 DEF Bind, Recheck, Delete, Forget, Goes, Job
  <2> QED
    BY <2>1
<1> QED
  BY <1>1, <1>3, <1>4, <1>5, <1>6, <1>7
  DEF Next, vars, Expire, ExpireState, ShowAccount, ShowConsent, PostLogin,
      PostConsent, PostAccount

LEMMA CookiesStep == ASSUME Inv, [Next]_vars PROVE CookiesTrue'
<1> USE DEF Inv
<1>1. RowsStay
  BY RowsStep
<1> DEFINE Turned(u) == /\ job[u] \in Job /\ job[u].at \in {"create", "signin"}
                        /\ job'[u].at = "reply"
                        /\ \A w \in Task \ {u} : job'[w] = job[w]
<1>2. ASSUME NEW t \in Task, CreateLogin(t) \/ SignIn(t) PROVE Turned(t)
  <2>1. PICK s \in Session : NewSession(t, s)
    BY <1>2, Fresh
  <2> QED
    BY <2>1 DEF NewSession
<1>3. ASSUME NEW t \in Task, NEW u \in Task, CreateLogin(t) \/ SignIn(t),
             CreateLogin(u) \/ SignIn(u)
      PROVE  t = u
  BY <1>2, <1>3
<1>4. ASSUME NEW t \in Task, CreateLogin(t) \/ SignIn(t), NEW s \in Session, job'[t].new = s
      PROVE  ~Issued(s) /\ Issued(s)'
  BY <1>4, Fresh, SentinelAssumption DEF NewSession, Issued
<1>5. ASSUME NEW b \in Browser, NEW s \in Session, Holds(b, s)' PROVE Issued(s)'
  BY <1>1, <1>4, <1>5, HoldsStep DEF CookiesTrue, RowsStay
<1>6. ASSUME NEW a \in Browser, NEW b \in Browser, NEW s \in Session,
             Holds(a, s)', Holds(b, s)'
      PROVE  a = b
  BY <1>3, <1>4, <1>6, HoldsStep DEF CookiesTrue
<1> QED
  BY <1>5, <1>6 DEF CookiesTrue

LEMMA PagesStep == ASSUME Inv, [Next]_vars PROVE PagesTrue'
<1> USE SentinelAssumption DEF Inv
<1>1. RowsStay /\ RecordsStay /\ Types'
  BY RowsStep, RecordsStep, TypesStep
<1>2. ASSUME NEW page \in pages, NEW page2, page2 = page
      PROVE  /\ Issued(page.session)'
             /\ page.kind # "login" /\ Live(page.session)' =>
                  sessions'[page.session].player = page.player
             /\ page.kind # "login" => page.player \in Player
             /\ page.kind = "consent" =>
                  /\ page.request \in Request
                  /\ \E i \in signins' : /\ i.browser = page.browser /\ i.player = page.player
                                         /\ i.request = page.request
  BY <1>1, <1>2 DEF PagesTrue, RowsStay, RecordsStay, Types, Page
<1>3. ASSUME NEW t \in Task, Reply(t), NEW page \in pages' \ pages
      PROVE  Issued(page.session)' /\ page.kind = "login"
  <2>1. /\ job[t] \in Job /\ job[t].new \in Session
        /\ page.session = job[t].new /\ page.kind = "login"
    BY <1>3 DEF Reply, At, Open, Types, Job
  <2>2. Issued(job[t].new)
    BY <1>3, <2>1 DEF Reply, At, CookiesTrue, Holds, Types, Job
  <2> QED
    BY <1>1, <2>1, <2>2 DEF RowsStay
<1>4. ASSUME NEW b \in Browser, ShowAccount(b), NEW page \in pages' \ pages
      PROVE  /\ Issued(page.session)' /\ page.kind = "account"
             /\ page.player \in Player
             /\ sessions'[page.session].player = page.player
  BY <1>1, <1>4 DEF ShowAccount, Open, Readable, Live, Active, Issued, Types
<1>5. ASSUME NEW b \in Browser, NEW r \in Request, ShowConsent(b, r), NEW page \in pages' \ pages
      PROVE  /\ Issued(page.session)' /\ page.kind = "consent"
             /\ page.player \in Player
             /\ sessions'[page.session].player = page.player
             /\ page.request \in Request
             /\ \E i \in signins' : /\ i.browser = page.browser /\ i.player = page.player
                                    /\ i.request = page.request
  <2> DEFINE s == jar[b]
  <2>1. /\ Live(s) /\ sessions[s].player \in Player /\ sessions[s].request = r
        /\ sessions' = sessions /\ signins' = signins
    BY <1>5 DEF ShowConsent, MayConsent, Readable, Active
  <2>2. page = [kind |-> "consent", browser |-> b, session |-> s, player |-> sessions[s].player,
                request |-> r]
    BY <1>5 DEF ShowConsent, Open
  <2>3. \E i \in signins : i.browser = b /\ i.player = sessions[s].player /\ i.request = r
    BY <2>1 DEF RowsTrue, RowTrue, Holds, Live
  <2>4. sessions'[page.session] # Unissued
    BY <2>1, <2>2 DEF Live
  <2> QED
    BY <2>1, <2>2, <2>3, <2>4 DEF Issued
<1>6. \A page \in pages' \ pages :
        \/ \E t \in Task : Reply(t)
        \/ \E b \in Browser : ShowAccount(b) \/ \E r \in Request : ShowConsent(b, r)
  BY DEF Next, vars, Expire, ExpireState, Fail, Login, Return, PostLogin,
     PostConsent, PostAccount, Post, CreateLogin, Begin, Consume, Exchange, Bind, SignIn,
     Recheck, Approve, Revoke, Delete, Forget
<1> QED
  BY <1>2, <1>3, <1>4, <1>5, <1>6 DEF PagesTrue

LEMMA RowsTrueStep == ASSUME Inv, [Next]_vars PROVE RowsTrue'
<1> USE SentinelAssumption DEF Inv
<1>1. RowsStay /\ RecordsStay
  BY RowsStep, RecordsStep
<1>2. ASSUME NEW b \in Browser, NEW s \in Session, Holds(b, s)', Issued(s) PROVE Holds(b, s)
  BY <1>2, HoldsStep, Fresh
  DEF CookiesTrue, NewSession
<1>3. ASSUME NEW s \in Session, Live(s), sessions'[s].state \in {sessions[s].state, None}
      PROVE  RowTrue(s)'
  <2>1. ASSUME Live(s)'
        PROVE  /\ RowTrue(s)
               /\ sessions'[s].player = sessions[s].player
               /\ sessions'[s].request = sessions[s].request
               /\ sessions[s].state # None => sessions[s].state \in State
               /\ \A b \in Browser : Holds(b, s)' => Holds(b, s)
    BY <1>1, <1>2, <1>3, <2>1 DEF RowsTrue, RowsStay, Types, Row, Live, Issued
  <2> QED
    BY <1>1, <1>3, <2>1 DEF RowTrue, RecordsStay
<1>4. ASSUME NEW t \in Task, CreateLogin(t) \/ SignIn(t) PROVE RowsTrue'
  <2>1. PICK x \in Session : NewSession(t, x)
    BY <1>4, Fresh
  <2>2. ASSUME NEW s \in Session, s # x PROVE RowTrue(s)'
    BY <1>3, <2>1, <2>2 DEF NewSession, RowTrue, Live
  <2>3. ASSUME NEW b \in Browser, Holds(b, x)' PROVE b = job[t].browser
    <3>1. jar' = jar /\ ~Holds(b, x)
      BY <1>4, <2>1 DEF CreateLogin, SignIn, NewSession, CookiesTrue
    <3> QED
      BY <2>1, <2>3, <3>1 DEF NewSession, Holds
  <2>4. RowTrue(x)'
    <3>1. CASE CreateLogin(t)
      BY <2>1, <3>1 DEF NewSession, RowTrue
    <3>2. CASE SignIn(t)
      <4>1. \E i \in signins' : /\ i.player = job[t].player /\ i.request = job[t].request
                               /\ i.browser = job[t].browser
        <5>1. PICK i \in signins' :
                \E y : i = [session |-> y, browser |-> job[t].browser,
                           callback |-> job[t].callback, player |-> job[t].player,
                           request |-> job[t].request]
          BY <3>2 DEF SignIn
        <5> QED
          BY <5>1
      <4> QED
        BY <2>1, <2>3, <3>2, <4>1 DEF NewSession, RowTrue
    <3> QED
      BY <1>4, <3>1, <3>2
  <2> QED
    BY <2>2, <2>4 DEF RowsTrue
<1>5. ASSUME NEW t \in Task, Begin(t) PROVE RowsTrue'
  <2>1. PICK x \in Session : job[t] \in Job /\ x = job[t].cookie /\ Live(x) /\ job[t] # Idle
    BY <1>5 DEF Begin, At, Types, Live
  <2>2. ASSUME NEW s \in Session, s # x PROVE RowTrue(s)'
    <3>1. sessions'[s] = sessions[s]
      BY <1>5, <2>1, <2>2 DEF Begin, Types
    <3>2. CASE Live(s)
      BY <1>3, <3>1, <3>2
    <3>3. CASE ~Live(s)
      BY <3>1, <3>3 DEF RowTrue, Live
    <3> QED
      BY <3>2, <3>3
  <2>3. /\ NextState \in State
        /\ sessions'[x] = [player |-> job[t].player, request |-> job[t].request,
                           state |-> NextState]
        /\ begun'[NextState] = [browser |-> job[t].browser, request |-> job[t].request]
        /\ job[t].browser \in Browser /\ job[t].request \in Request \cup {None}
    BY <1>5, <2>1 DEF Begin, Written, NextState, Types, Job
  <2>4. \A b \in Browser : Holds(b, x)' => Holds(b, x) /\ b = job[t].browser
    <3>1. Holds(job[t].browser, x) /\ Issued(x)
      BY <2>1 DEF Holds, Issued, Live
    <3> QED
      BY <1>2, <2>1, <2>3, <3>1 DEF CookiesTrue
  <2>5. /\ job[t].player = sessions[x].player /\ job[t].request = sessions[x].request
    BY <1>5, <2>1 DEF Begin, At, JobsTrue, JobTrue, Posting
  <2>6. /\ sessions'[x].state = NextState /\ sessions'[x].request = job[t].request
        /\ sessions'[x].player = job[t].player
        /\ begun'[NextState] # None
        /\ begun'[NextState].request = job[t].request
        /\ begun'[NextState].browser = job[t].browser
    BY <2>3
  <2>7. RowTrue(x)
    BY <2>1 DEF RowsTrue
  <2>8. RowTrue(x)'
    BY <1>1, <2>1, <2>4, <2>5, <2>6, <2>7 DEF RowTrue, RecordsStay
  <2> QED
    BY <2>2, <2>8 DEF RowsTrue
<1>6. ASSUME NEW s \in Session, Live(s)', \A t \in Task : ~CreateLogin(t) /\ ~SignIn(t) /\ ~Begin(t)
      PROVE  Live(s) /\ sessions'[s].state \in {sessions[s].state, None}
  <2>1. ASSUME NEW y \in Session, Expire(y) \/ ExpireState(y)
        PROVE  Live(s) /\ sessions'[s].state \in {sessions[s].state, None}
    BY <1>6, <2>1 DEF Expire, ExpireState, Live, Types, Row
  <2>2. ASSUME NEW t \in Task, Consume(t)
        PROVE  Live(s) /\ sessions'[s].state \in {sessions[s].state, None}
    BY <1>6, <2>2 DEF Consume, Consumed, Readable, Live, Types, Row
  <2> QED
    BY <1>6, <2>1, <2>2
    DEF Next, vars, Fail, Login, Return, Reply, ShowAccount, ShowConsent, PostLogin,
        PostConsent, PostAccount, Post, Exchange, Bind, Recheck, Approve, Revoke, Delete,
        Forget, Live
<1> QED
  BY <1>3, <1>4, <1>5, <1>6 DEF RowsTrue, RowTrue

LEMMA JobsStep == ASSUME Inv, [Next]_vars PROVE JobsTrue'
<1> USE SentinelAssumption DEF Inv
<1>1. RowsStay /\ RecordsStay /\ Types'
  BY RowsStep, RecordsStep, TypesStep
<1>2. ASSUME NEW u \in Task, job'[u] = job[u] PROVE JobTrue(u)'
  <2>1. job[u] # Idle => job[u] \in Job
    BY DEF Types
  <2>2. JobTrue(u)
    BY DEF JobsTrue
  <2> QED
    BY <1>1, <1>2, <2>1, <2>2
    DEF JobTrue, RowsStay, RecordsStay, Types, Job, Callback, Posting, Returning
<1>3. ASSUME NEW t \in Task, NEW page \in pages, NEW step \in Posting, Post(t, page, step),
             Readable(jar[page.browser]),
             step \in {"revoke", "delete"} =>
               page.kind = "account" /\ page.session = jar[page.browser],
             step = "recheck" => page.kind = "consent", step # "approve"
      PROVE  JobsTrue'
  <2>1. /\ jar[page.browser] \in Session /\ sessions[jar[page.browser]] \in Row
        /\ pages' = pages /\ sessions' = sessions /\ page \in Page
    BY <1>3 DEF Readable, Live, Post, Types
  <2>2. /\ \A u \in Task \ {t} : job'[u] = job[u]
        /\ job'[t].at = step /\ job'[t].page = page /\ job'[t].browser = page.browser
        /\ job'[t].cookie = jar[page.browser]
        /\ job'[t].player = sessions[jar[page.browser]].player
        /\ job'[t].request = sessions[jar[page.browser]].request
    BY <1>3 DEF Post, Arrives, Blank, Types
  <2>3. step \in {"revoke", "delete"} => job'[t].player = page.player /\ page.player \in Player
    BY <1>3, <2>1, <2>2 DEF PagesTrue, Live
  <2>4. JobTrue(t)'
    BY <1>3, <2>1, <2>2, <2>3 DEF JobTrue, Posting, Returning, Issued, Types
  <2> QED
    BY <1>2, <2>2, <2>4 DEF JobsTrue
<1>4. ASSUME NEW t \in Task, Consume(t) PROVE JobsTrue'
  <2>1. PICK s \in Session : /\ s = job[t].cookie /\ Live(s)
                             /\ sessions[s].state = job[t].callback.state
                             /\ job[t] \in Job /\ job[t].at = "consume" /\ job[t] # Idle
    BY <1>4 DEF Consume, Awaits, Readable, Live, At, Types
  <2>2. job[t].callback \in Callback
    BY <2>1 DEF JobsTrue, JobTrue
  <2>3. /\ \A u \in Task \ {t} : job'[u] = job[u]
        /\ job'[t] = [job[t] EXCEPT !.at = "exchange", !.request = sessions[s].request]
        /\ begun' = begun
    BY <1>4, <2>1 DEF Consume, Types
  <2>4. /\ job'[t].at = "exchange" /\ job'[t].request = sessions[s].request
        /\ job'[t].browser = job[t].browser /\ job'[t].callback = job[t].callback
        /\ job[t].browser \in Browser
    BY <2>1, <2>3 DEF Job
  <2>5. begun[job[t].callback.state] = [browser |-> job[t].browser, request |-> sessions[s].request]
    <3>1. RowTrue(s) /\ Holds(job[t].browser, s)
      BY <2>1 DEF RowsTrue, Holds
    <3>2. job[t].callback.state \in State
      BY <2>2 DEF Callback
    <3>3. /\ begun[job[t].callback.state] \in [browser : Browser, request : Request \cup {None}]
          /\ begun[job[t].callback.state].request = sessions[s].request
          /\ begun[job[t].callback.state].browser = job[t].browser
      BY <2>1, <2>4, <3>1, <3>2 DEF RowTrue, Types
    <3> QED
      BY <3>3
  <2>6. JobTrue(t)'
    BY <2>2, <2>3, <2>4, <2>5 DEF JobTrue, Posting, Returning
  <2> QED
    BY <1>2, <2>3, <2>6 DEF JobsTrue
<1>5. ASSUME NEW t \in Task, Exchange(t) PROVE JobsTrue'
  <2>1. PICK p \in Player :
          /\ identity' = [identity EXCEPT ![p] = job[t].callback.identity]
          /\ job' = [job EXCEPT ![t].player = p,
                                ![t].at = IF job[t].request = None THEN "signin" ELSE "bind"]
    BY <1>5 DEF Exchange
  <2>2. /\ \A u \in Task \ {t} : job'[u] = job[u]
        /\ job[t] \in Job /\ job[t].at = "exchange" /\ job[t] # Idle /\ begun' = begun
        /\ job'[t] = [job[t] EXCEPT !.player = p, !.at = IF job[t].request = None THEN "signin" ELSE "bind"]
    BY <1>5, <2>1 DEF Exchange, At, Types
  <2>3. /\ job'[t].at \in {"signin", "bind"} /\ job'[t].player = p
        /\ job'[t].browser = job[t].browser /\ job'[t].callback = job[t].callback
        /\ job'[t].request = job[t].request
    BY <2>2 DEF Job
  <2>4. identity'[p] = job[t].callback.identity
    BY <2>1 DEF Types
  <2>5. JobTrue(t)
    BY DEF JobsTrue
  <2>6. JobTrue(t)'
    BY <2>2, <2>3, <2>4, <2>5 DEF JobTrue, Posting, Returning
  <2> QED
    BY <1>2, <2>2, <2>6 DEF JobsTrue
<1>6. ASSUME NEW t \in Task, Bind(t) \/ Recheck(t) \/ Delete(t) PROVE JobsTrue'
  <2>1. /\ job[t] \in Job /\ job[t] # Idle /\ job'[t].at \in {"signin", "approve", "forget"}
        /\ job'[t] = [job[t] EXCEPT !.at = job'[t].at]
        /\ \A u \in Task \ {t} : job'[u] = job[u]
        /\ begun' = begun /\ identity' = identity /\ sessions' = sessions /\ pages' = pages
    BY <1>6 DEF Bind, Recheck, Delete, Goes, At, Types, Job
  <2>2. /\ job'[t].browser = job[t].browser /\ job'[t].cookie = job[t].cookie
        /\ job'[t].page = job[t].page /\ job'[t].callback = job[t].callback
        /\ job'[t].player = job[t].player /\ job'[t].request = job[t].request
    BY <2>1 DEF Job
  <2>3. JobTrue(t)
    BY DEF JobsTrue
  <2>4. CASE Bind(t)
    <3>1. job[t].at = "bind" /\ job'[t].at = "signin"
      BY <2>1, <2>4 DEF Bind, At, Goes, Types, Job
    <3> QED
      BY <1>2, <2>1, <2>2, <2>3, <3>1 DEF JobsTrue, JobTrue, Posting, Returning
  <2>5. CASE Recheck(t)
    <3>1. /\ job[t].at = "recheck" /\ job'[t].at = "approve"
          /\ job[t].cookie \in Session /\ Live(job[t].cookie) /\ job[t].page.session = job[t].cookie
      BY <2>1, <2>5 DEF Recheck, At, Goes, Readable, Live, Types, Job
    <3>2. job[t].page \in pages /\ job[t].page.kind = "consent"
      BY <2>1, <2>3, <3>1 DEF JobTrue, Posting
    <3>3. job[t].player = job[t].page.player /\ job[t].player \in Player
      BY <2>1, <2>3, <3>1, <3>2 DEF PagesTrue, JobTrue, Posting
    <3> QED
      BY <1>2, <2>1, <2>2, <2>3, <3>1, <3>2, <3>3
      DEF JobsTrue, JobTrue, Posting, Returning, Issued, Live
  <2>6. CASE Delete(t)
    <3>1. job[t].at = "delete" /\ job'[t].at = "forget"
      BY <2>1, <2>6 DEF Delete, At, Goes, Types, Job
    <3> QED
      BY <1>2, <2>1, <2>2, <2>3, <3>1 DEF JobsTrue, JobTrue, Posting, Returning
  <2> QED
    BY <1>6, <2>4, <2>5, <2>6
<1>7. ASSUME NEW t \in Task, NEW b \in Browser,
             (\E r \in Request \cup {None} : Login(t, b, r)) \/ (\E c \in Callback : Return(t, b, c))
      PROVE  JobsTrue'
  <2>1. /\ \A u \in Task \ {t} : job'[u] = job[u]
        /\ \/ job'[t].at = "create"
           \/ job'[t].at = "consume" /\ job'[t].callback \in Callback
    <3>1. ASSUME NEW r \in Request \cup {None}, Login(t, b, r)
          PROVE  job'[t].at = "create" /\ \A u \in Task \ {t} : job'[u] = job[u]
      BY <3>1 DEF Login, Arrives, Blank, Types
    <3>2. ASSUME NEW c \in Callback, Return(t, b, c)
          PROVE  /\ job'[t].at = "consume" /\ job'[t].callback \in Callback
                 /\ \A u \in Task \ {t} : job'[u] = job[u]
      BY <3>2 DEF Return, Arrives, Blank, Types
    <3> QED
      BY <1>7, <3>1, <3>2
  <2>2. JobTrue(t)'
    BY <2>1 DEF JobTrue, Posting, Returning
  <2> QED
    BY <1>2, <2>1, <2>2 DEF JobsTrue
<1>8. ASSUME NEW t \in Task, CreateLogin(t) \/ SignIn(t) \/ Forget(t) PROVE JobsTrue'
  <2>1. job'[t].at = "reply" /\ \A u \in Task \ {t} : job'[u] = job[u]
    <3>1. CASE Forget(t)
      BY <3>1 DEF Forget, Goes, At, Types, Job
    <3> QED
      BY <1>8, <3>1, Fresh DEF NewSession
  <2>2. JobTrue(t)'
    BY <2>1 DEF JobTrue, Posting, Returning
  <2> QED
    BY <1>2, <2>1, <2>2 DEF JobsTrue
<1>9. ASSUME NEW t \in Task, Fail(t) \/ Reply(t) \/ Begin(t) \/ Approve(t) \/ Revoke(t)
      PROVE  JobsTrue'
  BY <1>2, <1>9 DEF Fail, Reply, Begin, Approve, Revoke, Ends, Types, JobsTrue, JobTrue
<1>10. ASSUME job' = job PROVE JobsTrue'
  BY <1>2, <1>10 DEF JobsTrue
<1>11. ASSUME NEW t \in Task, NEW page \in pages,
              \/ PostLogin(t, page) \/ PostConsent(t, page)
              \/ PostAccount(t, page, "revoke") \/ PostAccount(t, page, "delete")
       PROVE  JobsTrue'
  BY <1>3, <1>11 DEF PostLogin, PostConsent, PostAccount, Posted, MayConsent, Posting
<1> QED
  BY <1>4, <1>5, <1>6, <1>7, <1>8, <1>9, <1>10, <1>11
  DEF Next, vars, Expire, ExpireState, ShowAccount, ShowConsent

LEMMA SignInGenuineStep == ASSUME Inv, [Next]_vars PROVE SignInGenuine'
<1> USE SentinelAssumption DEF Inv, SignInGenuine
<1>1. RecordsStay
  BY RecordsStep
<1>2. ASSUME NEW i \in signins
      PROVE  /\ begun'[i.callback.state] = [browser |-> i.browser, request |-> i.request]
             /\ identity'[i.player] = i.callback.identity
  BY <1>1 DEF RecordsStay, Types, Callback
<1>3. ASSUME NEW t \in Task, SignIn(t), NEW i \in signins' \ signins
      PROVE  /\ begun'[i.callback.state] = [browser |-> i.browser, request |-> i.request]
             /\ identity'[i.player] = i.callback.identity
  <2>1. /\ begun' = begun /\ identity' = identity
        /\ i.browser = job[t].browser /\ i.callback = job[t].callback
        /\ i.player = job[t].player /\ i.request = job[t].request
        /\ job[t].at = "signin" /\ job[t] # Idle
    BY <1>3 DEF SignIn, At
  <2> QED
    BY <2>1 DEF JobsTrue, JobTrue, Returning
<1>4. (\A t \in Task : ~SignIn(t)) => signins' = signins
  BY DEF Next, vars, Expire, ExpireState, ShowAccount, ShowConsent, Fail, Reply,
     Login, Return, PostLogin, PostConsent, PostAccount, Post, CreateLogin, Begin, Consume,
     Exchange, Bind, Recheck, Approve, Revoke, Delete, Forget
<1> QED
  BY <1>2, <1>3, <1>4

LEMMA ActsStep == ASSUME Inv, [Next]_vars PROVE AsShown' /\ ApprovedBySignIn'
<1> USE SentinelAssumption DEF Inv
<1>1. RecordsStay
  BY RecordsStep
<1>2. ASSUME NEW t \in Task, Approve(t) \/ Revoke(t) \/ Delete(t), NEW a \in acts' \ acts
      PROVE  /\ a.player = a.page.player
             /\ a.kind = "approve" => \E i \in signins : /\ i.browser = a.page.browser
                                                        /\ i.player = a.player
                                                        /\ i.request = a.page.request
  <2>1. /\ job[t] # Idle /\ job[t].at \in {"approve", "revoke", "delete"}
        /\ a.page = job[t].page /\ a.player = job[t].player
        /\ a.kind = "approve" => job[t].at = "approve"
    BY <1>2 DEF Approve, Revoke, Delete, Act, At
  <2>2. /\ a.player = a.page.player /\ a.page \in pages
        /\ a.kind = "approve" => a.page.kind = "consent"
    BY <2>1 DEF JobsTrue, JobTrue, Posting
  <2> QED
    BY <2>2 DEF PagesTrue
<1>3. (\A t \in Task : ~Approve(t) /\ ~Revoke(t) /\ ~Delete(t)) => acts' = acts
  BY DEF Next, vars, Expire, ExpireState, ShowAccount, ShowConsent, Fail, Reply,
     Login, Return, PostLogin, PostConsent, PostAccount, Post, CreateLogin, Begin, Consume,
     Exchange, Bind, SignIn, Recheck, Forget
<1> QED
  BY <1>1, <1>2, <1>3 DEF AsShown, ApprovedBySignIn, RecordsStay

LEMMA InitInv == Init => Inv
BY SentinelAssumption
DEF Init, Inv, Types, JobsTrue, JobTrue, PagesTrue, CookiesTrue, RowsTrue, RowTrue, Holds,
    Live, Issued, SignInGenuine, AsShown, ApprovedBySignIn

LEMMA InvStep == Inv /\ [Next]_vars => Inv'
<1> SUFFICES ASSUME Inv, [Next]_vars PROVE Inv'
  OBVIOUS
<1> QED
  BY TypesStep, JobsStep, PagesStep, CookiesStep, RowsTrueStep, SignInGenuineStep, ActsStep
  DEF Inv

LEMMA Invariant == Spec => []Inv
BY InitInv, InvStep, PTL DEF Spec

-----------------------------------------------------------------------------
(* A login state is in one place at a time: a session that awaits it, a     *)
(* callback that spent it, or the sign-in that came of it.                  *)

RowHas(s, x) == Live(s) /\ sessions[s].state = x

JobHas(t, x) == job[t] # Idle /\ job[t].at \in Returning /\ job[t].callback.state = x

OnePlace ==
  \A x \in State :
    /\ \A s, u \in Session : RowHas(s, x) /\ RowHas(u, x) => s = u
    /\ \A t, u \in Task : JobHas(t, x) /\ JobHas(u, x) => t = u
    /\ \A i, j \in signins : i.callback.state = x /\ j.callback.state = x => i = j
    /\ \A s \in Session, t \in Task : ~(RowHas(s, x) /\ JobHas(t, x))
    /\ \A s \in Session, i \in signins : ~(RowHas(s, x) /\ i.callback.state = x)
    /\ \A t \in Task, i \in signins : ~(JobHas(t, x) /\ i.callback.state = x)

\* Whatever has a state has one that was issued.
LEMMA HasIssued ==
  ASSUME Inv, NEW x \in State
  PROVE  /\ \A s \in Session : RowHas(s, x) => begun[x] # None
         /\ \A t \in Task : JobHas(t, x) => begun[x] # None
         /\ \A i \in signins : i.callback.state = x => begun[x] # None
<1> USE SentinelAssumption DEF Inv
<1>1. \A s \in Session : RowHas(s, x) => begun[x] # None
  BY DEF RowHas, RowsTrue, RowTrue
<1>2. ASSUME NEW t \in Task, JobHas(t, x) PROVE begun[x] # None
  <2>1. /\ job[t] \in Job
        /\ begun[x] = [browser |-> job[t].browser, request |-> job[t].request]
    BY <1>2 DEF JobHas, JobsTrue, JobTrue, Types
  <2>2. [browser |-> job[t].browser, request |-> job[t].request]
          \in [browser : Browser, request : Request \cup {None}]
    BY <2>1 DEF Job
  <2> QED
    BY <2>1, <2>2
<1>3. ASSUME NEW i \in signins, i.callback.state = x PROVE begun[x] # None
  <2>1. begun[x] = [browser |-> i.browser, request |-> i.request]
    BY <1>3 DEF SignInGenuine
  <2>2. [browser |-> i.browser, request |-> i.request]
          \in [browser : Browser, request : Request \cup {None}]
    BY DEF Types
  <2> QED
    BY <2>1, <2>2
<1> QED
  BY <1>1, <1>2, <1>3

\* A session only gets a state that is issued to it.
LEMMA RowMoves ==
  ASSUME Inv, [Next]_vars, NEW x \in State
  PROVE  /\ \A s \in Session : RowHas(s, x)' => RowHas(s, x) \/ begun[x] = None
         /\ begun[x] = None =>
              \A s, u \in Session : RowHas(s, x)' /\ RowHas(u, x)' => s = u
<1> USE SentinelAssumption DEF Inv
<1>1. ASSUME NEW t \in Task, CreateLogin(t) \/ SignIn(t), NEW s \in Session, RowHas(s, x)'
      PROVE  RowHas(s, x)
  BY <1>1, Fresh DEF NewSession, RowHas, Live
<1>2. ASSUME NEW t \in Task, Begin(t), NEW s \in Session, RowHas(s, x)', ~RowHas(s, x)
      PROVE  begun[x] = None /\ s = job[t].cookie
  BY <1>2 DEF Begin, NextState, Written, RowHas, Live, Types
<1>3. ASSUME NEW y \in Session, Expire(y) \/ ExpireState(y), NEW s \in Session, RowHas(s, x)'
      PROVE  RowHas(s, x)
  BY <1>3 DEF Expire, ExpireState, RowHas, Live, Types, Row
<1>4. ASSUME NEW t \in Task, Consume(t), NEW s \in Session, RowHas(s, x)'
      PROVE  RowHas(s, x)
  BY <1>4 DEF Consume, Consumed, Readable, RowHas, Live, Types, Row
<1>5. ASSUME sessions' = sessions, NEW s \in Session, RowHas(s, x)' PROVE RowHas(s, x)
  BY <1>5 DEF RowHas, Live
<1>6. ASSUME NEW s \in Session, RowHas(s, x)', ~RowHas(s, x)
      PROVE  \E t \in Task : Begin(t)
  BY <1>1, <1>3, <1>4, <1>5, <1>6
  DEF Next, vars, ShowAccount, ShowConsent, Fail, Reply, Login, Return, PostLogin,
      PostConsent, PostAccount, Post, Exchange, Bind, Recheck, Approve, Revoke, Delete, Forget
<1>7. ASSUME NEW s \in Session, RowHas(s, x) PROVE begun[x] # None
  BY <1>7, HasIssued
<1>8. ASSUME NEW t \in Task, Begin(t), NEW u \in Task, Begin(u)
      PROVE  t = u
  <2>1. /\ job[t] # Idle /\ job'[t] = Idle /\ job[u] # Idle /\ job'[u] = Idle
        /\ \A v \in Task \ {t} : job'[v] = job[v]
    BY <1>8 DEF Begin, At, Ends, Types
  <2> QED
    BY <2>1
<1> QED
  BY <1>2, <1>6, <1>7, <1>8

\* One job moves at a time.
LEMMA OneMoves ==
  ASSUME Inv, [Next]_vars, NEW t \in Task, NEW u \in Task, job'[t] # job[t], job'[u] # job[u]
  PROVE  t = u
<1> USE DEF Inv
<1>1. ASSUME NEW v \in Task, NEW j, job' = [job EXCEPT ![v] = j] PROVE t = u
  BY <1>1 DEF Types
<1>2. ASSUME NEW v \in Task, CreateLogin(v) \/ SignIn(v) PROVE t = u
  BY <1>2, Fresh DEF NewSession
<1>3. ASSUME NEW v \in Task,
             Consume(v) \/ Exchange(v) \/ Bind(v) \/ Recheck(v) \/ Delete(v) \/ Forget(v)
      PROVE  t = u
  BY <1>3 DEF Consume, Exchange, Bind, Recheck, Delete, Forget, Goes, Types
<1> QED
  BY <1>1, <1>2, <1>3
  DEF Next, vars, Expire, ExpireState, ShowAccount, ShowConsent, Fail, Reply, Ends,
      Login, Return, PostLogin, PostConsent, PostAccount, Post, Arrives, Begin, Approve, Revoke

\* A callback only gets the state of a session, which loses it.
LEMMA JobMoves ==
  ASSUME Inv, [Next]_vars, NEW x \in State, NEW t \in Task, JobHas(t, x)', ~JobHas(t, x)
  PROVE  \E s \in Session : RowHas(s, x) /\ ~RowHas(s, x)'
<1> USE SentinelAssumption DEF Inv
<1>1. Consume(t)
  <2>1. ASSUME NEW v \in Task, Exchange(v) \/ Bind(v) PROVE FALSE
    <3>1. CASE v = t
      <4>1. /\ job[t] \in Job /\ job[t] # Idle /\ job[t].at \in {"exchange", "bind"}
            /\ job'[t].callback = job[t].callback
        <5>1. job[t] \in Job /\ job[t] # Idle /\ job[t].at \in {"exchange", "bind"}
          BY <2>1, <3>1 DEF Exchange, Bind, At, Types
        <5>2. CASE Exchange(t)
          BY <5>1, <5>2 DEF Exchange, Types, Job
        <5>3. CASE Bind(t)
          BY <5>1, <5>3 DEF Bind, Goes, Types, Job
        <5> QED
          BY <2>1, <3>1, <5>1, <5>2, <5>3
      <4> QED
        BY <4>1 DEF JobHas, Returning
    <3>2. CASE v # t
      BY <2>1, <3>2 DEF Exchange, Bind, Goes, JobHas, Types
    <3> QED
      BY <3>1, <3>2
  <2>2. ASSUME NEW v \in Task, CreateLogin(v) \/ SignIn(v) PROVE FALSE
    BY <2>2, Fresh DEF NewSession, JobHas, Returning
  <2>3. ASSUME NEW v \in Task, Consume(v) \/ Recheck(v) \/ Delete(v) \/ Forget(v), v # t
        PROVE  FALSE
    BY <2>3 DEF Consume, Recheck, Delete, Forget, Goes, JobHas, Types
  <2>4. ASSUME Recheck(t) \/ Delete(t) \/ Forget(t) PROVE FALSE
    BY <2>4 DEF Recheck, Delete, Forget, Goes, At, JobHas, Returning, Types, Job
  <2>5. ASSUME NEW v \in Task, NEW page \in pages,
               \/ PostLogin(v, page) \/ PostConsent(v, page)
               \/ PostAccount(v, page, "revoke") \/ PostAccount(v, page, "delete")
        PROVE  FALSE
    <3>1. /\ job'[v].at \notin Returning
          /\ \A u \in Task \ {v} : job'[u] = job[u]
      <4>1. PICK step \in {"begin", "recheck", "revoke", "delete"} : Post(v, page, step)
        BY <2>5 DEF PostLogin, PostConsent, PostAccount
      <4> QED
        BY <4>1 DEF Post, Arrives, Blank, Returning, Types
    <3> QED
      BY <3>1 DEF JobHas
  <2>6. ASSUME NEW v \in Task, NEW b \in Browser,
               (\E r \in Request \cup {None} : Login(v, b, r)) \/ (\E c \in Callback : Return(v, b, c))
        PROVE  FALSE
    <3>1. ASSUME NEW r \in Request \cup {None}, Login(v, b, r) PROVE FALSE
      BY <3>1 DEF Login, Arrives, Blank, JobHas, Returning, Types
    <3>2. ASSUME NEW c \in Callback, Return(v, b, c) PROVE FALSE
      BY <3>2 DEF Return, Arrives, Blank, JobHas, Returning, Types
    <3> QED
      BY <2>6, <3>1, <3>2
  <2>7. ASSUME NEW v \in Task, job' = [job EXCEPT ![v] = Idle] PROVE FALSE
    BY <2>7 DEF JobHas, Types
  <2>8. job' # job
    BY DEF JobHas
  <2> QED
    BY <2>1, <2>2, <2>3, <2>4, <2>5, <2>6, <2>7, <2>8
    DEF Next, vars, Expire, ExpireState, ShowAccount, ShowConsent, Fail, Reply, Ends,
        Begin, Approve, Revoke
<1>2. job'[t].callback = job[t].callback /\ job[t].callback.state = x
  BY <1>1 DEF Consume, At, JobHas, Types, Job
<1> QED
  BY <1>1, <1>2 DEF Consume, Consumed, Awaits, Readable, RowHas, Live, Types, Row

\* A session is made by a callback, which is done with its state.
LEMMA SignInMoves ==
  ASSUME Inv, [Next]_vars, NEW i \in signins' \ signins
  PROVE  /\ \E t \in Task : /\ JobHas(t, i.callback.state)
                           /\ job'[t] # Idle /\ job'[t].at = "reply"
         /\ \A j \in signins' \ signins : i = j
<1> USE SentinelAssumption DEF Inv
<1>1. PICK t \in Task : SignIn(t)
  BY DEF Next, vars, Expire, ExpireState, ShowAccount, ShowConsent, Fail, Reply,
     Login, Return, PostLogin, PostConsent, PostAccount, Post, CreateLogin, Begin, Consume,
     Exchange, Bind, Recheck, Approve, Revoke, Delete, Forget
<1>2. /\ job[t] # Idle /\ job[t].at = "signin" /\ i.callback = job[t].callback
      /\ \A j \in signins' \ signins : i = j
  BY <1>1 DEF SignIn, At
<1>3. job'[t].at = "reply" /\ job'[t] # Idle
  BY <1>1, Fresh DEF NewSession
<1> QED
  BY <1>2, <1>3 DEF JobHas, Returning

LEMMA OnePlaceStep == ASSUME Inv, [Next]_vars, OnePlace PROVE OnePlace'
<1> SUFFICES ASSUME NEW x \in State
    PROVE  /\ \A s, u \in Session : RowHas(s, x)' /\ RowHas(u, x)' => s = u
           /\ \A t, u \in Task : JobHas(t, x)' /\ JobHas(u, x)' => t = u
           /\ \A i, j \in signins' : i.callback.state = x /\ j.callback.state = x => i = j
           /\ \A s \in Session, t \in Task : ~(RowHas(s, x)' /\ JobHas(t, x)')
           /\ \A s \in Session, i \in signins' : ~(RowHas(s, x)' /\ i.callback.state = x)
           /\ \A t \in Task, i \in signins' : ~(JobHas(t, x)' /\ i.callback.state = x)
  BY DEF OnePlace
<1>1. /\ \A s, u \in Session : RowHas(s, x) /\ RowHas(u, x) => s = u
      /\ \A t, u \in Task : JobHas(t, x) /\ JobHas(u, x) => t = u
      /\ \A i, j \in signins : i.callback.state = x /\ j.callback.state = x => i = j
      /\ \A s \in Session, t \in Task : ~(RowHas(s, x) /\ JobHas(t, x))
      /\ \A s \in Session, i \in signins : ~(RowHas(s, x) /\ i.callback.state = x)
      /\ \A t \in Task, i \in signins : ~(JobHas(t, x) /\ i.callback.state = x)
  BY DEF OnePlace
<1>2. ASSUME NEW i \in signins', i.callback.state = x, i \notin signins
      PROVE  \E t \in Task : JobHas(t, x) /\ ~JobHas(t, x)'
  BY <1>2, SignInMoves DEF JobHas, Returning
<1>3. ASSUME NEW t \in Task, JobHas(t, x)', JobHas(t, x)' # JobHas(t, x) PROVE job'[t] # job[t]
  BY <1>3 DEF JobHas
<1>4. \A s, u \in Session : RowHas(s, x)' /\ RowHas(u, x)' => s = u
  BY <1>1, RowMoves
<1>5. ASSUME NEW t \in Task, NEW u \in Task, JobHas(t, x)', JobHas(u, x)' PROVE t = u
  BY <1>1, <1>5, JobMoves, OneMoves DEF JobHas
<1>6. \A i, j \in signins' : i.callback.state = x /\ j.callback.state = x => i = j
  BY <1>1, <1>2, SignInMoves
<1>7. ASSUME NEW s \in Session, NEW t \in Task, RowHas(s, x)', JobHas(t, x)' PROVE FALSE
  BY <1>1, <1>7, RowMoves, JobMoves, HasIssued
<1>8. ASSUME NEW s \in Session, NEW i \in signins', RowHas(s, x)', i.callback.state = x
      PROVE  FALSE
  BY <1>1, <1>2, <1>8, RowMoves, HasIssued
<1>9. ASSUME NEW t \in Task, NEW i \in signins', JobHas(t, x)', i.callback.state = x
      PROVE  FALSE
  BY <1>1, <1>2, <1>9, JobMoves
<1> QED
  BY <1>4, <1>5, <1>6, <1>7, <1>8, <1>9

LEMMA Places == Spec => [](Inv /\ OnePlace)
<1>1. Init => OnePlace
  BY SentinelAssumption DEF Init, OnePlace, RowHas, JobHas, Live
<1>2. Inv /\ OnePlace /\ [Next]_vars => Inv' /\ OnePlace'
  BY InvStep, OnePlaceStep
<1> QED
  BY InitInv, <1>1, <1>2, PTL DEF Spec

\* However often a callback address is opened and however requests interleave, a login state
\* makes one session at most, for it leaves its row in the transaction that finds it.
\* (BrowserSessions.read, consume_state, hosted_web.py:144-155)
THEOREM StatesSpentOnce == Spec => []SpentOnce
<1>1. Inv /\ OnePlace => SpentOnce
  BY DEF Inv, Types, OnePlace, SpentOnce, Callback
<1> QED
  BY <1>1, Places, PTL

\* A session waits for a state that was issued for its request, and every row, cookie, page
\* and request under way has its type.  (BrowserSessions, hosted_web.py:103-171)
THEOREM TypeCorrect == Spec => []TypeOK
<1>1. Inv => TypeOK
  BY DEF Inv, Types, TypeOK, RowsTrue, RowTrue
<1> QED
  BY <1>1, Invariant, PTL

\* A callback signs in the browser that asked for it, for the request it asked for, as
\* whom MSF says.  (callback, hosted_web.py:276-299)
THEOREM CallbacksGenuine == Spec => []SignInGenuine
<1>1. Inv => SignInGenuine
  BY DEF Inv
<1> QED
  BY <1>1, Invariant, PTL

\* A posted page acts for the player and the request it shows, although its browser may have
\* signed in with another account since.  (post, the csrf value, hosted_web.py:196-220)
THEOREM PagesAct == Spec => []AsShown
<1>1. Inv => AsShown
  BY DEF Inv
<1> QED
  BY <1>1, Invariant, PTL

\* No request is approved without a sign-in for it in the same browser.  (consent,
\* hosted_web.py:301-329)
THEOREM ApprovalsSigned == Spec => []ApprovedBySignIn
<1>1. Inv => ApprovedBySignIn
  BY DEF Inv
<1> QED
  BY <1>1, Invariant, PTL

\* The first player whose login is completed for a request keeps it.  (callback,
\* hosted_web.py:293-295, and complete_login)
THEOREM FirstOwner == Spec => OwnerFixed
<1>1. ASSUME Inv, [Next]_vars, NEW r \in Request, requests[r] \in Player
      PROVE  requests'[r] \in {requests[r], Gone}
  <2>1. ASSUME NEW t \in Task, Bind(t) PROVE requests'[r] \in {requests[r], Gone}
    BY <1>1, <2>1, SentinelAssumption DEF Inv, Types, Bind, Unclaimed
  <2>2. ASSUME NEW t \in Task, Approve(t) \/ Forget(t)
        PROVE  requests'[r] \in {requests[r], Gone}
    BY <1>1, <2>2 DEF Inv, Types, Approve, Forget
  <2> QED
    BY <1>1, <2>1, <2>2
    DEF Next, vars, Expire, ExpireState, ShowAccount, ShowConsent, Fail, Reply,
        Login, Return, PostLogin, PostConsent, PostAccount, Post, CreateLogin, Begin,
        Consume, Exchange, SignIn, Recheck, Revoke, Delete
<1>2. Inv /\ [Next]_vars =>
        [\A r \in Request : requests[r] \in Player => requests'[r] \in {requests[r], Gone}]_vars
  BY <1>1
<1> QED
  BY <1>2, Invariant, PTL DEF Spec, OwnerFixed
=============================================================================
