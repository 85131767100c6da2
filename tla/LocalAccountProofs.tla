------------------------- MODULE LocalAccountProofs -------------------------
(***************************************************************************)
(* Proofs about LocalAccount, for any number of operations, attempts and   *)
(* tokens.  What needs the lock is proved for a single checkout: with two, *)
(* LogoutHolds fails (LocalAccountCheckouts.cfg).                          *)
(***************************************************************************)
EXTENDS LocalAccount, TLAPS

\* All operations share one lock file.
OneCheckout == \A c, d \in Checkout : c = d

SQ == {"sync", "query"}

\* An operation under way owns the lock of its checkout.
Exclusive == \A t \in Task : job[t] # Idle => lock[job[t].checkout] = t

\* What an operation carries is what the Keychain has, until MSF renews it; what MSF
\* gave it is alive; and nobody has signed out meanwhile.
Carried ==
  \A t \in Task :
    /\ At(t, SQ, "loaded") => job[t].token = keychain /\ ~signedOut
    /\ At(t, SQ, "renewed") => job[t].token \in live /\ ~signedOut
    /\ At(t, {"login"}, "obtained") /\ job[t].token \in Token => job[t].token \in live

\* The stored token works, or its successor is on its way.
Usable ==
  ~lost /\ keychain \in Token =>
    keychain \in live \/ \E t \in Task : At(t, SQ, "renewed")

Safe == Exclusive /\ Carried /\ LogoutHolds /\ Usable

IInv == TypeOK /\ Safe

-----------------------------------------------------------------------------
(* Types                                                                   *)

LEMMA JobType ==
  ASSUME TypeOK, NEW t \in Task, job[t] # Idle
  PROVE  job[t] \in Job
  BY DEF TypeOK

\* One job changes, and to a job that holds the tokens its step needs.
LEMMA MoveType ==
  ASSUME TypeOK, NEW t \in Task, NEW next \in Job,
         Equipped(next),
         job' = [job EXCEPT ![t] = next]
  PROVE  /\ job' \in [Task -> Job \cup {Idle}]
         /\ job'[t] = next
         /\ \A u \in Task : u # t => job'[u] = job[u]
         /\ \A u \in Task : job'[u] # Idle => Equipped(job'[u])
<1>1. job \in [Task -> Job \cup {Idle}]
  BY DEF TypeOK
<1>2. job' \in [Task -> Job \cup {Idle}] /\ job'[t] = next
  BY <1>1
<1>3. \A u \in Task : u # t => job'[u] = job[u]
  BY <1>1
<1>4. ASSUME NEW u \in Task, job'[u] # Idle
      PROVE  Equipped(job'[u])
  <2>1. CASE u = t
    BY <1>2, <2>1
  <2>2. CASE u # t
    BY <1>3, <1>4, <2>2 DEF TypeOK
  <2> QED
    BY <2>1, <2>2
<1> QED
  BY <1>2, <1>3, <1>4

LEMMA FinishType ==
  ASSUME TypeOK, NEW t \in Task, Finish(t)
  PROVE  /\ job' \in [Task -> Job \cup {Idle}]
         /\ lock' \in [Checkout -> Task \cup {Nobody}]
         /\ job'[t] = Idle
         /\ \A u \in Task : u # t => job'[u] = job[u]
         /\ \A u \in Task : job'[u] # Idle => Equipped(job'[u])
<1>1. job \in [Task -> Job \cup {Idle}] /\ job' = [job EXCEPT ![t] = Idle]
  BY DEF TypeOK, Finish
<1>2. job' \in [Task -> Job \cup {Idle}] /\ job'[t] = Idle
  BY <1>1
<1>3. \A u \in Task : u # t => job'[u] = job[u]
  BY <1>1
<1>4. lock' \in [Checkout -> Task \cup {Nobody}]
  BY DEF TypeOK, Finish
<1> QED
  BY <1>2, <1>3, <1>4 DEF TypeOK

LEMMA IssuesType ==
  ASSUME TypeOK, NEW token, Issues(token)
  PROVE  /\ token \in Token \cup {AccessOnly}
         /\ issued \subseteq issued'
         /\ issued' \subseteq Token
         /\ token \in Token => token \in issued'
  BY SentinelAssumption DEF TypeOK, Issues

LEMMA InitType == Init => TypeOK
  BY DEF Init, TypeOK, Stored

\* The job a task moves to.
MovedTo(t, step, token) == [job[t] EXCEPT !.step = step, !.token = token]

LEMMA GotoMoves ==
  ASSUME TypeOK, NEW t \in Task, job[t] # Idle,
         NEW step \in {"serving", "exchanging", "obtained", "loaded", "renewed",
                       "unsure", "saved"},
         NEW token \in Stored
  PROVE  /\ MovedTo(t, step, token) \in Job
         /\ MovedTo(t, step, token).step = step
         /\ MovedTo(t, step, token).token = token
         /\ MovedTo(t, step, token).op = job[t].op
         /\ MovedTo(t, step, token).checkout = job[t].checkout
         /\ Goto(t, step) /\ token = job[t].token =>
              job' = [job EXCEPT ![t] = MovedTo(t, step, token)]
         /\ GotoWith(t, step, token) => job' = [job EXCEPT ![t] = MovedTo(t, step, token)]
<1>1. job[t] \in Job
  BY JobType
<1>2. /\ MovedTo(t, step, token) \in Job
      /\ MovedTo(t, step, token).step = step
      /\ MovedTo(t, step, token).token = token
      /\ MovedTo(t, step, token).op = job[t].op
      /\ MovedTo(t, step, token).checkout = job[t].checkout
  BY <1>1 DEF MovedTo, Job
<1>3. ASSUME Goto(t, step), token = job[t].token
      PROVE  job' = [job EXCEPT ![t] = MovedTo(t, step, token)]
  <2>1. [job[t] EXCEPT !.step = step] = MovedTo(t, step, token)
    BY <1>1, <1>3 DEF MovedTo, Job
  <2> QED
    BY <1>3, <2>1 DEF Goto
<1>4. GotoWith(t, step, token) => job' = [job EXCEPT ![t] = MovedTo(t, step, token)]
  BY DEF GotoWith, MovedTo
<1> QED
  BY <1>2, <1>3, <1>4

\* Every step preserves the types.
LEMMA NextType == TypeOK /\ [Next]_vars => TypeOK'
<1> SUFFICES ASSUME TypeOK, [Next]_vars
             PROVE  TypeOK'
  OBVIOUS
<1> USE SentinelAssumption, TimeoutAssumption
<1>1. ASSUME NEW t \in Task, NEW op \in {"login", "sync", "query", "logout"},
             NEW c \in Checkout, Start(t, op, c)
      PROVE  TypeOK'
  <2> DEFINE next == [op |-> op, step |-> "locked", checkout |-> c,
                      attempt |-> Nobody, left |-> 0, token |-> NoItem]
  <2>1. next \in Job
    BY DEF Job, Stored
  <2>2. job' = [job EXCEPT ![t] = next]
    BY <1>1 DEF Start
  <2> HIDE DEF next
  <2>3. Equipped(next)
    BY DEF next, Equipped
  <2>4. /\ job' \in [Task -> Job \cup {Idle}]
        /\ \A u \in Task : job'[u] # Idle => Equipped(job'[u])
    BY MoveType, <2>1, <2>2, <2>3
  <2> QED
    BY <1>1, <2>4 DEF Start, TypeOK, msf, browser, history
<1>2. ASSUME NEW t \in Task, PortTaken(t)
      PROVE  TypeOK'
  <2>1. Finish(t)
    BY <1>2 DEF PortTaken
  <2> QED
    BY <1>2, <2>1, FinishType DEF PortTaken, TypeOK, msf, browser, history, Stored
<1>3. ASSUME NEW t \in Task, Denied(t)
      PROVE  TypeOK'
  <2>1. Finish(t)
    BY <1>3 DEF Denied
  <2> QED
    BY <1>3, <2>1, FinishType DEF Denied, TypeOK, msf, browser, history, Stored
<1>4. ASSUME NEW t \in Task, Expire(t)
      PROVE  TypeOK'
  <2>1. Finish(t)
    BY <1>4 DEF Expire
  <2> QED
    BY <1>4, <2>1, FinishType DEF Expire, TypeOK, msf, browser, history, Stored
<1>5. ASSUME NEW t \in Task, NotSignedIn(t)
      PROVE  TypeOK'
  <2>1. Finish(t)
    BY <1>5 DEF NotSignedIn
  <2> QED
    BY <1>5, <2>1, FinishType DEF NotSignedIn, TypeOK, msf, browser, history, Stored
<1>6. ASSUME NEW t \in Task, Rejected(t)
      PROVE  TypeOK'
  <2>1. Finish(t)
    BY <1>6 DEF Rejected
  <2> QED
    BY <1>6, <2>1, FinishType DEF Rejected, TypeOK, msf, browser, history, Stored
<1>7. ASSUME NEW t \in Task, Fetch(t)
      PROVE  TypeOK'
  <2>1. Finish(t)
    BY <1>7 DEF Fetch
  <2> QED
    BY <1>7, <2>1, FinishType DEF Fetch, TypeOK, msf, browser, history, Stored
<1>8. ASSUME NEW t \in Task, Clear(t)
      PROVE  TypeOK'
  <2>1. Finish(t)
    BY <1>8 DEF Clear, ReportSignedOut
  <2> QED
    BY <1>8, <2>1, FinishType DEF Clear, ReportSignedOut, TypeOK, msf, browser, history, Stored
<1>9. ASSUME NEW t \in Task, LookAgain(t)
      PROVE  TypeOK'
  <2>1. Finish(t)
    BY <1>9 DEF LookAgain, ReportSignedOut
  <2> QED
    BY <1>9, <2>1, FinishType DEF LookAgain, ReportSignedOut, TypeOK, msf, browser, history, Stored
<1>10. ASSUME NEW t \in Task, Fail(t)
      PROVE  TypeOK'
  <2>1. Finish(t)
    BY <1>10 DEF Fail
  <2> QED
    BY <1>10, <2>1, FinishType DEF Fail, TypeOK, msf, browser, history, Stored
<1>11. ASSUME NEW t \in Task, RenewLost(t)
      PROVE  TypeOK'
  <2>1. Finish(t)
    BY <1>11 DEF RenewLost
  <2>2. PICK renewed \in Token : Rotates(job[t].token, renewed)
    BY <1>11 DEF RenewLost
  <2>3. renewed # AccessOnly /\ Issues(renewed) /\ live' = (live \ {job[t].token}) \cup {renewed}
    BY <2>2 DEF Rotates
  <2>4. live' \subseteq issued' /\ issued' \subseteq Token
    BY <2>3, IssuesType DEF TypeOK
  <2> QED
    BY <1>11, <2>1, <2>4, FinishType DEF RenewLost, TypeOK, browser
<1>12. ASSUME NEW t \in Task, ExchangeFails(t)
      PROVE  TypeOK'
  <2>1. Finish(t)
    BY <1>12 DEF ExchangeFails
  <2>2. live' \subseteq issued' /\ issued' \subseteq Token
    <3>1. CASE UNCHANGED msf
      BY <3>1 DEF msf, TypeOK
    <3>2. CASE \E token \in Token : Issues(token) /\ live' = live \cup {token}
      BY <3>2, IssuesType DEF TypeOK
    <3> QED
      BY <1>12, <3>1, <3>2 DEF ExchangeFails
  <2> QED
    BY <1>12, <2>1, <2>2, FinishType DEF ExchangeFails, TypeOK, history
<1>13. ASSUME NEW t \in Task, Callback(t)
      PROVE  TypeOK'
  <2>1. job[t] # Idle /\ job[t] \in Job /\ job[t].token \in Stored
    BY <1>13, JobType DEF Callback, At, Job
  <2> DEFINE next == MovedTo(t, "exchanging", job[t].token)
  <2>2. /\ next \in Job /\ next.step = "exchanging" /\ next.token = job[t].token
        /\ job' = [job EXCEPT ![t] = next]
    BY <1>13, <2>1, GotoMoves DEF Callback, At
  <2> HIDE DEF next
  <2>3. Equipped(next)
    BY <2>1, <2>2 DEF Equipped
  <2>4. /\ job' \in [Task -> Job \cup {Idle}]
        /\ \A u \in Task : job'[u] # Idle => Equipped(job'[u])
    BY MoveType, <2>2, <2>3
  <2> QED
    BY <1>13, <2>1, <2>4 DEF Callback, TypeOK, msf, browser, history, Stored
<1>14. ASSUME NEW t \in Task, SaveLogin(t)
      PROVE  TypeOK'
  <2>1. job[t] # Idle /\ job[t] \in Job /\ job[t].token \in Stored
    BY <1>14, JobType DEF SaveLogin, At, Job
  <2> DEFINE next == MovedTo(t, "saved", job[t].token)
  <2>2. /\ next \in Job /\ next.step = "saved" /\ next.token = job[t].token
        /\ job' = [job EXCEPT ![t] = next]
    BY <1>14, <2>1, GotoMoves DEF SaveLogin, At
  <2> HIDE DEF next
  <2>3. Equipped(next)
    BY <2>1, <2>2 DEF Equipped
  <2>4. /\ job' \in [Task -> Job \cup {Idle}]
        /\ \A u \in Task : job'[u] # Idle => Equipped(job'[u])
    BY MoveType, <2>2, <2>3
  <2> QED
    BY <1>14, <2>1, <2>4 DEF SaveLogin, TypeOK, msf, browser, history, Stored
<1>15. ASSUME NEW t \in Task, KeepInMemory(t)
      PROVE  TypeOK'
  <2>1. job[t] # Idle /\ job[t] \in Job /\ job[t].token \in Stored
    BY <1>15, JobType DEF KeepInMemory, At, Job
  <2> DEFINE next == MovedTo(t, "saved", job[t].token)
  <2>2. /\ next \in Job /\ next.step = "saved" /\ next.token = job[t].token
        /\ job' = [job EXCEPT ![t] = next]
    BY <1>15, <2>1, GotoMoves DEF KeepInMemory, At
  <2> HIDE DEF next
  <2>3. Equipped(next)
    BY <2>1, <2>2 DEF Equipped
  <2>4. /\ job' \in [Task -> Job \cup {Idle}]
        /\ \A u \in Task : job'[u] # Idle => Equipped(job'[u])
    BY MoveType, <2>2, <2>3
  <2> QED
    BY <1>15, <2>1, <2>4 DEF KeepInMemory, TypeOK, msf, browser, history, Stored
<1>16. ASSUME NEW t \in Task, SaveTokens(t)
      PROVE  TypeOK'
  <2>1. job[t] # Idle /\ job[t] \in Job /\ job[t].token \in Stored
    BY <1>16, JobType DEF SaveTokens, At, Job
  <2> DEFINE next == MovedTo(t, "saved", job[t].token)
  <2>2. /\ next \in Job /\ next.step = "saved" /\ next.token = job[t].token
        /\ job' = [job EXCEPT ![t] = next]
    BY <1>16, <2>1, GotoMoves DEF SaveTokens, At
  <2> HIDE DEF next
  <2>3. Equipped(next)
    BY <2>1, <2>2 DEF Equipped
  <2>4. /\ job' \in [Task -> Job \cup {Idle}]
        /\ \A u \in Task : job'[u] # Idle => Equipped(job'[u])
    BY MoveType, <2>2, <2>3
  <2> QED
    BY <1>16, <2>1, <2>4 DEF SaveTokens, TypeOK, msf, browser, history, Stored
<1>17. ASSUME NEW t \in Task, ClearRaises(t)
      PROVE  TypeOK'
  <2>1. job[t] # Idle /\ job[t] \in Job /\ job[t].token \in Stored
    BY <1>17, JobType DEF ClearRaises, At, Job
  <2> DEFINE next == MovedTo(t, "unsure", job[t].token)
  <2>2. /\ next \in Job /\ next.step = "unsure" /\ next.token = job[t].token
        /\ job' = [job EXCEPT ![t] = next]
    BY <1>17, <2>1, GotoMoves DEF ClearRaises, At
  <2> HIDE DEF next
  <2>3. Equipped(next)
    BY <2>1, <2>2 DEF Equipped
  <2>4. /\ job' \in [Task -> Job \cup {Idle}]
        /\ \A u \in Task : job'[u] # Idle => Equipped(job'[u])
    BY MoveType, <2>2, <2>3
  <2> QED
    BY <1>17, <2>1, <2>4 DEF ClearRaises, TypeOK, msf, browser, history, Stored
<1>18. ASSUME NEW t \in Task, Load(t)
      PROVE  TypeOK'
  <2>1. job[t] # Idle /\ keychain \in Stored /\ keychain # NoItem
    BY <1>18 DEF Load, At, TypeOK
  <2> DEFINE next == MovedTo(t, "loaded", keychain)
  <2>2. /\ next \in Job /\ next.step = "loaded" /\ next.token = keychain
        /\ job' = [job EXCEPT ![t] = next]
    BY <1>18, <2>1, GotoMoves DEF Load, At
  <2> HIDE DEF next
  <2>3. Equipped(next)
    BY <2>1, <2>2 DEF Equipped
  <2>4. /\ job' \in [Task -> Job \cup {Idle}]
        /\ \A u \in Task : job'[u] # Idle => Equipped(job'[u])
    BY MoveType, <2>2, <2>3
  <2> QED
    BY <1>18, <2>1, <2>4 DEF Load, TypeOK, msf, browser, history, Stored
<1>19. ASSUME NEW t \in Task, Exchange(t)
      PROVE  TypeOK'
  <2>1. PICK token \in Stored :
          /\ Issues(token)
          /\ live' = live \cup ({token} \ {AccessOnly})
          /\ GotoWith(t, "obtained", token)
    BY <1>19 DEF Exchange
  <2>2. /\ job[t] # Idle /\ token \in Stored /\ token # NoItem
        /\ live' \subseteq issued' /\ issued' \subseteq Token
    BY <1>19, <2>1, IssuesType DEF Exchange, At, TypeOK
  <2> DEFINE next == MovedTo(t, "obtained", token)
  <2>3. /\ next \in Job /\ next.step = "obtained" /\ next.token = token
        /\ job' = [job EXCEPT ![t] = next]
    BY <1>19, <2>1, <2>2, GotoMoves DEF Exchange
  <2> HIDE DEF next
  <2>4. Equipped(next)
    BY <2>2, <2>3 DEF Equipped
  <2>5. /\ job' \in [Task -> Job \cup {Idle}]
        /\ \A u \in Task : job'[u] # Idle => Equipped(job'[u])
    BY MoveType, <2>3, <2>4
  <2> QED
    BY <1>19, <2>2, <2>5 DEF Exchange, TypeOK, history
<1>20. ASSUME NEW t \in Task, Renew(t)
      PROVE  TypeOK'
  <2>1. PICK renewed \in Token \cup {AccessOnly} :
          /\ Rotates(job[t].token, renewed)
          /\ GotoWith(t, "renewed", KeepRenewed(job[t].token, renewed))
    BY <1>20 DEF Renew
  <2> DEFINE token == KeepRenewed(job[t].token, renewed)
  <2>2. /\ job[t] # Idle /\ token \in Stored /\ token \in Token
        /\ live' \subseteq issued' /\ issued' \subseteq Token
    <3>1. job[t] # Idle /\ job[t].token \in Token
      BY <1>20 DEF Renew, Loaded, At
    <3>2. token \in Token
      BY <2>1, <3>1 DEF KeepRenewed
    <3>3. CASE renewed = AccessOnly
      <4>1. UNCHANGED msf
        BY <2>1, <3>3 DEF Rotates
      <4> QED
        BY <3>1, <3>2, <4>1 DEF msf, TypeOK, Stored
    <3>4. CASE renewed # AccessOnly
      <4>1. Issues(renewed) /\ live' = (live \ {job[t].token}) \cup {renewed}
        BY <2>1, <3>4 DEF Rotates
      <4>2. live' \subseteq issued' /\ issued' \subseteq Token
        BY <4>1, <2>1, <3>4, IssuesType DEF TypeOK
      <4> QED
        BY <3>1, <3>2, <4>2 DEF Stored
    <3> QED
      BY <3>3, <3>4
  <2> DEFINE next == MovedTo(t, "renewed", token)
  <2>3. /\ next \in Job /\ next.step = "renewed" /\ next.token = token
        /\ job' = [job EXCEPT ![t] = next]
    BY <2>1, <2>2, GotoMoves
  <2> HIDE DEF next
  <2>4. Equipped(next)
    BY <2>2, <2>3 DEF Equipped
  <2>5. /\ job' \in [Task -> Job \cup {Idle}]
        /\ \A u \in Task : job'[u] # Idle => Equipped(job'[u])
    BY MoveType, <2>3, <2>4
  <2> QED
    BY <1>20, <2>2, <2>5 DEF Renew, TypeOK, browser, history
<1>21. ASSUME NEW t \in Task, Serve(t)
      PROVE  TypeOK'
  <2>1. PICK a \in Attempt \ Tried :
          job' = [job EXCEPT ![t] = [@ EXCEPT !.step = "serving", !.attempt = a,
                                              !.left = Timeout]]
    BY <1>21 DEF Serve
  <2> DEFINE next == [job[t] EXCEPT !.step = "serving", !.attempt = a, !.left = Timeout]
  <2>2. job[t] \in Job /\ Timeout \in 0..Timeout /\ a \in Attempt
    BY <1>21, JobType DEF Serve, At
  <2>3. next \in Job /\ next.step = "serving" /\ next.attempt = a
    BY ONLY <2>2 DEF Job
  <2>4. Equipped(next)
    BY <2>2, <2>3 DEF Equipped
  <2>5. job' = [job EXCEPT ![t] = next]
    BY <2>1
  <2> HIDE DEF next
  <2>6. /\ job' \in [Task -> Job \cup {Idle}]
        /\ \A u \in Task : job'[u] # Idle => Equipped(job'[u])
    BY MoveType, <2>3, <2>5, <2>4
  <2> QED
    BY <1>21, <2>6 DEF Serve, TypeOK, msf, browser, history
<1>22. ASSUME NEW t \in Task, Tick(t)
      PROVE  TypeOK'
  <2> DEFINE next == [job[t] EXCEPT !.left = job[t].left - 1]
  <2>1. /\ job[t] \in Job /\ job[t].step = "serving"
        /\ job[t].attempt \in Attempt
    BY <1>22, JobType DEF Tick, At, TypeOK, Equipped
  <2>2. job[t].left \in 0..Timeout /\ job[t].left > 0
    BY <1>22, <2>1 DEF Tick, Job
  <2>3. job[t].left - 1 \in 0..Timeout
    BY <2>2
  <2>4. next \in Job /\ next.step = "serving" /\ next.attempt \in Attempt
    BY ONLY <2>1, <2>3 DEF Job
  <2>5. Equipped(next)
    BY <2>4 DEF Equipped
  <2>6. job' = [job EXCEPT ![t] = next]
    BY <1>22 DEF Tick
  <2> HIDE DEF next
  <2>7. /\ job' \in [Task -> Job \cup {Idle}]
        /\ \A u \in Task : job'[u] # Idle => Equipped(job'[u])
    BY MoveType, <2>4, <2>6, <2>5
  <2> QED
    BY <1>22, <2>7 DEF Tick, TypeOK, msf, browser, history
<1>23. ASSUME NEW t \in Task, Visit(t)
      PROVE  TypeOK'
  <2>1. job[t].attempt \in Attempt
    BY <1>23 DEF Visit, At, TypeOK, Equipped
  <2> QED
    BY <1>23, <2>1 DEF Visit, TypeOK, msf, history
<1>24. ASSUME NEW a \in Attempt, Allow(a)
      PROVE  TypeOK'
  BY <1>24 DEF Allow, TypeOK, msf, history
<1>25. CASE UNCHANGED vars
  BY <1>25 DEF vars, TypeOK
<1> QED
  BY <1>1, <1>2, <1>3, <1>4, <1>5, <1>6, <1>7, <1>8, <1>9, <1>10, <1>11, <1>12, <1>13, <1>14, <1>15, <1>16, <1>17, <1>18, <1>19, <1>20, <1>21, <1>22, <1>23, <1>24, <1>25 DEF Next, Proceed, Browse

\* A task's steps are those of its operation, it holds the tokens they need, and MSF
\* issued every refresh token it accepts.
THEOREM TypeCorrect == Spec => []TypeOK
  BY InitType, NextType, PTL DEF Spec

-----------------------------------------------------------------------------
(* One operation at a time                                                 *)

LEMMA Alone ==
  ASSUME OneCheckout, TypeOK, Exclusive,
         NEW t \in Task, job[t] # Idle, NEW u \in Task, job[u] # Idle
  PROVE  u = t
<1>1. job[t].checkout \in Checkout /\ job[u].checkout \in Checkout
  BY JobType DEF Job
<1>2. job[t].checkout = job[u].checkout
  BY <1>1 DEF OneCheckout
<1> QED
  BY <1>2 DEF Exclusive

\* The operation that ends was the only one.
LEMMA FinishSafe ==
  ASSUME OneCheckout, TypeOK, Safe, NEW t \in Task, job[t] # Idle, Finish(t),
         LogoutHolds', ~lost' /\ keychain' \in Token => keychain' \in live'
  PROVE  Safe'
<1>1. \A u \in Task : job'[u] = Idle
  <2>1. job'[t] = Idle /\ \A u \in Task : u # t => job'[u] = job[u]
    BY FinishType
  <2>2. \A u \in Task : u # t => job[u] = Idle
    BY Alone DEF Safe
  <2> QED
    BY <2>1, <2>2
<1>2. Exclusive' /\ Carried'
  BY <1>1 DEF Exclusive, Carried, At
<1>3. Usable'
  BY DEF Usable
<1> QED
  BY <1>2, <1>3 DEF Safe

\* What a job must be for Safe.
Fits(j, k, alive, out) ==
  /\ j.op \in SQ /\ j.step = "loaded" => j.token = k /\ ~out
  /\ j.op \in SQ /\ j.step = "renewed" => j.token \in alive /\ ~out
  /\ j.op = "login" /\ j.step = "obtained" /\ j.token \in Token => j.token \in alive

\* The operation that goes on is the only one.
LEMMA MoveSafe ==
  ASSUME OneCheckout, TypeOK, Safe, NEW t \in Task, job[t] # Idle,
         NEW next \in Job, Equipped(next), job' = [job EXCEPT ![t] = next],
         lock' = lock, next.checkout = job[t].checkout,
         Fits(next, keychain', live', signedOut'), LogoutHolds',
         ~lost' /\ keychain' \in Token =>
           keychain' \in live' \/ (next.op \in SQ /\ next.step = "renewed")
  PROVE  Safe'
<1>1. /\ job'[t] = next
      /\ \A u \in Task : u # t => job'[u] = Idle
  <2>1. job'[t] = next /\ \A u \in Task : u # t => job'[u] = job[u]
    BY MoveType
  <2>2. \A u \in Task : u # t => job[u] = Idle
    BY Alone DEF Safe
  <2> QED
    BY <2>1, <2>2
<1>2. Exclusive'
  BY <1>1 DEF Safe, Exclusive
<1>3. Carried'
  BY <1>1 DEF Carried, Fits, At, SQ
<1>4. Usable'
  BY <1>1, JobAssumption DEF Usable, At
<1> QED
  BY <1>2, <1>3, <1>4 DEF Safe

LEMMA InitSafe == Init => Safe
  BY SentinelAssumption
  DEF Init, Safe, Exclusive, Carried, LogoutHolds, Usable, At

\* A step at a time, the operations keep the sign-in usable and a logout final.
LEMMA NextSafe == OneCheckout /\ TypeOK /\ Safe /\ [Next]_vars => Safe'
<1> SUFFICES ASSUME OneCheckout, TypeOK, Safe, [Next]_vars
             PROVE  Safe'
  OBVIOUS
<1> USE SentinelAssumption, JobAssumption
\* No job but one that renewed a token covers for the Keychain's.
<1>1. ASSUME NEW t \in Task, job[t] # Idle, ~At(t, SQ, "renewed")
      PROVE  ~lost /\ keychain \in Token => keychain \in live
  <2>1. \A u \in Task : ~At(u, SQ, "renewed")
    BY <1>1, Alone DEF Safe, At
  <2> QED
    BY <2>1 DEF Safe, Usable
<1>2. ASSUME NEW t \in Task, NEW op \in {"login", "sync", "query", "logout"},
             NEW c \in Checkout, Start(t, op, c)
      PROVE  Safe'
  <2> DEFINE next == [op |-> op, step |-> "locked", checkout |-> c,
                      attempt |-> Nobody, left |-> 0, token |-> NoItem]
  <2>1. \A u \in Task : job[u] = Idle
    <3>1. ASSUME NEW u \in Task, job[u] # Idle
          PROVE  FALSE
      <4>1. job[u].checkout = c
        BY <3>1, JobType DEF Job, OneCheckout
      <4> QED
        BY <1>2, <3>1, <4>1 DEF Start, MayLock, Safe, Exclusive
    <3> QED
      BY <3>1
  <2>2. job' = [job EXCEPT ![t] = next] /\ lock' = [lock EXCEPT ![c] = t]
    BY <1>2 DEF Start
  <2>3. next.step = "locked" /\ next.checkout = c
    OBVIOUS
  <2> HIDE DEF next
  <2>4. job'[t] = next /\ (\A u \in Task : u # t => job'[u] = Idle) /\ lock'[c] = t
    BY <2>1, <2>2 DEF TypeOK
  <2>5. Exclusive' /\ Carried'
    BY <2>3, <2>4 DEF Exclusive, Carried, At
  <2>6. Usable' /\ LogoutHolds'
    BY <1>2, <2>1 DEF Start, Safe, Usable, LogoutHolds, At, msf, history
  <2> QED
    BY <2>5, <2>6 DEF Safe
<1>3. ASSUME NEW t \in Task, PortTaken(t)
      PROVE  Safe'
  <2>1. job[t] # Idle /\ Finish(t)
    BY <1>3 DEF PortTaken, At
  <2>2. LogoutHolds'
    BY <1>3 DEF PortTaken, Safe, LogoutHolds, msf, history
  <2>3. ~At(t, SQ, "renewed")
    BY <1>3 DEF PortTaken, At, SQ
  <2>4. ~lost' /\ keychain' \in Token => keychain' \in live'
    BY <1>3, <1>1, <2>1, <2>3 DEF PortTaken, msf, history
  <2> QED
    BY <2>1, <2>2, <2>4, FinishSafe
<1>4. ASSUME NEW t \in Task, Denied(t)
      PROVE  Safe'
  <2>1. job[t] # Idle /\ Finish(t)
    BY <1>4 DEF Denied, At
  <2>2. LogoutHolds'
    BY <1>4 DEF Denied, Safe, LogoutHolds, msf, history
  <2>3. ~At(t, SQ, "renewed")
    BY <1>4 DEF Denied, At, SQ
  <2>4. ~lost' /\ keychain' \in Token => keychain' \in live'
    BY <1>4, <1>1, <2>1, <2>3 DEF Denied, msf, history
  <2> QED
    BY <2>1, <2>2, <2>4, FinishSafe
<1>5. ASSUME NEW t \in Task, Expire(t)
      PROVE  Safe'
  <2>1. job[t] # Idle /\ Finish(t)
    BY <1>5 DEF Expire, At
  <2>2. LogoutHolds'
    BY <1>5 DEF Expire, Safe, LogoutHolds, msf, history
  <2>3. ~At(t, SQ, "renewed")
    BY <1>5 DEF Expire, At, SQ
  <2>4. ~lost' /\ keychain' \in Token => keychain' \in live'
    BY <1>5, <1>1, <2>1, <2>3 DEF Expire, msf, history
  <2> QED
    BY <2>1, <2>2, <2>4, FinishSafe
<1>6. ASSUME NEW t \in Task, NotSignedIn(t)
      PROVE  Safe'
  <2>1. job[t] # Idle /\ Finish(t)
    BY <1>6 DEF NotSignedIn, At
  <2>2. LogoutHolds'
    BY <1>6 DEF NotSignedIn, Safe, LogoutHolds, msf, history
  <2>3. ~At(t, SQ, "renewed")
    BY <1>6 DEF NotSignedIn, At, SQ
  <2>4. ~lost' /\ keychain' \in Token => keychain' \in live'
    BY <1>6, <1>1, <2>1, <2>3 DEF NotSignedIn, msf, history
  <2> QED
    BY <2>1, <2>2, <2>4, FinishSafe
<1>7. ASSUME NEW t \in Task, ExchangeFails(t)
      PROVE  Safe'
  <2>1. job[t] # Idle /\ Finish(t)
    BY <1>7 DEF ExchangeFails, At
  <2>2. LogoutHolds'
    BY <1>7 DEF ExchangeFails, Safe, LogoutHolds, msf, history
  <2>3. ~At(t, SQ, "renewed")
    BY <1>7 DEF ExchangeFails, At, SQ
  <2>4. ~lost' /\ keychain' \in Token => keychain' \in live'
    BY <1>7, <1>1, <2>1, <2>3 DEF ExchangeFails, msf, history
  <2> QED
    BY <2>1, <2>2, <2>4, FinishSafe
<1>8. ASSUME NEW t \in Task, Clear(t)
      PROVE  Safe'
  <2>1. job[t] # Idle /\ Finish(t)
    BY <1>8 DEF Clear, At, ReportSignedOut
  <2>2. LogoutHolds'
    BY <1>8 DEF Clear, Safe, LogoutHolds, msf, history, ReportSignedOut
  <2>3. ~At(t, SQ, "renewed")
    BY <1>8 DEF Clear, At, SQ, ReportSignedOut
  <2>4. ~lost' /\ keychain' \in Token => keychain' \in live'
    BY <1>8, <1>1, <2>1, <2>3 DEF Clear, msf, history, ReportSignedOut
  <2> QED
    BY <2>1, <2>2, <2>4, FinishSafe
<1>9. ASSUME NEW t \in Task, LookAgain(t)
      PROVE  Safe'
  <2>1. job[t] # Idle /\ Finish(t)
    BY <1>9 DEF LookAgain, At, ReportSignedOut, Gone
  <2>2. LogoutHolds'
    BY <1>9 DEF LookAgain, Safe, LogoutHolds, msf, history, ReportSignedOut, Gone
  <2>3. ~At(t, SQ, "renewed")
    BY <1>9 DEF LookAgain, At, SQ, ReportSignedOut, Gone
  <2>4. ~lost' /\ keychain' \in Token => keychain' \in live'
    BY <1>9, <1>1, <2>1, <2>3 DEF LookAgain, msf, history, ReportSignedOut, Gone
  <2> QED
    BY <2>1, <2>2, <2>4, FinishSafe
<1>10. ASSUME NEW t \in Task, Rejected(t)
      PROVE  Safe'
  <2>1. job[t] # Idle /\ Finish(t)
    BY <1>10 DEF Rejected, At, Loaded
  <2>2. LogoutHolds'
    BY <1>10 DEF Rejected, Safe, LogoutHolds, msf, history, Loaded
  <2>3. ~At(t, SQ, "renewed")
    BY <1>10 DEF Rejected, At, SQ, Loaded
  <2>4. ~lost' /\ keychain' \in Token => keychain' \in live'
    BY <1>10, <1>1, <2>1, <2>3 DEF Rejected, msf, history, Loaded
  <2> QED
    BY <2>1, <2>2, <2>4, FinishSafe
<1>11. ASSUME NEW t \in Task, RenewLost(t)
      PROVE  Safe'
  <2>1. job[t] # Idle /\ Finish(t)
    BY <1>11 DEF RenewLost, At, Loaded
  <2>2. LogoutHolds'
    BY <1>11 DEF RenewLost, Safe, LogoutHolds, msf, history, Loaded
  <2>3. lost'
    BY <1>11 DEF RenewLost
  <2> QED
    BY <2>1, <2>2, <2>3, FinishSafe
<1>12. ASSUME NEW t \in Task, Fetch(t)
      PROVE  Safe'
  <2>1. job[t] # Idle /\ Finish(t)
    BY <1>12 DEF Fetch, At
  <2>2. LogoutHolds'
    BY <1>12 DEF Fetch, Safe, LogoutHolds, msf, history
  <2>3. ~At(t, SQ, "renewed")
    BY <1>12 DEF Fetch, At, SQ
  <2>4. ~lost' /\ keychain' \in Token => keychain' \in live'
    BY <1>12, <1>1, <2>1, <2>3 DEF Fetch, msf, history
  <2> QED
    BY <2>1, <2>2, <2>4, FinishSafe
<1>13. ASSUME NEW t \in Task, Fail(t)
      PROVE  Safe'
  <2>1. job[t] # Idle /\ Finish(t)
    BY <1>13 DEF Fail, At
  <2>2. LogoutHolds'
    BY <1>13 DEF Fail, Safe, LogoutHolds, msf, history
  <2>3. ~lost' /\ keychain' \in Token => keychain' \in live'
    <3>1. CASE At(t, SQ, "renewed")
      BY <1>13, <3>1 DEF Fail, Safe, Carried, SQ, msf
    <3>2. CASE ~At(t, SQ, "renewed")
      BY <1>13, <1>1, <2>1, <3>2 DEF Fail, msf
    <3> QED
      BY <3>1, <3>2
  <2> QED
    BY <2>1, <2>2, <2>3, FinishSafe
<1>14. ASSUME NEW t \in Task, Callback(t)
      PROVE  Safe'
  <2>1. job[t] # Idle /\ job[t].token \in Stored
    BY <1>14, JobType DEF Callback, At, Job
  <2> DEFINE next == MovedTo(t, "exchanging", job[t].token)
  <2>2. /\ next \in Job /\ next.step = "exchanging" /\ next.token = job[t].token
        /\ next.op = job[t].op /\ next.checkout = job[t].checkout
        /\ job' = [job EXCEPT ![t] = next]
    BY <1>14, <2>1, GotoMoves DEF Callback
  <2> HIDE DEF next
  <2>3. Equipped(next)
    BY <1>14, <2>1, <2>2 DEF Equipped, Callback
  <2>4. Fits(next, keychain', live', signedOut')
    BY <2>2 DEF Fits, SQ
  <2>5. LogoutHolds' /\ lock' = lock
    BY <1>14 DEF Callback, Safe, LogoutHolds, msf, history
  <2>6. ~lost' /\ keychain' \in Token =>
          keychain' \in live' \/ (next.op \in SQ /\ next.step = "renewed")
    BY <1>14, <1>1, <2>1 DEF Callback, At, SQ, msf, history
  <2> QED
    BY <2>1, <2>2, <2>3, <2>4, <2>5, <2>6, MoveSafe DEF Fits
<1>15. ASSUME NEW t \in Task, Load(t)
      PROVE  Safe'
  <2>1. job[t] # Idle /\ keychain \in Stored
    BY <1>15 DEF Load, At, TypeOK
  <2> DEFINE next == MovedTo(t, "loaded", keychain)
  <2>2. /\ next \in Job /\ next.step = "loaded" /\ next.token = keychain
        /\ next.op = job[t].op /\ next.checkout = job[t].checkout
        /\ job' = [job EXCEPT ![t] = next]
    BY <1>15, <2>1, GotoMoves DEF Load
  <2> HIDE DEF next
  <2>3. Equipped(next)
    BY <1>15, <2>1, <2>2 DEF Equipped, Load
  <2>4. Fits(next, keychain', live', signedOut')
    BY <1>15, <2>1, <2>2 DEF Fits, SQ, Load, Safe, LogoutHolds, history
  <2>5. LogoutHolds' /\ lock' = lock
    BY <1>15 DEF Load, Safe, LogoutHolds, msf, history
  <2>6. ~lost' /\ keychain' \in Token =>
          keychain' \in live' \/ (next.op \in SQ /\ next.step = "renewed")
    BY <1>15, <1>1, <2>1 DEF Load, At, SQ, msf, history
  <2> QED
    BY <2>1, <2>2, <2>3, <2>4, <2>5, <2>6, MoveSafe DEF Fits
<1>16. ASSUME NEW t \in Task, Exchange(t)
      PROVE  Safe'
  <2>1. PICK token \in Stored :
          /\ Issues(token)
          /\ live' = live \cup ({token} \ {AccessOnly})
          /\ GotoWith(t, "obtained", token)
    BY <1>16 DEF Exchange
  <2>2. job[t] # Idle /\ token \in Stored
    BY <1>16, <2>1 DEF Exchange, At
  <2> DEFINE next == MovedTo(t, "obtained", token)
  <2>3. /\ next \in Job /\ next.step = "obtained" /\ next.token = token
        /\ next.op = job[t].op /\ next.checkout = job[t].checkout
        /\ job' = [job EXCEPT ![t] = next]
    BY <2>1, <2>2, GotoMoves DEF Exchange
  <2> HIDE DEF next
  <2>4. Equipped(next)
    BY <1>16, <2>1, <2>3 DEF Equipped, Issues
  <2>5. Fits(next, keychain', live', signedOut')
    BY <1>16, <2>1, <2>3 DEF Fits, SQ, Exchange, At
  <2>6. LogoutHolds' /\ lock' = lock
    BY <1>16 DEF Exchange, Safe, LogoutHolds, msf, history
  <2>7. ~lost' /\ keychain' \in Token =>
          keychain' \in live' \/ (next.op \in SQ /\ next.step = "renewed")
    BY <1>16, <1>1, <2>1, <2>2 DEF Exchange, At, SQ, history
  <2> QED
    BY <2>2, <2>3, <2>4, <2>5, <2>6, <2>7, MoveSafe DEF Fits
<1>17. ASSUME NEW t \in Task, SaveLogin(t)
      PROVE  Safe'
  <2>1. job[t] # Idle /\ job[t].token \in Stored
    BY <1>17, JobType DEF SaveLogin, At, Job
  <2> DEFINE next == MovedTo(t, "saved", job[t].token)
  <2>2. /\ next \in Job /\ next.step = "saved" /\ next.token = job[t].token
        /\ next.op = job[t].op /\ next.checkout = job[t].checkout
        /\ job' = [job EXCEPT ![t] = next]
    BY <1>17, <2>1, GotoMoves DEF SaveLogin
  <2> HIDE DEF next
  <2>3. Equipped(next)
    BY <1>17, <2>1, <2>2 DEF Equipped, SaveLogin
  <2>4. Fits(next, keychain', live', signedOut')
    BY <2>2 DEF Fits, SQ
  <2>5. LogoutHolds' /\ lock' = lock
    BY <1>17 DEF SaveLogin, Safe, LogoutHolds, msf, history
  <2>6. ~lost' /\ keychain' \in Token =>
          keychain' \in live' \/ (next.op \in SQ /\ next.step = "renewed")
    BY <1>17 DEF SaveLogin, Safe, Carried, msf
  <2> QED
    BY <2>1, <2>2, <2>3, <2>4, <2>5, <2>6, MoveSafe DEF Fits
<1>18. ASSUME NEW t \in Task, KeepInMemory(t)
      PROVE  Safe'
  <2>1. job[t] # Idle /\ job[t].token \in Stored
    BY <1>18, JobType DEF KeepInMemory, At, Job
  <2> DEFINE next == MovedTo(t, "saved", job[t].token)
  <2>2. /\ next \in Job /\ next.step = "saved" /\ next.token = job[t].token
        /\ next.op = job[t].op /\ next.checkout = job[t].checkout
        /\ job' = [job EXCEPT ![t] = next]
    BY <1>18, <2>1, GotoMoves DEF KeepInMemory
  <2> HIDE DEF next
  <2>3. Equipped(next)
    BY <1>18, <2>1, <2>2 DEF Equipped, KeepInMemory
  <2>4. Fits(next, keychain', live', signedOut')
    BY <2>2 DEF Fits, SQ
  <2>5. LogoutHolds' /\ lock' = lock
    BY <1>18 DEF KeepInMemory, Safe, LogoutHolds, msf, history
  <2>6. ~lost' /\ keychain' \in Token =>
          keychain' \in live' \/ (next.op \in SQ /\ next.step = "renewed")
    BY <1>18, <1>1, <2>1 DEF KeepInMemory, At, SQ, msf, history
  <2> QED
    BY <2>1, <2>2, <2>3, <2>4, <2>5, <2>6, MoveSafe DEF Fits
<1>19. ASSUME NEW t \in Task, SaveTokens(t)
      PROVE  Safe'
  <2>1. job[t] # Idle /\ job[t].token \in Stored
    BY <1>19, JobType DEF SaveTokens, At, Job
  <2> DEFINE next == MovedTo(t, "saved", job[t].token)
  <2>2. /\ next \in Job /\ next.step = "saved" /\ next.token = job[t].token
        /\ next.op = job[t].op /\ next.checkout = job[t].checkout
        /\ job' = [job EXCEPT ![t] = next]
    BY <1>19, <2>1, GotoMoves DEF SaveTokens
  <2> HIDE DEF next
  <2>3. Equipped(next)
    BY <1>19, <2>1, <2>2 DEF Equipped, SaveTokens
  <2>4. Fits(next, keychain', live', signedOut')
    BY <2>2 DEF Fits, SQ
  <2>5. LogoutHolds' /\ lock' = lock
    BY <1>19 DEF SaveTokens, Safe, Carried, LogoutHolds, SQ, history
  <2>6. ~lost' /\ keychain' \in Token =>
          keychain' \in live' \/ (next.op \in SQ /\ next.step = "renewed")
    BY <1>19 DEF SaveTokens, Safe, Carried, SQ, msf
  <2> QED
    BY <2>1, <2>2, <2>3, <2>4, <2>5, <2>6, MoveSafe DEF Fits
<1>20. ASSUME NEW t \in Task, ClearRaises(t)
      PROVE  Safe'
  <2>1. job[t] # Idle /\ job[t].token \in Stored
    BY <1>20, JobType DEF ClearRaises, At, Job
  <2> DEFINE next == MovedTo(t, "unsure", job[t].token)
  <2>2. /\ next \in Job /\ next.step = "unsure" /\ next.token = job[t].token
        /\ next.op = job[t].op /\ next.checkout = job[t].checkout
        /\ job' = [job EXCEPT ![t] = next]
    BY <1>20, <2>1, GotoMoves DEF ClearRaises
  <2> HIDE DEF next
  <2>3. Equipped(next)
    BY <1>20, <2>1, <2>2 DEF Equipped, ClearRaises
  <2>4. Fits(next, keychain', live', signedOut')
    BY <2>2 DEF Fits, SQ
  <2>5. LogoutHolds' /\ lock' = lock
    BY <1>20 DEF ClearRaises, Safe, LogoutHolds, msf, history
  <2>6. ~lost' /\ keychain' \in Token =>
          keychain' \in live' \/ (next.op \in SQ /\ next.step = "renewed")
    BY <1>20, <1>1, <2>1 DEF ClearRaises, At, SQ, msf, history
  <2> QED
    BY <2>1, <2>2, <2>3, <2>4, <2>5, <2>6, MoveSafe DEF Fits
<1>21. ASSUME NEW t \in Task, Renew(t)
      PROVE  Safe'
  <2>1. PICK renewed \in Token \cup {AccessOnly} :
          /\ Rotates(job[t].token, renewed)
          /\ GotoWith(t, "renewed", KeepRenewed(job[t].token, renewed))
    BY <1>21 DEF Renew
  <2> DEFINE token == KeepRenewed(job[t].token, renewed)
  <2>2. job[t] # Idle /\ token \in Stored
    BY <1>21, <2>1 DEF Renew, Loaded, At, KeepRenewed, Stored
  <2> DEFINE next == MovedTo(t, "renewed", token)
  <2>3. /\ next \in Job /\ next.step = "renewed" /\ next.token = token
        /\ next.op = job[t].op /\ next.checkout = job[t].checkout
        /\ job' = [job EXCEPT ![t] = next]
    BY <2>1, <2>2, GotoMoves
  <2> HIDE DEF next
  <2>4. Equipped(next)
    BY <1>21, <2>1, <2>2, <2>3 DEF Equipped, Renew, Loaded, KeepRenewed
  <2>5. token \in live' /\ ~signedOut'
    <3>1. /\ job[t].token \in live /\ job[t].token \in Token
          /\ At(t, SQ, "loaded") /\ signedOut' = signedOut
      BY <1>21 DEF Renew, Loaded, SQ, history
    <3>2. token \in live'
      BY <2>1, <3>1 DEF Rotates, KeepRenewed, msf
    <3> QED
      BY <3>1, <3>2 DEF Safe, Carried
  <2>6. Fits(next, keychain', live', signedOut')
    BY <2>3, <2>5 DEF Fits, SQ, Renew
  <2>7. LogoutHolds' /\ lock' = lock
    BY <1>21 DEF Renew, Safe, LogoutHolds, msf, history
  <2>8. ~lost' /\ keychain' \in Token =>
          keychain' \in live' \/ (next.op \in SQ /\ next.step = "renewed")
    BY <1>21, <2>3 DEF Renew, Loaded, At, SQ
  <2> QED
    BY <2>2, <2>3, <2>4, <2>6, <2>7, <2>8, MoveSafe DEF Fits
<1>22. ASSUME NEW t \in Task, Serve(t)
      PROVE  Safe'
  <2>1. PICK a \in Attempt \ Tried :
          job' = [job EXCEPT ![t] = [@ EXCEPT !.step = "serving", !.attempt = a,
                                              !.left = Timeout]]
    BY <1>22 DEF Serve
  <2> DEFINE next == [job[t] EXCEPT !.step = "serving", !.attempt = a, !.left = Timeout]
  <2>2. job[t] # Idle /\ job[t] \in Job /\ Timeout \in 0..Timeout /\ a \in Attempt
    BY <1>22, JobType, TimeoutAssumption DEF Serve, At
  <2>3. /\ next \in Job /\ next.step = "serving" /\ next.attempt \in Attempt
        /\ next.checkout = job[t].checkout
    BY ONLY <2>2 DEF Job
  <2>4. job' = [job EXCEPT ![t] = next]
    BY <2>1
  <2> HIDE DEF next
  <2>5. Equipped(next) /\ Fits(next, keychain', live', signedOut')
    BY <2>3 DEF Equipped, Fits
  <2>6. LogoutHolds' /\ lock' = lock
    BY <1>22 DEF Serve, Safe, LogoutHolds, history
  <2>7. ~lost' /\ keychain' \in Token => keychain' \in live'
    BY <1>22, <1>1, <2>2 DEF Serve, At, SQ, msf, history
  <2> QED
    BY <2>2, <2>3, <2>4, <2>5, <2>6, <2>7, MoveSafe DEF Fits
<1>23. ASSUME NEW t \in Task, Tick(t)
      PROVE  Safe'
  <2> DEFINE next == [job[t] EXCEPT !.left = @ - 1]
  <2>1. job[t] # Idle /\ job[t] \in Job /\ job[t].step = "serving"
    BY <1>23, JobType DEF Tick, At
  <2>2. job[t].left - 1 \in 0..Timeout /\ job[t].attempt \in Attempt
    <3>1. job[t].left \in 0..Timeout /\ job[t].left > 0
      BY <1>23, <2>1 DEF Tick, Job
    <3>2. job[t].attempt \in Attempt
      BY <2>1 DEF TypeOK, Equipped
    <3> QED
      BY <3>1, <3>2, TimeoutAssumption
  <2>3. /\ next \in Job /\ next.step = "serving" /\ next.attempt \in Attempt
        /\ next.checkout = job[t].checkout
    BY ONLY <2>1, <2>2 DEF Job
  <2>4. job' = [job EXCEPT ![t] = next]
    BY <1>23 DEF Tick
  <2> HIDE DEF next
  <2>5. Equipped(next) /\ Fits(next, keychain', live', signedOut')
    BY <2>3 DEF Equipped, Fits
  <2>6. LogoutHolds' /\ lock' = lock
    BY <1>23 DEF Tick, Safe, LogoutHolds, history
  <2>7. ~lost' /\ keychain' \in Token => keychain' \in live'
    BY <1>23, <1>1, <2>1 DEF Tick, At, SQ, msf, history
  <2> QED
    BY <2>1, <2>3, <2>4, <2>5, <2>6, <2>7, MoveSafe DEF Fits
<1>24. ASSUME NEW t \in Task, Visit(t)
      PROVE  Safe'
  BY <1>24 DEF Visit, Safe, Exclusive, Carried, LogoutHolds, Usable, At, msf, history
<1>25. ASSUME NEW a \in Attempt, Allow(a)
      PROVE  Safe'
  BY <1>25 DEF Allow, Safe, Exclusive, Carried, LogoutHolds, Usable, At, msf, history
<1>26. CASE UNCHANGED vars
  BY <1>26 DEF vars, Safe, Exclusive, Carried, LogoutHolds, Usable, At
<1> QED
  BY <1>2, <1>3, <1>4, <1>5, <1>6, <1>7, <1>8, <1>9, <1>10, <1>11, <1>12, <1>13, <1>14, <1>15, <1>16, <1>17, <1>18, <1>19, <1>20, <1>21, <1>22, <1>23, <1>24, <1>25, <1>26 DEF Next, Proceed, Browse

\* Every reachable state of a single checkout is Safe.
LEMMA SafeAlways == ASSUME OneCheckout PROVE Spec => [](TypeOK /\ Safe)
<1>1. Init => TypeOK /\ Safe
  BY InitType, InitSafe
<1>2. TypeOK /\ Safe /\ [Next]_vars => (TypeOK /\ Safe)'
  BY NextType, NextSafe
<1> QED
  BY <1>1, <1>2, PTL DEF Spec

\* With one checkout, every operation leaves the sign-in usable, whatever fails, expires
\* or is interrupted: only a renewal whose answer or whose save is lost breaks it.
THEOREM SignInSurvives == ASSUME OneCheckout PROVE Spec => []SignInUsable
<1>1. TypeOK /\ Safe => SignInUsable
  <2> SUFFICES ASSUME TypeOK, Safe, ~lost
               PROVE  /\ keychain \in Token =>
                           keychain \in live \/ \E k \in live : Successor(k)
                      /\ \A t \in Task : Loaded(t) => job[t].token \in live
    BY DEF SignInUsable
  <2>1. ASSUME keychain \in Token
        PROVE  keychain \in live \/ \E k \in live : Successor(k)
    BY <2>1 DEF Safe, Usable, Carried, Successor, SQ
  <2>2. ASSUME NEW t \in Task, Loaded(t)
        PROVE  job[t].token \in live
    <3>1. job[t] # Idle /\ At(t, SQ, "loaded") /\ ~At(t, SQ, "renewed")
      BY <2>2 DEF Loaded, At, SQ
    <3>2. \A u \in Task : ~At(u, SQ, "renewed")
      BY <3>1, Alone DEF Safe, At
    <3>3. job[t].token = keychain /\ keychain \in Token
      BY <2>2, <3>1 DEF Safe, Carried, Loaded
    <3> QED
      BY <3>2, <3>3 DEF Safe, Usable
  <2> QED
    BY <2>1, <2>2
<1> QED
  BY <1>1, SafeAlways, PTL

\* With one checkout, no operation brings back what a reported logout removed.
THEOREM LogoutIsFinal == ASSUME OneCheckout PROVE Spec => []LogoutHolds
<1>1. TypeOK /\ Safe => LogoutHolds
  BY DEF Safe
<1> QED
  BY <1>1, SafeAlways, PTL
=============================================================================
