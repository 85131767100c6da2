------------------------ MODULE HostedAccountProofs ------------------------
(***************************************************************************)
(* Proofs about HostedAccount, for any number of players, tokens, permits  *)
(* and concurrent calls.                                                   *)
(***************************************************************************)
EXTENDS HostedAccount, FiniteSetTheorems, TLAPS

\* Where a call holds the lock of its player.
Inside == {"locked", "loaded", "renewed", "saved", "fetching", "opened",
           "deactivated", "revoked"}

\* Which calls reach which step, and which of them have a player.
Shape ==
  \A t \in Task : job[t] # Idle =>
    /\ job[t].step \in {"excluding", "exclusive", "copied"} <=> job[t].op = "backup"
    /\ job[t].step = "signing_in" => job[t].op = "login" /\ job[t].identity \in Identity
    /\ job[t].step \in {"loaded", "renewed", "saved"} => job[t].op \in {"refresh", "query"}
    /\ job[t].step = "fetching" => job[t].op = "refresh"
    /\ job[t].step = "opened" => job[t].op = "advise"
    /\ job[t].step \in {"deactivated", "revoked"} => job[t].op = "delete"
    /\ job[t].player = Nobody <=>
         job[t].step \in {"signing_in", "excluding", "exclusive", "copied"}

\* Locks are held by the calls that are past them, and by nobody else.
Holding ==
  /\ \A t \in Task :
       t \in shared <=> job[t] # Idle /\ job[t].step \in Inside \cup {"waiting"}
  /\ \A t \in Task : exclusive = t <=> job[t] # Idle /\ job[t].step \in {"exclusive", "copied"}
  /\ exclusive # Nobody => shared = {}
  /\ \A t \in Task : job[t] # Idle /\ job[t].step \in Inside => lock[job[t].player] = t
  /\ \A p \in Player : lock[p] # Nobody =>
       /\ job[lock[p]] # Idle
       /\ job[lock[p]].player = p
       /\ job[lock[p]].step \in Inside

\* TypeOK without the capacity.
Typed ==
  /\ status \in [Player -> {"unknown", "active", "inactive"}]
  /\ owner \in [Player -> Identity \cup {Nobody}]
  /\ tokens \in [Player -> Stored]
  /\ data \in [Player -> SUBSET Entry]
  /\ live \subseteq issued /\ issued \subseteq Token
  /\ shared \subseteq Task
  /\ exclusive \in Task \cup {Nobody}
  /\ lock \in [Player -> Task \cup {Nobody}]
  /\ job \in [Task -> Job \cup {Idle}]
  /\ staging \in Copy \cup {Nothing}
  /\ lost \subseteq Player /\ torn \subseteq Player

Locked == Typed /\ Shape /\ Holding

-----------------------------------------------------------------------------
(* What a step does to the calls                                           *)

LEMMA FinishJob ==
  ASSUME Typed, NEW t \in Task, Finish(t)
  PROVE  /\ job'[t] = Idle
         /\ \A u \in Task \ {t} : job'[u] = job[u]
         /\ job' \in [Task -> Job \cup {Idle}]
         /\ shared' \subseteq Task
         /\ exclusive' \in Task \cup {Nobody}
         /\ lock' \in [Player -> Task \cup {Nobody}]
         /\ staging' \in Copy \cup {Nothing}
  BY DEF Typed, Finish

\* Task t moves on to a step, with a token in its hands.
Moved(t, step, token) ==
  /\ job[t] # Idle
  /\ job'[t] # Idle
  /\ \A u \in Task \ {t} : job'[u] = job[u]
  /\ job' \in [Task -> Job \cup {Idle}]
  /\ job'[t].op = job[t].op
  /\ job'[t].step = step
  /\ job'[t].player = job[t].player
  /\ job'[t].identity = job[t].identity
  /\ job'[t].token = token

LEMMA GotoJob ==
  ASSUME Typed, NEW t \in Task, job[t] # Idle, NEW step \in Step, Goto(t, step)
  PROVE  Moved(t, step, job[t].token)
<1>1. job[t] \in Job
  BY DEF Typed
<1>2. job'[t] = [job[t] EXCEPT !.step = step]
  BY DEF Typed, Goto
<1>3. /\ job'[t].op = job[t].op /\ job'[t].step = step /\ job'[t].player = job[t].player
      /\ job'[t].identity = job[t].identity /\ job'[t].token = job[t].token
      /\ job'[t] \in Job
  BY <1>1, <1>2 DEF Job
<1>4. \A u \in Task \ {t} : job'[u] = job[u]
  BY DEF Typed, Goto
<1>5. job' \in [Task -> Job \cup {Idle}]
  BY <1>3, <1>2 DEF Typed, Goto
<1> QED
  BY <1>3, <1>4, <1>5, JobAssumption DEF Moved

LEMMA GotoWithJob ==
  ASSUME Typed, NEW t \in Task, job[t] # Idle, NEW step \in Step, NEW token \in Stored,
         GotoWith(t, step, token)
  PROVE  Moved(t, step, token)
<1>1. job[t] \in Job
  BY DEF Typed
<1>2. job'[t] = [job[t] EXCEPT !.step = step, !.token = token]
  BY DEF Typed, GotoWith
<1>3. /\ job'[t].op = job[t].op /\ job'[t].step = step /\ job'[t].player = job[t].player
      /\ job'[t].identity = job[t].identity /\ job'[t].token = token
      /\ job'[t] \in Job
  BY <1>1, <1>2 DEF Job
<1>4. \A u \in Task \ {t} : job'[u] = job[u]
  BY DEF Typed, GotoWith
<1>5. job' \in [Task -> Job \cup {Idle}]
  BY <1>3, <1>2 DEF Typed, GotoWith
<1> QED
  BY <1>3, <1>4, <1>5, JobAssumption DEF Moved

-----------------------------------------------------------------------------
(* Locks                                                                   *)

\* The end of a call gives up what it held and nothing else.
LEMMA FinishLocks ==
  ASSUME Locked, NEW t \in Task, Finish(t)
  PROVE  Shape' /\ Holding'
<1>1. /\ job'[t] = Idle
      /\ \A u \in Task \ {t} : job'[u] = job[u]
  BY FinishJob DEF Locked
<1>2. Shape'
  BY <1>1 DEF Locked, Shape
<1>3. \A u \in Task : u \in shared' <=> job'[u] # Idle /\ job'[u].step \in Inside \cup {"waiting"}
  BY <1>1 DEF Finish, Locked, Holding
<1>4. \A u \in Task : exclusive' = u <=>
        job'[u] # Idle /\ job'[u].step \in {"exclusive", "copied"}
  BY <1>1, SentinelAssumption DEF Finish, Locked, Holding
<1>5. exclusive' # Nobody => shared' = {}
  BY SentinelAssumption DEF Finish, Locked, Holding
<1>6. \A u \in Task : job'[u] # Idle /\ job'[u].step \in Inside => lock'[job'[u].player] = u
  <2> SUFFICES ASSUME NEW u \in Task, job'[u] # Idle, job'[u].step \in Inside
               PROVE  lock'[job'[u].player] = u
    OBVIOUS
  <2>1. u # t /\ job'[u] = job[u]
    BY <1>1
  <2>2. lock[job[u].player] = u
    BY <2>1 DEF Locked, Holding
  <2>3. job[u].player \in Player
    BY <2>1 DEF Locked, Typed, Shape, Job, Inside
  <2> QED
    BY <2>1, <2>2, <2>3 DEF Finish
<1>7. \A p \in Player : lock'[p] # Nobody =>
        /\ job'[lock'[p]] # Idle /\ job'[lock'[p]].player = p /\ job'[lock'[p]].step \in Inside
  BY <1>1 DEF Finish, Locked, Typed, Holding
<1> QED
  BY <1>2, <1>3, <1>4, <1>5, <1>6, <1>7 DEF Holding

\* Under the lock, a call moves on with its locks.
LEMMA InsideLocks ==
  ASSUME Locked, NEW t \in Task, NEW step \in Inside, NEW token, Moved(t, step, token),
         job[t].step \in Inside, UNCHANGED <<shared, exclusive, lock>>
  PROVE  Holding'
  BY DEF Locked, Typed, Holding, Inside, Moved

\* The locks move with a call that stays inside; its shape is told by its op.
LEMMA InsideStep ==
  ASSUME Locked, NEW t \in Task, NEW step \in Inside, NEW token, Moved(t, step, token),
         job[t].step \in Inside, UNCHANGED <<shared, exclusive, lock>>,
         step \in {"loaded", "renewed", "saved"} => job[t].op \in {"refresh", "query"},
         step = "fetching" => job[t].op = "refresh",
         step = "opened" => job[t].op = "advise",
         step \in {"deactivated", "revoked"} => job[t].op = "delete"
  PROVE  Shape' /\ Holding'
<1>1. Holding'
  BY InsideLocks
<1>2. Shape'
  BY DEF Locked, Shape, Moved, Inside
<1> QED
  BY <1>1, <1>2

\* A new call holds nothing yet.
LEMMA ArriveLocks ==
  ASSUME Locked, NEW t \in Task, job[t] = Idle, NEW new \in Job,
         job' = [job EXCEPT ![t] = new], UNCHANGED <<shared, exclusive, lock>>,
         \/ /\ new.op \in {"refresh", "query", "advise", "delete"}
            /\ new.step = "entering" /\ new.player \in Player
         \/ /\ new.op = "login" /\ new.step = "signing_in" /\ new.player = Nobody
            /\ new.identity \in Identity
         \/ /\ new.op = "backup" /\ new.step = "excluding" /\ new.player = Nobody
  PROVE  /\ job' \in [Task -> Job \cup {Idle}]
         /\ Shape' /\ Holding'
<1>1. /\ job'[t] = new /\ new # Idle
      /\ \A u \in Task \ {t} : job'[u] = job[u]
      /\ job' \in [Task -> Job \cup {Idle}]
  BY JobAssumption DEF Locked, Typed
<1>2. Shape'
  BY <1>1, SentinelAssumption DEF Locked, Shape
<1>3. \A u \in Task : u \in shared' <=> job'[u] # Idle /\ job'[u].step \in Inside \cup {"waiting"}
  BY <1>1 DEF Locked, Holding, Inside
<1>4. \A u \in Task : exclusive' = u <=>
        job'[u] # Idle /\ job'[u].step \in {"exclusive", "copied"}
  BY <1>1 DEF Locked, Holding
<1>5. \A u \in Task : job'[u] # Idle /\ job'[u].step \in Inside => lock'[job'[u].player] = u
  BY <1>1 DEF Locked, Holding, Inside
<1>6. \A p \in Player : lock'[p] # Nobody =>
        /\ job'[lock'[p]] # Idle /\ job'[lock'[p]].player = p /\ job'[lock'[p]].step \in Inside
  BY <1>1 DEF Locked, Typed, Holding
<1>7. exclusive' # Nobody => shared' = {}
  BY DEF Locked, Holding
<1>8. Holding'
  BY <1>3, <1>4, <1>5, <1>6, <1>7 DEF Holding
<1> QED
  BY <1>1, <1>2, <1>8

LEMMA InitLocked == Init => Locked
  BY SentinelAssumption DEF Init, Locked, Typed, Shape, Holding, Stored

\* Calls that are over: the steps that end with Finish.
Over(t) ==
  \/ Refuse(t)
  \/ TimeOut(t)
  \/ SaveLogin(t)
  \/ NotSignedIn(t)
  \/ RenewLost(t)
  \/ Rejected(t)
  \/ Answer(t)
  \/ WriteSnapshot(t)
  \/ UseData(t)
  \/ RemoveData(t)
  \/ Publish(t)
  \/ Fail(t)

\* A call past the maintenance lock has a player.
LEMMA HasPlayer ==
  ASSUME Locked, NEW t \in Task, job[t] # Idle,
         job[t].step \notin {"signing_in", "excluding", "exclusive", "copied"}
  PROVE  Mine(t) \in Player
  BY DEF Locked, Typed, Shape, Job, Mine

LEMMA OverLocked ==
  ASSUME Locked, NEW t \in Task, Over(t)
  PROVE  Locked'
<1>1. Finish(t)
  BY DEF Over, Refuse, TimeOut, SaveLogin, NotSignedIn, RenewLost, Rejected, Answer,
         WriteSnapshot, UseData, RemoveData, Publish, Fail
<1>2. Shape' /\ Holding'
  BY <1>1, FinishLocks
<1>3. /\ status' = status /\ owner' = owner
  BY DEF Over, Refuse, TimeOut, SaveLogin, NotSignedIn, RenewLost, Rejected, Answer,
         WriteSnapshot, UseData, RemoveData, Publish, Fail, tables
<1>4. tokens' \in [Player -> Stored]
  <2>1. CASE SaveLogin(t)
    BY <2>1 DEF SaveLogin, Locked, Typed, At, Job
  <2>2. CASE ~SaveLogin(t)
    BY <2>2 DEF Over, Refuse, TimeOut, NotSignedIn, RenewLost, Rejected, Answer,
         WriteSnapshot, UseData, RemoveData, Publish, Fail, tables, Locked, Typed
  <2> QED
    BY <2>1, <2>2
<1>5. data' \in [Player -> SUBSET Entry]
  <2>1. CASE WriteSnapshot(t)
    BY <2>1 DEF WriteSnapshot, Locked, Typed, Entry
  <2>2. CASE UseData(t)
    <3>1. PICK written \in SUBSET Entry : data' = [data EXCEPT ![Mine(t)] = @ \cup written]
      BY <2>2 DEF UseData, Entry
    <3> QED
      BY <3>1 DEF Locked, Typed
  <2>3. CASE RemoveData(t)
    BY <2>3 DEF RemoveData, Locked, Typed
  <2>4. CASE Fail(t)
    <3>1. CASE UNCHANGED data
      BY <3>1 DEF Locked, Typed
    <3>2. CASE ~UNCHANGED data
      <4>1. Mine(t) \in Player
        BY <2>4, <3>2, HasPlayer DEF Fail, At
      <4>2. PICK left \in SUBSET data[Mine(t)] : data' = [data EXCEPT ![Mine(t)] = left]
        BY <2>4, <3>2 DEF Fail
      <4> QED
        BY <4>1, <4>2 DEF Locked, Typed
    <3> QED
      BY <3>1, <3>2
  <2>5. CASE ~(WriteSnapshot(t) \/ UseData(t) \/ RemoveData(t) \/ Fail(t))
    BY <2>5 DEF Over, Refuse, TimeOut, SaveLogin, NotSignedIn, RenewLost, Rejected, Answer,
         Publish, Locked, Typed
  <2> QED
    BY <2>1, <2>2, <2>3, <2>4, <2>5
<1>6. live' \subseteq issued' /\ issued' \subseteq Token
  <2>1. CASE RenewLost(t)
    BY <2>1 DEF RenewLost, Rotates, msf, Locked, Typed
  <2>2. CASE ~RenewLost(t)
    BY <2>2 DEF Over, Refuse, TimeOut, SaveLogin, NotSignedIn, Rejected, Answer,
         WriteSnapshot, UseData, RemoveData, Publish, Fail, msf, Locked, Typed
  <2> QED
    BY <2>1, <2>2
<1>7. lost' \subseteq Player /\ torn' \subseteq Player
  <2>1. CASE RenewLost(t)
    BY <2>1, HasPlayer DEF RenewLost, Loaded, At, Locked, Typed
  <2>2. CASE SaveLogin(t)
    BY <2>2 DEF SaveLogin, Locked, Typed
  <2>3. CASE Fail(t)
    BY <2>3 DEF Fail, Unsaved, Deleting, Locked, Typed
  <2>4. CASE ~(RenewLost(t) \/ SaveLogin(t) \/ Fail(t))
    BY <2>4 DEF Over, Refuse, TimeOut, NotSignedIn, Rejected, Answer,
         WriteSnapshot, UseData, RemoveData, Publish, history, Locked, Typed
  <2> QED
    BY <2>1, <2>2, <2>3, <2>4
<1> QED
  BY <1>1, <1>2, <1>3, <1>4, <1>5, <1>6, <1>7, FinishJob DEF Locked, Typed

\* A call of the given kind at the given step goes on.
LEMMA GoesOn ==
  ASSUME Locked, NEW t \in Task, NEW step \in Step, NEW token \in Stored, job[t] # Idle,
         \/ Goto(t, step) /\ token = job[t].token
         \/ GotoWith(t, step, token)
  PROVE  Moved(t, step, token)
  BY GotoJob, GotoWithJob DEF Locked

\* The steps inside the player lock that leave the call in progress.
Works(t) ==
  \/ LoadTokens(t)
  \/ Renew(t)
  \/ SaveTokens(t)
  \/ OpenDirectory(t)
  \/ OpenData(t)
  \/ Deactivate(t)
  \/ RevokePlayer(t)

\* What such a step does to its call.
Advances(t) ==
  \E step \in Inside, token \in Stored :
    /\ Moved(t, step, token)
    /\ job[t].step \in Inside
    /\ step \in {"loaded", "renewed", "saved"} => job[t].op \in {"refresh", "query"}
    /\ step = "fetching" => job[t].op = "refresh"
    /\ step = "opened" => job[t].op = "advise"
    /\ step \in {"deactivated", "revoked"} => job[t].op = "delete"

LEMMA WorksAdvances ==
  ASSUME Locked, NEW t \in Task, Works(t)
  PROVE  Advances(t)
<1> USE DEF Inside, Step
<1>1. job[t] # Idle /\ job[t] \in Job /\ job[t].step \in Inside
  BY DEF Works, LoadTokens, Renew, SaveTokens, OpenDirectory, OpenData, Deactivate,
         RevokePlayer, Loaded, At, Locked, Typed
<1>2. job[t].token \in Stored /\ Mine(t) \in Player
  BY <1>1, HasPlayer DEF Job
<1>3. CASE LoadTokens(t)
  <2>1. tokens[Mine(t)] \in Stored
    BY <1>2 DEF Locked, Typed
  <2>2. Moved(t, "loaded", tokens[Mine(t)])
    BY <1>1, <1>3, <2>1, GoesOn DEF LoadTokens
  <2>3. job[t].op \in {"refresh", "query"}
    BY <1>3 DEF LoadTokens, At
  <2> QED
    BY <1>1, <2>1, <2>2, <2>3 DEF Advances
<1>4. CASE Renew(t)
  <2>1. PICK renewed \in Token \cup {NoRow} :
          GotoWith(t, "renewed", KeepRenewed(job[t].token, renewed))
    BY <1>4 DEF Renew
  <2>2. KeepRenewed(job[t].token, renewed) \in Stored
    BY <1>2 DEF KeepRenewed, Stored
  <2>3. Moved(t, "renewed", KeepRenewed(job[t].token, renewed))
    BY <1>1, <2>1, <2>2, GoesOn
  <2>4. job[t].op \in {"refresh", "query"}
    BY <1>4 DEF Renew, Loaded, At
  <2> QED
    BY <1>1, <2>2, <2>3, <2>4 DEF Advances
<1>5. CASE SaveTokens(t)
  <2>1. Moved(t, "saved", job[t].token)
    BY <1>1, <1>2, <1>5, GoesOn DEF SaveTokens
  <2>2. job[t].op \in {"refresh", "query"}
    BY <1>5 DEF SaveTokens, At
  <2> QED
    BY <1>1, <1>2, <2>1, <2>2 DEF Advances
<1>6. CASE OpenDirectory(t)
  <2>1. Moved(t, "fetching", job[t].token)
    BY <1>1, <1>2, <1>6, GoesOn DEF OpenDirectory
  <2>2. job[t].op = "refresh"
    BY <1>6 DEF OpenDirectory, At
  <2> QED
    BY <1>1, <1>2, <2>1, <2>2 DEF Advances
<1>7. CASE OpenData(t)
  <2>1. Moved(t, "opened", job[t].token)
    BY <1>1, <1>2, <1>7, GoesOn DEF OpenData
  <2>2. job[t].op = "advise"
    BY <1>7 DEF OpenData, At
  <2> QED
    BY <1>1, <1>2, <2>1, <2>2 DEF Advances
<1>8. CASE Deactivate(t)
  <2>1. Moved(t, "deactivated", job[t].token)
    BY <1>1, <1>2, <1>8, GoesOn DEF Deactivate
  <2>2. job[t].op = "delete"
    BY <1>8 DEF Deactivate, At
  <2> QED
    BY <1>1, <1>2, <2>1, <2>2 DEF Advances
<1>9. CASE RevokePlayer(t)
  <2>1. Moved(t, "revoked", job[t].token)
    BY <1>1, <1>2, <1>9, GoesOn DEF RevokePlayer
  <2>2. job[t].op = "delete"
    BY <1>9 DEF RevokePlayer, At
  <2> QED
    BY <1>1, <1>2, <2>1, <2>2 DEF Advances
<1> QED
  BY <1>3, <1>4, <1>5, <1>6, <1>7, <1>8, <1>9 DEF Works

LEMMA WorksLocked ==
  ASSUME Locked, NEW t \in Task, Works(t)
  PROVE  Locked'
<1>1. PICK step \in Inside, token \in Stored :
        /\ Moved(t, step, token)
        /\ job[t].step \in Inside
        /\ step \in {"loaded", "renewed", "saved"} => job[t].op \in {"refresh", "query"}
        /\ step = "fetching" => job[t].op = "refresh"
        /\ step = "opened" => job[t].op = "advise"
        /\ step \in {"deactivated", "revoked"} => job[t].op = "delete"
  BY WorksAdvances DEF Advances
<1>2. UNCHANGED <<owner, locks, staging, torn>> /\ lost' \subseteq lost
  <2>1. CASE Deactivate(t)
    BY <2>1 DEF Deactivate
  <2>2. CASE ~Deactivate(t)
    BY <2>2 DEF Works, LoadTokens, Renew, SaveTokens, OpenDirectory, OpenData,
         RevokePlayer, tables, history
  <2> QED
    BY <2>1, <2>2
<1>3. Shape' /\ Holding'
  BY <1>1, <1>2, InsideStep DEF locks
<1>4. job[t] # Idle /\ job[t] \in Job /\ Mine(t) \in Player
  BY <1>1, HasPlayer DEF Moved, Locked, Typed, Inside
<1>5. /\ status' \in [Player -> {"unknown", "active", "inactive"}]
      /\ tokens' \in [Player -> Stored]
  BY <1>4 DEF Works, LoadTokens, Renew, SaveTokens, OpenDirectory, OpenData, Deactivate,
         RevokePlayer, tables, Locked, Typed, Job, Stored
<1>6. data' \in [Player -> SUBSET Entry]
  BY <1>4 DEF Works, LoadTokens, Renew, SaveTokens, OpenDirectory, OpenData, Deactivate,
         RevokePlayer, Locked, Typed, Entry
<1>7. live' \subseteq issued' /\ issued' \subseteq Token
  <2>1. CASE Renew(t)
    BY <2>1 DEF Renew, Rotates, msf, Locked, Typed
  <2>2. CASE ~Renew(t)
    BY <2>2 DEF Works, LoadTokens, SaveTokens, OpenDirectory, OpenData, Deactivate,
         RevokePlayer, msf, Locked, Typed
  <2> QED
    BY <2>1, <2>2
<1> QED
  BY <1>1, <1>2, <1>3, <1>5, <1>6, <1>7 DEF Moved, Locked, Typed, locks, history

LEMMA ArriveLocked ==
  ASSUME Locked, NEW t \in Task, Arrive(t)
  PROVE  Locked'
<1>1. CASE \E op \in Op, p \in Player : Start(t, op, p)
  <2>1. PICK op \in Op, p \in Player : Start(t, op, p)
    BY <1>1
  <2> DEFINE new == [op |-> op, step |-> "entering", player |-> p,
                     identity |-> Nobody, token |-> NoRow]
  <2>2. new \in Job /\ new.op \in {"refresh", "query", "advise", "delete"}
    BY <2>1 DEF Start, Job, Op, Step, Stored
  <2>3. job[t] = Idle /\ job' = [job EXCEPT ![t] = new] /\ UNCHANGED <<shared, exclusive, lock>>
    BY <2>1 DEF Start
  <2>4. job' \in [Task -> Job \cup {Idle}] /\ Shape' /\ Holding'
    BY <2>2, <2>3, ArriveLocks
  <2> QED
    BY <2>1, <2>4 DEF Start, Locked, Typed, tables, msf, history
<1>2. CASE \E i \in Identity : Callback(t, i)
  <2>1. PICK i \in Identity : Callback(t, i)
    BY <1>2
  <2>2. PICK token \in {AccessOnly} \cup (Token \ issued) :
          /\ issued' = issued \cup ({token} \ {AccessOnly})
          /\ live' = live \cup ({token} \ {AccessOnly})
          /\ job' = [job EXCEPT ![t] = [op |-> "login", step |-> "signing_in",
                                        player |-> Nobody, identity |-> i, token |-> token]]
    BY <2>1 DEF Callback
  <2> DEFINE new == [op |-> "login", step |-> "signing_in", player |-> Nobody,
                     identity |-> i, token |-> token]
  <2>3. new \in Job
    BY DEF Job, Op, Step, Stored
  <2>4. job[t] = Idle /\ UNCHANGED <<shared, exclusive, lock>>
    BY <2>1 DEF Callback, locks
  <2>5. job' \in [Task -> Job \cup {Idle}] /\ Shape' /\ Holding'
    BY <2>2, <2>3, <2>4, ArriveLocks
  <2>6. live' \subseteq issued' /\ issued' \subseteq Token
    BY <2>2 DEF Locked, Typed
  <2> QED
    BY <2>1, <2>5, <2>6 DEF Callback, Locked, Typed, tables, locks, history
<1>3. CASE StartBackup(t)
  <2> DEFINE new == [op |-> "backup", step |-> "excluding", player |-> Nobody,
                     identity |-> Nobody, token |-> NoRow]
  <2>1. new \in Job
    BY DEF Job, Op, Step, Stored
  <2>2. job[t] = Idle /\ job' = [job EXCEPT ![t] = new] /\ UNCHANGED <<shared, exclusive, lock>>
    BY <1>3 DEF StartBackup, locks
  <2>3. job' \in [Task -> Job \cup {Idle}] /\ Shape' /\ Holding'
    BY <2>1, <2>2, ArriveLocks
  <2> QED
    BY <1>3, <2>3 DEF StartBackup, Locked, Typed, tables, msf, locks, history
<1> QED
  BY <1>1, <1>2, <1>3 DEF Arrive

LEMMA SignInLocked ==
  ASSUME Locked, NEW t \in Task, SignIn(t)
  PROVE  Locked'
<1>1. PICK p \in Player :
        /\ status' = [status EXCEPT ![p] = "active"]
        /\ owner' = [owner EXCEPT ![p] = job[t].identity]
        /\ job' = [job EXCEPT ![t] = [@ EXCEPT !.step = "entering", !.player = p]]
  BY DEF SignIn
<1>2. job[t] # Idle /\ job[t] \in Job /\ job[t].step = "signing_in" /\ job[t].op = "login"
  BY DEF SignIn, At, Locked, Typed
<1>3. job[t].identity \in Identity
  BY <1>2 DEF Locked, Shape
<1>4. job'[t] = [job[t] EXCEPT !.step = "entering", !.player = p]
  BY <1>1 DEF Locked, Typed
<1>5. /\ job'[t] \in Job /\ job'[t].step = "entering" /\ job'[t].player = p
      /\ job'[t].op = "login"
  BY <1>2, <1>4 DEF Job, Step
<1>6. /\ \A u \in Task \ {t} : job'[u] = job[u]
      /\ job' \in [Task -> Job \cup {Idle}]
  BY <1>1, <1>4, <1>5 DEF Locked, Typed
<1>7. UNCHANGED <<shared, exclusive, lock>>
  BY DEF SignIn, locks
<1>8. Shape'
  BY <1>5, <1>6, SentinelAssumption DEF Locked, Shape
<1>9. Holding'
  BY <1>2, <1>5, <1>6, <1>7, JobAssumption DEF Locked, Typed, Holding, Inside
<1>10. /\ status' \in [Player -> {"unknown", "active", "inactive"}]
       /\ owner' \in [Player -> Identity \cup {Nobody}]
  BY <1>1, <1>3 DEF Locked, Typed
<1> QED
  BY <1>6, <1>8, <1>9, <1>10 DEF SignIn, Locked, Typed, msf, locks, history

LEMMA EnterLocked ==
  ASSUME Locked, NEW t \in Task, Enter(t) \/ LockPlayer(t)
  PROVE  Locked'
<1>1. job[t] # Idle /\ job[t].step \in {"entering", "waiting"} /\ Mine(t) \in Player
  BY HasPlayer DEF Enter, LockPlayer, Entering, Waiting
<1>2. job[t].token \in Stored
  BY <1>1 DEF Locked, Typed, Job
<1>3. UNCHANGED <<tables, data, msf, exclusive, staging, history>>
  BY DEF Enter, LockPlayer
<1>4. CASE Enter(t)
  <2>1. Moved(t, "waiting", job[t].token)
    BY <1>1, <1>2, <1>4, GoesOn DEF Enter, Step
  <2>2. Shape'
    BY <1>1, <2>1 DEF Moved, Locked, Shape
  <2>3. job[t].step = "entering" /\ shared' = shared \cup {t} /\ UNCHANGED lock
        /\ exclusive = Nobody
    BY <1>4 DEF Enter, Entering
  <2>4. Holding'
    BY <1>3, <2>1, <2>3 DEF Moved, Locked, Typed, Holding, Inside
  <2> QED
    BY <1>3, <2>1, <2>2, <2>3, <2>4 DEF Moved, Locked, Typed, tables, msf, history
<1>5. CASE LockPlayer(t)
  <2>1. Moved(t, "locked", job[t].token)
    BY <1>1, <1>2, <1>5, GoesOn DEF LockPlayer, Step
  <2>2. Shape'
    BY <1>1, <2>1 DEF Moved, Locked, Shape
  <2>3. /\ job[t].step = "waiting" /\ lock[Mine(t)] = Nobody /\ UNCHANGED shared
        /\ lock' = [lock EXCEPT ![Mine(t)] = t]
    BY <1>5 DEF LockPlayer, Waiting, MayLock
  <2>4. \A u \in Task \ {t} : job[u] # Idle /\ job[u].step \in Inside =>
          job[u].player # Mine(t)
    BY <2>3, SentinelAssumption DEF Locked, Holding
  <2>5. \A u \in Task : job'[u] # Idle /\ job'[u].step \in Inside => lock'[job'[u].player] = u
    <3> SUFFICES ASSUME NEW u \in Task, job'[u] # Idle, job'[u].step \in Inside
                 PROVE  lock'[job'[u].player] = u
      OBVIOUS
    <3>1. CASE u = t
      BY <1>1, <2>1, <2>3, <3>1 DEF Moved, Mine, Locked, Typed
    <3>2. CASE u # t
      <4>1. job'[u] = job[u] /\ lock[job[u].player] = u /\ job[u].player # Mine(t)
        BY <2>1, <2>4, <3>2 DEF Moved, Locked, Holding
      <4>2. job[u].player \in Player
        BY <4>1, HasPlayer DEF Mine, Inside
      <4> QED
        BY <2>3, <4>1, <4>2 DEF Locked, Typed
    <3> QED
      BY <3>1, <3>2
  <2>6. \A p \in Player : lock'[p] # Nobody =>
          /\ job'[lock'[p]] # Idle /\ job'[lock'[p]].player = p /\ job'[lock'[p]].step \in Inside
    <3> TAKE p \in Player
    <3>1. CASE p = Mine(t)
      BY <1>1, <2>1, <2>3, <3>1 DEF Moved, Mine, Locked, Typed, Inside
    <3>2. CASE p # Mine(t)
      <4>1. lock'[p] = lock[p]
        BY <2>3, <3>2 DEF Locked, Typed
      <4>2. lock[p] # Nobody => lock[p] # t
        BY <2>3 DEF Locked, Holding, Inside
      <4> QED
        BY <2>1, <4>1, <4>2 DEF Moved, Locked, Typed, Holding
    <3> QED
      BY <3>1, <3>2
  <2>7. \A u \in Task :
          u \in shared' <=> job'[u] # Idle /\ job'[u].step \in Inside \cup {"waiting"}
    BY <2>1, <2>3 DEF Moved, Locked, Holding, Inside
  <2>8. \A u \in Task : exclusive' = u <=>
          job'[u] # Idle /\ job'[u].step \in {"exclusive", "copied"}
    BY <1>3, <2>1, <2>3 DEF Moved, Locked, Holding
  <2>9. exclusive' # Nobody => shared' = {}
    BY <1>3, <2>3 DEF Locked, Holding
  <2>10. Holding'
    BY <2>5, <2>6, <2>7, <2>8, <2>9 DEF Holding
  <2>11. lock' \in [Player -> Task \cup {Nobody}]
    BY <2>3 DEF Locked, Typed
  <2> QED
    BY <1>3, <2>1, <2>2, <2>3, <2>10, <2>11 DEF Moved, Locked, Typed, tables, msf, history
<1> QED
  BY <1>4, <1>5

LEMMA BackupLocked ==
  ASSUME Locked, NEW t \in Task, Exclude(t) \/ CopyDatabase(t)
  PROVE  Locked'
<1>1. job[t] # Idle /\ job[t].step \in {"excluding", "exclusive"} /\ job[t] \in Job
  BY DEF Exclude, CopyDatabase, At, Locked, Typed
<1>2. job[t].token \in Stored
  BY <1>1 DEF Job
<1>3. UNCHANGED <<tables, data, msf, shared, lock, history>>
  BY DEF Exclude, CopyDatabase, locks
<1>4. CASE Exclude(t)
  <2>1. Moved(t, "exclusive", job[t].token)
    BY <1>1, <1>2, <1>4, GoesOn DEF Exclude, Step
  <2>2. Shape'
    BY <1>1, <2>1 DEF Moved, Locked, Shape
  <2>3. /\ job[t].step = "excluding" /\ exclusive = Nobody /\ shared = {}
        /\ exclusive' = t /\ staging' = staging
    BY <1>4 DEF Exclude, MayExclude, At
  <2>4. Holding'
    BY <1>3, <2>1, <2>3, SentinelAssumption DEF Moved, Locked, Typed, Holding, Inside
  <2> QED
    BY <1>3, <2>1, <2>2, <2>3, <2>4 DEF Moved, Locked, Typed, tables, msf, history
<1>5. CASE CopyDatabase(t)
  <2>1. Moved(t, "copied", job[t].token)
    BY <1>1, <1>2, <1>5, GoesOn DEF CopyDatabase, Step
  <2>2. Shape'
    BY <1>1, <2>1 DEF Moved, Locked, Shape
  <2>3. job[t].step = "exclusive" /\ UNCHANGED exclusive
    BY <1>5 DEF CopyDatabase, At, locks
  <2>4. Holding'
    BY <1>3, <2>1, <2>3 DEF Moved, Locked, Typed, Holding, Inside
  <2>5. staging' \in Copy
    BY <1>5 DEF CopyDatabase, Locked, Typed, Copy
  <2> QED
    BY <1>3, <2>1, <2>2, <2>3, <2>4, <2>5 DEF Moved, Locked, Typed, tables, msf, history
<1> QED
  BY <1>4, <1>5

LEMMA CrashLocked ==
  ASSUME Locked, Crash
  PROVE  Locked'
<1>1. \A t \in Task : job'[t] = Idle
  BY DEF Crash
<1>2. Shape' /\ Holding'
  BY <1>1, SentinelAssumption DEF Crash, Shape, Holding
<1>3. lost' \subseteq Player /\ torn' \subseteq Player
  BY DEF Crash, Unsaved, Deleting, Locked, Typed
<1> QED
  BY <1>2, <1>3 DEF Crash, Locked, Typed, tables, msf

LEMMA NextSplit ==
  ASSUME NEW t \in Task, Proceed(t) \/ Fail(t)
  PROVE  \/ Over(t) \/ Works(t) \/ SignIn(t) \/ Enter(t) \/ LockPlayer(t)
         \/ Exclude(t) \/ CopyDatabase(t)
  BY DEF Proceed, Over, Works

LEMMA NextLocked == Locked /\ [Next]_vars => Locked'
<1> SUFFICES ASSUME Locked, [Next]_vars
             PROVE  Locked'
  OBVIOUS
<1>1. ASSUME NEW t \in Task, Arrive(t) \/ Proceed(t) \/ Fail(t)
      PROVE  Locked'
  BY <1>1, NextSplit, ArriveLocked, OverLocked, WorksLocked, SignInLocked, EnterLocked,
     BackupLocked
<1>2. CASE Crash
  BY <1>2, CrashLocked
<1>3. CASE UNCHANGED vars
  BY <1>3 DEF vars, Locked, Typed, Shape, Holding
<1> QED
  BY <1>1, <1>2, <1>3 DEF Next

LEMMA LocksInvariant == Spec => []Locked
  BY InitLocked, NextLocked, PTL DEF Spec

-----------------------------------------------------------------------------
(* The maintenance lock                                                    *)

\* The maintenance lock as the calls hold it, each by itself: here no call inherits another's
\* hold, as the threads of MaintenanceLease do.
Groups ==
  {[exclusive |-> FALSE, members |-> {t}] : t \in shared}
    \cup {[exclusive |-> TRUE, members |-> {t}] : t \in {exclusive} \cap Task}

Maintenance == INSTANCE MaintenanceLock WITH Section <- Task, groups <- Groups

LEMMA OpenGroup ==
  ASSUME Locked, NEW t \in Task, job[t] # Idle, job[t].step \in {"entering", "excluding"},
         exclusive = Nobody,
         \/ shared' = shared \cup {t} /\ UNCHANGED exclusive
         \/ shared = {} /\ exclusive' = t /\ UNCHANGED shared
  PROVE  Maintenance!Next
<1>1. t \notin shared /\ exclusive \notin Task
  BY SentinelAssumption DEF Locked, Holding, Inside
<1>2. Groups = {[exclusive |-> FALSE, members |-> {u}] : u \in shared}
  BY <1>1 DEF Groups
<1>3. Maintenance!Out(t) /\ \A g \in Groups : ~g.exclusive
  BY <1>1, <1>2 DEF Maintenance!Out
<1>4. CASE shared' = shared \cup {t} /\ UNCHANGED exclusive
  <2>1. Groups' = Groups \cup {[exclusive |-> FALSE, members |-> {t}]}
    BY <1>1, <1>4 DEF Groups
  <2> QED
    BY <1>3, <2>1 DEF Maintenance!Next, Maintenance!Open
<1>5. CASE shared = {} /\ exclusive' = t /\ UNCHANGED shared
  <2>1. Groups = {} /\ Groups' = {[exclusive |-> TRUE, members |-> {t}]}
    BY <1>2, <1>5 DEF Groups
  <2> QED
    BY <1>3, <2>1 DEF Maintenance!Next, Maintenance!Open
<1> QED
  BY <1>4, <1>5

\* Calls that end, one or all, leave the others' groups as they are.
LEMMA LeaveGroups ==
  ASSUME Locked, NEW S \in SUBSET Task, shared' = shared \ S,
         exclusive' = IF exclusive \in S THEN Nobody ELSE exclusive
  PROVE  Maintenance!Next
<1>1. \A g \in Groups : \E t \in Task : g.members = {t}
  BY DEF Groups, Locked, Typed
<1>2. Groups' = {g \in Groups : ~(g.members \subseteq S)}
  BY SentinelAssumption DEF Groups
<1>3. \A g \in Groups : ~(g.members \subseteq S) => [g EXCEPT !.members = @ \ S] = g
  BY <1>1 DEF Groups
<1>4. Groups' = {[g EXCEPT !.members = @ \ S] : g \in {h \in Groups : ~(h.members \subseteq S)}}
  BY <1>2, <1>3
<1> QED
  BY <1>4 DEF Maintenance!Next, Maintenance!Leave

\* The locking of the calls implements the maintenance lock that MaintenanceLease implements
\* with its leases: whatever calls do, end or die in, an exclusive holder is alone, and every
\* hold is given up with its call.  (HostedStore.maintenance, hosted_store.py:186-225)
THEOREM CallsImplementLock == Spec => Maintenance!Spec
<1>1. Init => Maintenance!Init
  BY SentinelAssumption DEF Init, Groups, Maintenance!Init
<1>2. ASSUME Locked, [Next]_vars PROVE [Maintenance!Next]_Groups
  <2>1. ASSUME UNCHANGED <<shared, exclusive>> PROVE UNCHANGED Groups
    BY <2>1 DEF Groups
  <2>2. ASSUME NEW t \in Task, Over(t) PROVE Maintenance!Next
    <3>1. Finish(t)
      BY <2>2 DEF Over, Refuse, TimeOut, SaveLogin, NotSignedIn, RenewLost, Rejected, Answer,
             WriteSnapshot, UseData, RemoveData, Publish, Fail
    <3> QED
      BY <1>2, <3>1, LeaveGroups DEF Finish
  <2>3. ASSUME NEW t \in Task, Enter(t) \/ Exclude(t) PROVE Maintenance!Next
    BY <1>2, <2>3, OpenGroup DEF Enter, Exclude, MayExclude, Entering, At
  <2>4. ASSUME NEW t \in Task,
               Works(t) \/ SignIn(t) \/ LockPlayer(t) \/ CopyDatabase(t) \/ Arrive(t)
        PROVE  UNCHANGED <<shared, exclusive>>
    BY <2>4 DEF Works, LoadTokens, Renew, SaveTokens, OpenDirectory, OpenData, Deactivate,
           RevokePlayer, SignIn, LockPlayer, CopyDatabase, Arrive, Start, Callback, StartBackup,
           locks
  <2>5. ASSUME Crash PROVE Maintenance!Next
    <3>1. shared' = shared \ Task
      BY <1>2, <2>5 DEF Crash, Locked, Typed
    <3>2. exclusive' = IF exclusive \in Task THEN Nobody ELSE exclusive
      BY <1>2, <2>5 DEF Crash, Locked, Typed
    <3> QED
      BY <1>2, <3>1, <3>2, LeaveGroups
  <2> QED
    BY <1>2, <2>1, <2>2, <2>3, <2>4, <2>5, NextSplit DEF Next, vars
<1>3. Locked /\ [Next]_vars => [Maintenance!Next]_Groups
  BY <1>2
<1> QED
  BY <1>1, <1>3, LocksInvariant, PTL DEF Spec, Maintenance!Spec

-----------------------------------------------------------------------------
(* Permits                                                                 *)

\* The calls that were given a permit.
Charged == {t \in Task : job[t] # Idle /\ TakesPermit(job[t].op)}

Balanced == capacity \in Nat /\ capacity + Cardinality(Charged) = Permits

LEMMA ChargedFinite == IsFiniteSet(Charged) /\ Cardinality(Charged) \in Nat
  BY TaskAssumption, FS_Subset, FS_CardinalityType DEF Charged

\* A permit comes back with the call that took it.
LEMMA FinishBalanced ==
  ASSUME Locked, Balanced, NEW t \in Task, job[t] # Idle, Finish(t)
  PROVE  Balanced'
<1>1. Charged' = Charged \ {t}
  BY FinishJob DEF Locked, Charged
<1>2. CASE t \in Charged
  <2>1. Cardinality(Charged') = Cardinality(Charged) - 1
    BY <1>1, <1>2, ChargedFinite, FS_RemoveElement
  <2>2. capacity' = capacity + 1
    BY <1>2 DEF Finish, Charged
  <2> QED
    BY <2>1, <2>2, ChargedFinite DEF Balanced
<1>3. CASE t \notin Charged
  <2>1. Charged' = Charged /\ capacity' = capacity
    BY <1>1, <1>3 DEF Finish, Charged
  <2> QED
    BY <2>1 DEF Balanced
<1> QED
  BY <1>2, <1>3

\* A call that stays in progress keeps its permit.
LEMMA KeepBalanced ==
  ASSUME Balanced, UNCHANGED capacity,
         \A u \in Task : job'[u] # Idle <=> job[u] # Idle,
         \A u \in Task : job[u] # Idle => job'[u].op = job[u].op
  PROVE  Balanced'
<1>1. Charged' = Charged
  BY DEF Charged
<1> QED
  BY <1>1 DEF Balanced

LEMMA StartBalanced ==
  ASSUME Locked, Balanced, NEW t \in Task, job[t] = Idle, NEW new \in Job,
         job' = [job EXCEPT ![t] = new],
         IF TakesPermit(new.op) THEN capacity > 0 /\ capacity' = capacity - 1
                                ELSE capacity' = capacity
  PROVE  Balanced'
<1>1. job'[t] = new /\ new # Idle /\ \A u \in Task \ {t} : job'[u] = job[u]
  BY JobAssumption DEF Locked, Typed
<1>2. t \notin Charged
  BY DEF Charged
<1>3. CASE TakesPermit(new.op)
  <2>1. Charged' = Charged \cup {t}
    BY <1>1, <1>3 DEF Charged
  <2>2. Cardinality(Charged') = Cardinality(Charged) + 1
    BY <1>2, <2>1, ChargedFinite, FS_AddElement
  <2> QED
    BY <1>3, <2>2, ChargedFinite, PermitAssumption DEF Balanced
<1>4. CASE ~TakesPermit(new.op)
  <2>1. Charged' = Charged
    BY <1>1, <1>2, <1>4 DEF Charged
  <2> QED
    BY <1>4, <2>1 DEF Balanced
<1> QED
  BY <1>3, <1>4

LEMMA InitBalanced == Init => Balanced
<1> SUFFICES ASSUME Init
             PROVE  Balanced
  OBVIOUS
<1>1. Charged = {}
  BY DEF Init, Charged
<1>2. Cardinality({}) = 0
  BY FS_EmptySet
<1> QED
  BY <1>1, <1>2, PermitAssumption DEF Init, Balanced

LEMMA NextBalanced == Locked /\ Balanced /\ [Next]_vars => Balanced'
<1> SUFFICES ASSUME Locked, Balanced, [Next]_vars
             PROVE  Balanced'
  OBVIOUS
<1>1. ASSUME NEW t \in Task, Over(t)
      PROVE  Balanced'
  <2>1. Finish(t) /\ job[t] # Idle
    BY <1>1 DEF Over, Refuse, TimeOut, SaveLogin, NotSignedIn, RenewLost, Rejected, Answer,
         WriteSnapshot, UseData, RemoveData, Publish, Fail, Entering, Waiting, Blocked, At,
         Loaded
  <2> QED
    BY <2>1, FinishBalanced
<1>2. ASSUME NEW t \in Task, Works(t)
      PROVE  Balanced'
  <2>1. PICK step \in Inside, token \in Stored : Moved(t, step, token)
    BY <1>2, WorksAdvances DEF Advances
  <2>2. UNCHANGED capacity
    BY <1>2 DEF Works, LoadTokens, Renew, SaveTokens, OpenDirectory, OpenData, Deactivate,
         RevokePlayer, locks
  <2> QED
    BY <2>1, <2>2, KeepBalanced DEF Moved
<1>3. ASSUME NEW t \in Task, SignIn(t)
      PROVE  Balanced'
  <2>1. PICK p \in Player :
          job' = [job EXCEPT ![t] = [@ EXCEPT !.step = "entering", !.player = p]]
    BY <1>3 DEF SignIn
  <2>2. job[t] # Idle /\ job[t] \in Job /\ UNCHANGED capacity
    BY <1>3 DEF SignIn, At, locks, Locked, Typed
  <2>3. job'[t] = [job[t] EXCEPT !.step = "entering", !.player = p]
    BY <2>1 DEF Locked, Typed
  <2>4. job'[t] \in Job /\ job'[t].op = job[t].op
    BY <2>2, <2>3 DEF Job, Step
  <2>5. \A u \in Task \ {t} : job'[u] = job[u]
    BY <2>1 DEF Locked, Typed
  <2> QED
    BY <2>2, <2>4, <2>5, JobAssumption, KeepBalanced
<1>4. ASSUME NEW t \in Task, Enter(t) \/ LockPlayer(t) \/ Exclude(t) \/ CopyDatabase(t)
      PROVE  Balanced'
  <2>1. job[t] # Idle /\ job[t].token \in Stored /\ UNCHANGED capacity
    BY <1>4 DEF Enter, LockPlayer, Exclude, CopyDatabase, Entering, Waiting, At, locks,
         Locked, Typed, Job
  <2>2. \E step \in Step : Goto(t, step)
    BY <1>4 DEF Enter, LockPlayer, Exclude, CopyDatabase, Step
  <2>3. \E step \in Step : Moved(t, step, job[t].token)
    BY <2>1, <2>2, GoesOn
  <2> QED
    BY <2>1, <2>3, KeepBalanced DEF Moved
<1>5. ASSUME NEW t \in Task, Arrive(t)
      PROVE  Balanced'
  <2>1. CASE \E op \in Op, p \in Player : Start(t, op, p)
    <3>1. PICK op \in Op, p \in Player : Start(t, op, p)
      BY <2>1
    <3> DEFINE new == [op |-> op, step |-> "entering", player |-> p,
                       identity |-> Nobody, token |-> NoRow]
    <3>2. new \in Job /\ new.op = op
      BY DEF Job, Op, Step, Stored
    <3>3. job[t] = Idle /\ job' = [job EXCEPT ![t] = new]
      BY <3>1 DEF Start
    <3>4. IF TakesPermit(new.op) THEN capacity > 0 /\ capacity' = capacity - 1
                                 ELSE capacity' = capacity
      BY <3>1, <3>2 DEF Start, TakesPermit
    <3> QED
      BY <3>2, <3>3, <3>4, StartBalanced
  <2>2. CASE \E i \in Identity : Callback(t, i)
    <3>1. PICK i \in Identity, token \in Stored :
            /\ job[t] = Idle /\ UNCHANGED capacity
            /\ job' = [job EXCEPT ![t] = [op |-> "login", step |-> "signing_in",
                                          player |-> Nobody, identity |-> i, token |-> token]]
      BY <2>2 DEF Callback, locks, Stored
    <3> DEFINE new == [op |-> "login", step |-> "signing_in", player |-> Nobody,
                       identity |-> i, token |-> token]
    <3>2. new \in Job /\ ~TakesPermit(new.op)
      BY DEF Job, Op, Step, TakesPermit
    <3> QED
      BY <3>1, <3>2, StartBalanced
  <2>3. CASE StartBackup(t)
    <3> DEFINE new == [op |-> "backup", step |-> "excluding", player |-> Nobody,
                       identity |-> Nobody, token |-> NoRow]
    <3>1. new \in Job /\ ~TakesPermit(new.op)
      BY DEF Job, Op, Step, Stored, TakesPermit
    <3>2. job[t] = Idle /\ UNCHANGED capacity /\ job' = [job EXCEPT ![t] = new]
      BY <2>3 DEF StartBackup, locks
    <3> QED
      BY <3>1, <3>2, StartBalanced
  <2> QED
    BY <1>5, <2>1, <2>2, <2>3 DEF Arrive
<1>6. CASE Crash
  <2>1. Charged' = {} /\ capacity' = Permits
    BY <1>6 DEF Crash, Charged
  <2>2. Cardinality({}) = 0
    BY FS_EmptySet
  <2> QED
    BY <2>1, <2>2, PermitAssumption DEF Balanced
<1>7. CASE UNCHANGED vars
  BY <1>7 DEF vars, Balanced, Charged
<1> QED
  BY <1>1, <1>2, <1>3, <1>4, <1>5, <1>6, <1>7, NextSplit DEF Next

\* The tables, the locks, the permits and the calls are always well formed.
THEOREM TypeCorrect == Spec => []TypeOK
<1>1. Locked /\ Balanced => TypeOK
  <2> SUFFICES ASSUME Locked, Balanced
               PROVE  TypeOK
    OBVIOUS
  <2>1. capacity \in 0..Permits
    BY ChargedFinite, PermitAssumption DEF Balanced
  <2> QED
    BY <2>1 DEF Locked, Typed, TypeOK
<1>2. Spec => []Balanced
  BY InitBalanced, NextBalanced, LocksInvariant, PTL DEF Spec
<1> QED
  BY <1>1, <1>2, LocksInvariant, PTL

-----------------------------------------------------------------------------
(* Deletion                                                                *)

\* Under its lock a player is active until the holder deactivates it; only active
\* players have credentials; and what is left of a deleted one is accounted for.
Deletion ==
  /\ \A t \in Task : job[t] # Idle /\ job[t].step \in Inside =>
       status[job[t].player] =
         IF job[t].step \in {"deactivated", "revoked"} THEN "inactive" ELSE "active"
  /\ \A p \in Player : tokens[p] # NoRow => Active(p)
  /\ DeletionIsFinal

\* Only the lock's holder changes a player's row from active, or its files.
LEMMA Alone ==
  ASSUME Locked, NEW t \in Task, NEW u \in Task, t # u,
         job[t] # Idle, job[t].step \in Inside, job[u] # Idle, job[u].step \in Inside
  PROVE  job[t].player # job[u].player
  BY DEF Locked, Holding

\* A deletion that is not at its end stays halfway.
LEMMA DeletingKept ==
  ASSUME NEW u \in Task, NEW p \in Player, p \in Deleting(u), job'[u] = job[u]
  PROVE  p \in Deleting(u)'
  BY DEF Deleting, At, Mine

\* The end of a call that leaves tables and files alone.
LEMMA QuietEnd ==
  ASSUME Locked, Deletion, NEW t \in Task, Finish(t), Deleting(t) = {},
         UNCHANGED <<status, tokens, data>>, torn \subseteq torn'
  PROVE  Deletion'
<1>1. job'[t] = Idle /\ \A u \in Task \ {t} : job'[u] = job[u]
  BY FinishJob DEF Locked
<1>2. \A p \in Player, u \in Task : p \in Deleting(u) => p \in Deleting(u)'
  BY <1>1, DeletingKept
<1>3. \A u \in Task : job'[u] # Idle => job'[u] = job[u]
  BY <1>1
<1>4. DeletionIsFinal'
  BY <1>2 DEF Deletion, DeletionIsFinal
<1> QED
  BY <1>3, <1>4 DEF Deletion, Active

LEMMA OverDeletion ==
  ASSUME Locked, Deletion, NEW t \in Task, Over(t)
  PROVE  Deletion'
<1>1. Finish(t)
  BY DEF Over, Refuse, TimeOut, SaveLogin, NotSignedIn, RenewLost, Rejected, Answer,
         WriteSnapshot, UseData, RemoveData, Publish, Fail
<1>2. job'[t] = Idle /\ \A u \in Task \ {t} : job'[u] = job[u]
  BY <1>1, FinishJob DEF Locked
<1>3. \A u \in Task : job'[u] # Idle => job'[u] = job[u]
  BY <1>2
<1>4. \A p \in Player, u \in Task : u # t /\ p \in Deleting(u) => p \in Deleting(u)'
  BY <1>2, DeletingKept
<1>5. CASE Refuse(t) \/ TimeOut(t) \/ NotSignedIn(t) \/ RenewLost(t) \/ Rejected(t)
           \/ Answer(t) \/ Publish(t)
  <2>1. Deleting(t) = {}
    BY <1>5 DEF Refuse, TimeOut, NotSignedIn, RenewLost, Rejected, Answer, Publish,
           Entering, Waiting, Blocked, Loaded, At, Deleting
  <2>2. UNCHANGED <<status, tokens, data, torn>>
    BY <1>5 DEF Refuse, TimeOut, NotSignedIn, RenewLost, Rejected, Answer, Publish,
           tables, history
  <2> QED
    BY <1>1, <2>1, <2>2, QuietEnd
<1>6. CASE SaveLogin(t)
  <2>1. /\ job[t] # Idle /\ job[t].step = "locked" /\ Active(Mine(t))
        /\ tokens' = [tokens EXCEPT ![Mine(t)] = job[t].token]
        /\ UNCHANGED <<status, data, torn>>
    BY <1>6 DEF SaveLogin, At
  <2>2. Mine(t) \in Player
    BY <2>1, HasPlayer
  <2>3. \A p \in Player : p # Mine(t) => tokens'[p] = tokens[p]
    BY <2>1 DEF Locked, Typed
  <2>4. \A p \in Player : tokens'[p] # NoRow => Active(p)'
    BY <2>1, <2>3 DEF Deletion, Active
  <2>5. Deleting(t) = {}
    BY <2>1 DEF Deleting, At
  <2>6. DeletionIsFinal'
    BY <1>4, <2>1, <2>3, <2>5 DEF Deletion, DeletionIsFinal, Active
  <2> QED
    BY <1>3, <2>1, <2>4, <2>6 DEF Deletion
<1>7. CASE WriteSnapshot(t) \/ UseData(t)
  <2>1. /\ job[t] # Idle /\ job[t].step \in {"fetching", "opened"}
        /\ UNCHANGED <<status, tokens, torn>>
    BY <1>7 DEF WriteSnapshot, UseData, At, tables, history
  <2>2. Mine(t) \in Player /\ status[Mine(t)] = "active"
    BY <2>1, HasPlayer DEF Deletion, Mine, Inside
  <2>3. \A p \in Player : p # Mine(t) => data'[p] = data[p]
    BY <1>7 DEF WriteSnapshot, UseData, Locked, Typed
  <2>4. Deleting(t) = {}
    BY <2>1 DEF Deleting, At
  <2>5. DeletionIsFinal'
    BY <1>4, <2>1, <2>2, <2>3, <2>4 DEF Deletion, DeletionIsFinal
  <2> QED
    BY <1>3, <2>1, <2>5 DEF Deletion, Active
<1>8. CASE RemoveData(t)
  <2>1. /\ data' = [data EXCEPT ![Mine(t)] = {}]
        /\ UNCHANGED <<status, tokens, torn>>
    BY <1>8 DEF RemoveData, tables, history
  <2>2. \A p \in Player : p # Mine(t) => data'[p] = data[p] /\ p \notin Deleting(t)
    BY <2>1 DEF Locked, Typed, Deleting
  <2>3. Mine(t) \in Player => data'[Mine(t)] = {}
    BY <2>1 DEF Locked, Typed
  <2>4. DeletionIsFinal'
    BY <1>4, <2>1, <2>2, <2>3 DEF Deletion, DeletionIsFinal
  <2> QED
    BY <1>3, <2>1, <2>4 DEF Deletion, Active
<1>9. CASE Fail(t)
  <2>1. /\ UNCHANGED <<status, tokens>>
        /\ torn' = torn \cup Deleting(t)
    BY <1>9 DEF Fail, tables
  <2>2. \A p \in Player : p \notin Deleting(t) => data'[p] = data[p]
    <3>1. CASE UNCHANGED data
      BY <3>1
    <3>2. CASE ~UNCHANGED data
      <4>1. PICK left \in SUBSET data[Mine(t)] : data' = [data EXCEPT ![Mine(t)] = left]
        BY <1>9, <3>2 DEF Fail
      <4>2. Mine(t) \in Player => Mine(t) \in Deleting(t)
        BY <1>9, <3>2 DEF Fail, Deleting
      <4> QED
        BY <4>1, <4>2 DEF Locked, Typed
    <3> QED
      BY <3>1, <3>2
  <2>3. DeletionIsFinal'
    BY <1>4, <2>1, <2>2 DEF Deletion, DeletionIsFinal
  <2> QED
    BY <1>3, <2>1, <2>3 DEF Deletion, Active
<1> QED
  BY <1>5, <1>6, <1>7, <1>8, <1>9 DEF Over

LEMMA WorksDeletion ==
  ASSUME Locked, Deletion, NEW t \in Task, Works(t)
  PROVE  Deletion'
<1>1. PICK step \in Inside, token \in Stored :
        /\ Moved(t, step, token)
        /\ job[t].step \in Inside
        /\ step \in {"deactivated", "revoked"} => job[t].op = "delete"
  BY WorksAdvances DEF Advances
<1>2. job[t] # Idle /\ Mine(t) \in Player /\ torn' = torn
  BY <1>1, HasPlayer DEF Moved, Inside, Works, LoadTokens, Renew, SaveTokens, OpenDirectory,
         OpenData, Deactivate, RevokePlayer, history
<1>3. \A u \in Task \ {t} : job'[u] = job[u]
  BY <1>1 DEF Moved
<1>4. \A p \in Player, u \in Task : u # t /\ p \in Deleting(u) => p \in Deleting(u)'
  BY <1>3, DeletingKept
<1>5. \A u \in Task \ {t} : job[u] # Idle /\ job[u].step \in Inside => job[u].player # Mine(t)
  BY <1>1, <1>2, Alone DEF Mine
<1>6. CASE LoadTokens(t) \/ Renew(t) \/ SaveTokens(t) \/ OpenDirectory(t) \/ OpenData(t)
  <2>1. /\ step \notin {"deactivated", "revoked"} /\ status' = status
        /\ job[t].step \notin {"deactivated", "revoked"}
    BY <1>1, <1>6 DEF LoadTokens, Renew, SaveTokens, OpenDirectory, OpenData, Loaded, At,
           tables, Goto, GotoWith, Moved, Locked, Shape
  <2>2. status[Mine(t)] = "active"
    BY <1>1, <1>2, <2>1 DEF Deletion, Mine
  <2>3. \A p \in Player : p # Mine(t) => tokens'[p] = tokens[p] /\ data'[p] = data[p]
    BY <1>6 DEF LoadTokens, Renew, SaveTokens, OpenDirectory, OpenData, tables,
           Locked, Typed
  <2>4. \A u \in Task : job'[u] # Idle /\ job'[u].step \in Inside =>
          status'[job'[u].player] =
            IF job'[u].step \in {"deactivated", "revoked"} THEN "inactive" ELSE "active"
    BY <1>1, <1>3, <2>1, <2>2 DEF Deletion, Moved, Mine
  <2>5. \A p \in Player : tokens'[p] # NoRow => Active(p)'
    BY <2>1, <2>2, <2>3 DEF Deletion, Active
  <2>6. Deleting(t) = {}
    BY <2>1 DEF Deleting, At
  <2>7. DeletionIsFinal'
    BY <1>2, <1>4, <2>1, <2>2, <2>3, <2>6 DEF Deletion, DeletionIsFinal
  <2> QED
    BY <2>4, <2>5, <2>7 DEF Deletion
<1>7. CASE Deactivate(t)
  <2>1. Moved(t, "deactivated", job[t].token)
    BY <1>2, <1>7, GotoJob DEF Deactivate, Locked, Step
  <2>2. /\ tokens' = [tokens EXCEPT ![Mine(t)] = NoRow]
        /\ status' = [status EXCEPT ![Mine(t)] = "inactive"]
        /\ data' = [data EXCEPT ![Mine(t)] = @ \cup {"directory"}]
        /\ job[t].op = "delete" /\ job[t].step = "locked"
    BY <1>7 DEF Deactivate, At
  <2>3. /\ status'[Mine(t)] = "inactive" /\ tokens'[Mine(t)] = NoRow
        /\ \A p \in Player : p # Mine(t) =>
             status'[p] = status[p] /\ tokens'[p] = tokens[p] /\ data'[p] = data[p]
    BY <1>2, <2>2 DEF Locked, Typed
  <2>4. \A u \in Task : job'[u] # Idle /\ job'[u].step \in Inside =>
          status'[job'[u].player] =
            IF job'[u].step \in {"deactivated", "revoked"} THEN "inactive" ELSE "active"
    <3> SUFFICES ASSUME NEW u \in Task, job'[u] # Idle, job'[u].step \in Inside
                 PROVE  status'[job'[u].player] =
                   IF job'[u].step \in {"deactivated", "revoked"} THEN "inactive" ELSE "active"
      OBVIOUS
    <3>1. CASE u = t
      BY <2>1, <2>3, <3>1 DEF Moved, Mine
    <3>2. CASE u # t
      <4>1. job'[u] = job[u] /\ job[u].player # Mine(t)
        BY <1>3, <1>5, <3>2
      <4>2. job[u].player \in Player
        BY <4>1, HasPlayer DEF Mine, Inside
      <4> QED
        BY <2>3, <4>1, <4>2 DEF Deletion
    <3> QED
      BY <3>1, <3>2
  <2>5. \A p \in Player : tokens'[p] # NoRow => Active(p)'
    BY <2>3 DEF Deletion, Active
  <2>6. Deleting(t) = {} /\ Mine(t) \in Deleting(t)'
    BY <1>2, <2>1, <2>2 DEF Deleting, At, Moved, Mine
  <2>7. DeletionIsFinal'
    BY <1>2, <1>4, <2>3, <2>6 DEF Deletion, DeletionIsFinal
  <2> QED
    BY <2>4, <2>5, <2>7 DEF Deletion
<1>8. CASE RevokePlayer(t)
  <2>1. Moved(t, "revoked", job[t].token)
    BY <1>2, <1>8, GotoJob DEF RevokePlayer, Locked, Step
  <2>2. UNCHANGED <<status, tokens, data>> /\ job[t].step = "deactivated"
        /\ job[t].op = "delete"
    BY <1>8 DEF RevokePlayer, tables, At
  <2>3. \A u \in Task : job'[u] # Idle /\ job'[u].step \in Inside =>
          status'[job'[u].player] =
            IF job'[u].step \in {"deactivated", "revoked"} THEN "inactive" ELSE "active"
    BY <1>3, <2>1, <2>2 DEF Deletion, Moved, Mine, Inside
  <2>4. \A p \in Player : p \in Deleting(t) => p \in Deleting(t)'
    BY <2>1, <2>2 DEF Deleting, At, Moved, Mine
  <2>5. DeletionIsFinal'
    BY <1>2, <1>4, <2>2, <2>4 DEF Deletion, DeletionIsFinal
  <2> QED
    BY <2>2, <2>3, <2>5 DEF Deletion, Active
<1> QED
  BY <1>6, <1>7, <1>8 DEF Works

\* A call that begins, or moves outside the player lock.
LEMMA OutsideDeletion ==
  ASSUME Locked, Deletion, NEW t \in Task, UNCHANGED <<tokens, data, torn>>,
         \A u \in Task \ {t} : job'[u] = job[u],
         job[t] = Idle \/ job[t].step \notin Inside,
         job'[t] # Idle /\ job'[t].step \in Inside =>
           job'[t].step = "locked" /\ status'[job'[t].player] = "active",
         \A p \in Player : status[p] # "unknown" => status'[p] = status[p],
         \A p \in Player : status'[p] # status[p] => status'[p] = "active"
  PROVE  Deletion'
<1>1. Deleting(t) = {}
  BY DEF Deleting, At, Inside
<1>2. \A p \in Player, u \in Task : p \in Deleting(u) => p \in Deleting(u)'
  BY <1>1, DeletingKept
<1>3. DeletionIsFinal'
  BY <1>2 DEF Deletion, DeletionIsFinal
<1>4. \A p \in Player : tokens'[p] # NoRow => Active(p)'
  BY DEF Deletion, Active
<1>5. \A u \in Task : job'[u] # Idle /\ job'[u].step \in Inside =>
        status'[job'[u].player] =
          IF job'[u].step \in {"deactivated", "revoked"} THEN "inactive" ELSE "active"
  <2> SUFFICES ASSUME NEW u \in Task \ {t}, job[u] # Idle, job[u].step \in Inside
               PROVE  status'[job[u].player] =
                 IF job[u].step \in {"deactivated", "revoked"} THEN "inactive" ELSE "active"
    OBVIOUS
  <2>1. job[u].player \in Player
    BY HasPlayer DEF Mine, Inside
  <2> QED
    BY <2>1 DEF Deletion
<1> QED
  BY <1>3, <1>4, <1>5 DEF Deletion

LEMMA InitDeletion == Init => Deletion
  BY DEF Init, Deletion, DeletionIsFinal

LEMMA NextDeletion == Locked /\ Deletion /\ [Next]_vars => Deletion'
<1> SUFFICES ASSUME Locked, Deletion, [Next]_vars
             PROVE  Deletion'
  OBVIOUS
<1>1. ASSUME NEW t \in Task, SignIn(t)
      PROVE  Deletion'
  <2>1. PICK p \in Player :
          /\ IF {q \in Player : Active(q) /\ owner[q] = job[t].identity} # {}
             THEN p \in {q \in Player : Active(q) /\ owner[q] = job[t].identity}
             ELSE status[p] = "unknown"
          /\ status' = [status EXCEPT ![p] = "active"]
          /\ job' = [job EXCEPT ![t] = [@ EXCEPT !.step = "entering", !.player = p]]
    BY <1>1 DEF SignIn
  <2>2. job[t] # Idle /\ job[t] \in Job /\ job[t].step = "signing_in"
    BY <1>1 DEF SignIn, At, Locked, Typed
  <2>3. job'[t] = [job[t] EXCEPT !.step = "entering", !.player = p]
    BY <2>1 DEF Locked, Typed
  <2>4. job'[t].step = "entering" /\ \A u \in Task \ {t} : job'[u] = job[u]
    BY <2>1, <2>2, <2>3 DEF Locked, Typed, Job
  <2>5. status[p] # "inactive"
    BY <2>1 DEF Active
  <2>6. /\ \A q \in Player : q # p => status'[q] = status[q]
        /\ status'[p] = "active" /\ status[p] \in {"unknown", "active"}
    BY <2>1, <2>5 DEF Locked, Typed
  <2>7. UNCHANGED <<tokens, data, torn>>
    BY <1>1 DEF SignIn, history
  <2> QED
    BY <2>2, <2>4, <2>6, <2>7, OutsideDeletion DEF Inside
<1>2. ASSUME NEW t \in Task, Enter(t) \/ LockPlayer(t) \/ Exclude(t) \/ CopyDatabase(t)
      PROVE  Deletion'
  <2>1. /\ job[t] # Idle /\ job[t].token \in Stored /\ job[t].step \notin Inside
        /\ UNCHANGED <<status, tokens, data, torn>>
    BY <1>2 DEF Enter, LockPlayer, Exclude, CopyDatabase, Entering, Waiting, At, Inside,
           Locked, Typed, Job, tables, history
  <2>2. PICK step \in Step :
          /\ Goto(t, step)
          /\ \/ step \notin Inside
             \/ step = "locked" /\ Active(Mine(t))
    BY <1>2 DEF Enter, LockPlayer, Exclude, CopyDatabase, Step, Inside
  <2>3. Moved(t, step, job[t].token)
    BY <2>1, <2>2, GoesOn
  <2> QED
    BY <2>1, <2>2, <2>3, OutsideDeletion DEF Moved, Active, Mine
<1>3. ASSUME NEW t \in Task, Arrive(t)
      PROVE  Deletion'
  <2>1. PICK new \in [op : Op, step : {"entering", "signing_in", "excluding"},
                      player : Player \cup {Nobody}, identity : Identity \cup {Nobody},
                      token : Stored] :
          job[t] = Idle /\ job' = [job EXCEPT ![t] = new]
    BY <1>3 DEF Arrive, Start, Callback, StartBackup, Stored, Op
  <2>2. UNCHANGED <<status, tokens, data, torn>>
    BY <1>3 DEF Arrive, Start, Callback, StartBackup, tables, history
  <2>3. job'[t] = new /\ \A u \in Task \ {t} : job'[u] = job[u]
    BY <2>1 DEF Locked, Typed
  <2> QED
    BY <2>1, <2>2, <2>3, OutsideDeletion DEF Inside
<1>4. CASE Crash
  <2>1. /\ \A t \in Task : job'[t] = Idle
        /\ UNCHANGED <<status, tokens, data>>
        /\ \A t \in Task : Deleting(t) \subseteq torn'
        /\ torn \subseteq torn'
    BY <1>4 DEF Crash, tables
  <2>2. DeletionIsFinal'
    BY <2>1 DEF Deletion, DeletionIsFinal
  <2> QED
    BY <2>1, <2>2 DEF Deletion, Active
<1>5. CASE UNCHANGED vars
  BY <1>5 DEF vars, Deletion, DeletionIsFinal, Active, Deleting, At, Mine
<1> QED
  BY <1>1, <1>2, <1>3, <1>4, <1>5, OverDeletion, WorksDeletion, NextSplit DEF Next

LEMMA DeletionInvariant == Spec => []Deletion
  BY InitDeletion, NextDeletion, LocksInvariant, PTL DEF Spec

\* Nothing outlives a deletion that ran to its end, and credentials never do.
THEOREM DeletedStaysDeleted == Spec => []DeletionIsFinal
<1>1. Deletion => DeletionIsFinal
  BY DEF Deletion
<1> QED
  BY <1>1, DeletionInvariant, PTL

-----------------------------------------------------------------------------
(* Sign-ins                                                                *)

\* A token that only a call has: the one of its sign-in, or the one MSF answered with.
Carries(t) ==
  /\ job[t] # Idle
  /\ job[t].token \in Token
  /\ job[t].op = "login" \/ job[t].step = "renewed"

\* A refresh token has one place: the row of one player, or one call that carries it - or
\* both, while MSF has renewed without rotating.  A carried token is one MSF accepts; so is a
\* stored one, until a call renews it or its player lost the sign-in.
Placed ==
  /\ \A p \in Player : tokens[p] \in Token => tokens[p] \in issued
  /\ \A p, q \in Player : tokens[p] \in Token /\ tokens[p] = tokens[q] => p = q
  /\ \A t \in Task : Carries(t) =>
       /\ job[t].token \in live
       /\ \A p \in Player : tokens[p] = job[t].token => job[t].step = "renewed" /\ p = Mine(t)
       /\ \A u \in Task : Carries(u) /\ job[u].token = job[t].token => u = t
  /\ \A t \in Task : At(t, {"refresh", "query"}, "loaded") => job[t].token = tokens[Mine(t)]
  /\ \A p \in Player : tokens[p] \in Token /\ p \notin lost =>
       tokens[p] \in live \/ \E t \in Task : p \in Unsaved(t)

\* A call that did not move is where it was.
LEMMA Unmoved ==
  ASSUME NEW u \in Task, job'[u] = job[u]
  PROVE  /\ Carries(u)' <=> Carries(u)
         /\ Mine(u)' = Mine(u)
         /\ At(u, {"refresh", "query"}, "loaded")' <=> At(u, {"refresh", "query"}, "loaded")
         /\ \A p \in Player : tokens'[p] = tokens[p] =>
              (p \in Unsaved(u)' <=> p \in Unsaved(u))
  BY DEF Carries, Mine, At, Unsaved

\* Steps that neither store, issue nor spend a token.
LEMMA StillPlaced ==
  ASSUME Placed, NEW t \in Task, UNCHANGED <<tokens, live, issued>>, lost \subseteq lost',
         \A u \in Task \ {t} : job'[u] = job[u],
         Carries(t)' =>
           /\ Carries(t) /\ job'[t].token = job[t].token
           /\ job[t].step = "renewed" => job'[t].step = "renewed" /\ Mine(t)' = Mine(t),
         At(t, {"refresh", "query"}, "loaded")' => job'[t].token = tokens[Mine(t)'],
         Unsaved(t) \subseteq Unsaved(t)' \cup lost'
  PROVE  Placed'
<1>1. ASSUME NEW u \in Task, Carries(u)'
      PROVE  /\ Carries(u) /\ job'[u].token = job[u].token
             /\ job[u].step = "renewed" => job'[u].step = "renewed" /\ Mine(u)' = Mine(u)
  BY <1>1, Unmoved
<1>2. \A u \in Task : Carries(u)' =>
        /\ job'[u].token \in live'
        /\ \A p \in Player : tokens'[p] = job'[u].token =>
             job'[u].step = "renewed" /\ p = Mine(u)'
        /\ \A v \in Task : Carries(v)' /\ job'[v].token = job'[u].token => v = u
  BY <1>1 DEF Placed
<1>3. \A u \in Task : At(u, {"refresh", "query"}, "loaded")' => job'[u].token = tokens'[Mine(u)']
  BY Unmoved DEF Placed
<1>4. \A p \in Player : tokens'[p] \in Token /\ p \notin lost' =>
        tokens'[p] \in live' \/ \E u \in Task : p \in Unsaved(u)'
  <2> SUFFICES ASSUME NEW p \in Player, tokens[p] \in Token, p \notin lost',
                      tokens[p] \notin live
               PROVE  \E u \in Task : p \in Unsaved(u)'
    OBVIOUS
  <2>1. PICK u \in Task : p \in Unsaved(u)
    BY DEF Placed
  <2>2. CASE u = t
    BY <2>1, <2>2
  <2>3. CASE u # t
    BY <2>1, <2>3, Unmoved
  <2> QED
    BY <2>2, <2>3
<1>5. /\ \A p \in Player : tokens'[p] \in Token => tokens'[p] \in issued'
      /\ \A p, q \in Player : tokens'[p] \in Token /\ tokens'[p] = tokens'[q] => p = q
  BY DEF Placed
<1> QED
  BY <1>2, <1>3, <1>4, <1>5 DEF Placed

\* Under the lock a row is replaced, by what the call carries or by no token at all.
LEMMA StorePlaced ==
  ASSUME Locked, Placed, NEW t \in Task, job[t] # Idle, job[t].step \in Inside,
         NEW k, k \in Token => Carries(t) /\ k = job[t].token,
         tokens' = [tokens EXCEPT ![Mine(t)] = k], UNCHANGED <<live, issued>>,
         \A u \in Task \ {t} : job'[u] = job[u],
         ~Carries(t)', ~At(t, {"refresh", "query"}, "loaded")',
         lost \ {Mine(t)} \subseteq lost'
  PROVE  Placed'
<1> DEFINE p == Mine(t)
<1>1. /\ p \in Player /\ tokens'[p] = k
      /\ \A q \in Player \ {p} : tokens'[q] = tokens[q]
  BY HasPlayer DEF Inside, Locked, Typed
<1>2. k \in Token => /\ k \in live /\ k \in issued
                     /\ \A q \in Player : tokens[q] = k => q = p
                     /\ \A u \in Task : Carries(u) /\ job[u].token = k => u = t
  BY DEF Placed, Locked, Typed
<1>3. \A u \in Task \ {t} : job[u] # Idle /\ job[u].step \in Inside => Mine(u) # p
  BY Alone DEF Mine
<1> HIDE DEF p
<1>4. /\ \A q \in Player : tokens'[q] \in Token => tokens'[q] \in issued'
      /\ \A q, r \in Player : tokens'[q] \in Token /\ tokens'[q] = tokens'[r] => q = r
  BY <1>1, <1>2 DEF Placed
<1>5. ASSUME NEW u \in Task, Carries(u)'
      PROVE  /\ job'[u].token \in live'
             /\ \A q \in Player : tokens'[q] = job'[u].token =>
                  job'[u].step = "renewed" /\ q = Mine(u)'
             /\ \A v \in Task : Carries(v)' /\ job'[v].token = job'[u].token => v = u
  <2>1. u # t /\ job'[u] = job[u] /\ Carries(u) /\ Mine(u)' = Mine(u)
    BY <1>5, Unmoved
  <2>2. job[u].token # k
    BY <1>2, <2>1 DEF Carries
  <2>3. \A v \in Task : Carries(v)' => Carries(v) /\ job'[v] = job[v]
    BY Unmoved
  <2> QED
    BY <1>1, <2>1, <2>2, <2>3 DEF Placed
<1>6. ASSUME NEW u \in Task, At(u, {"refresh", "query"}, "loaded")'
      PROVE  job'[u].token = tokens'[Mine(u)']
  <2>1. /\ u # t /\ job'[u] = job[u] /\ Mine(u)' = Mine(u)
        /\ At(u, {"refresh", "query"}, "loaded")
    BY <1>6, Unmoved
  <2>2. Mine(u) # p /\ Mine(u) \in Player
    BY <1>3, <2>1, HasPlayer DEF At, Inside
  <2> QED
    BY <1>1, <2>1, <2>2 DEF Placed
<1>7. ASSUME NEW q \in Player, tokens'[q] \in Token, q \notin lost'
      PROVE  tokens'[q] \in live' \/ \E u \in Task : q \in Unsaved(u)'
  <2>1. CASE q = p
    BY <1>1, <1>2, <1>7, <2>1
  <2>2. CASE q # p
    <3>1. tokens'[q] = tokens[q] /\ q \notin lost
      BY <1>1, <1>7, <2>2 DEF p
    <3>2. CASE tokens[q] \in live
      BY <3>1, <3>2
    <3>3. CASE tokens[q] \notin live
      <4>1. PICK u \in Task : q \in Unsaved(u)
        BY <1>7, <3>1, <3>3 DEF Placed
      <4>2. u # t
        BY <2>2, <4>1 DEF Unsaved, p
      <4> QED
        BY <3>1, <4>1, <4>2, Unmoved
    <3> QED
      BY <3>2, <3>3
  <2> QED
    BY <2>1, <2>2
<1> QED
  BY <1>4, <1>5, <1>6, <1>7 DEF Placed

\* MSF answers a call with the token its player has, or with a new one; or the answer is lost.
LEMMA RenewPlaced ==
  ASSUME Locked, Placed, NEW t \in Task, Loaded(t), job[t].token \in live,
         NEW renewed \in Token \cup {NoRow}, Rotates(job[t].token, renewed),
         UNCHANGED tokens, lost \subseteq lost',
         \A u \in Task \ {t} : job'[u] = job[u],
         \/ Moved(t, "renewed", KeepRenewed(job[t].token, renewed))
         \/ renewed \in Token /\ job'[t] = Idle /\ Mine(t) \in lost'
  PROVE  Placed'
<1> DEFINE p == Mine(t)
           k == job[t].token
<1>1. /\ job[t] # Idle /\ job[t].step = "loaded" /\ job[t].op \in {"refresh", "query"}
      /\ k \in Token /\ k \in live /\ k \in issued
  BY DEF Loaded, At, Locked, Typed
<1>2. p \in Player /\ tokens[p] = k
  BY <1>1, HasPlayer DEF Loaded, Placed
<1>3. \A u \in Task \ {t} : job[u] # Idle /\ job[u].step \in Inside => Mine(u) # p
  BY <1>1, Alone DEF Mine, Inside
<1>4. \A u \in Task \ {t} : Carries(u) => job[u].token # k
  BY <1>2, <1>3 DEF Placed, Carries, Inside
<1>5. ~Carries(t)
  BY <1>1 DEF Carries
<1>6. /\ live' \subseteq issued' /\ issued \subseteq issued' /\ live \ {k} \subseteq live'
      /\ renewed = NoRow => live' = live
      /\ renewed \in Token => renewed \notin issued /\ renewed \in live'
  BY SentinelAssumption DEF Rotates, msf, Locked, Typed
<1>7. Carries(t)' => /\ job'[t].step = "renewed" /\ Mine(t)' = p
                     /\ job'[t].token = KeepRenewed(k, renewed)
  BY DEF Moved, Mine, Carries
<1>8. ~At(t, {"refresh", "query"}, "loaded")'
  BY DEF Moved, At
<1>9. p \in lost' \/ renewed = NoRow \/ p \in Unsaved(t)'
  <2> SUFFICES ASSUME renewed \in Token, Moved(t, "renewed", KeepRenewed(k, renewed))
               PROVE  p \in Unsaved(t)'
    OBVIOUS
  <2>1. KeepRenewed(k, renewed) = renewed /\ tokens[p] # renewed
    BY <1>1, <1>2, <1>6, SentinelAssumption DEF KeepRenewed
  <2>2. At(t, {"refresh", "query"}, "renewed")' /\ Mine(t)' = p /\ job'[t].token = renewed
    BY <1>1, <2>1 DEF Moved, At, Mine
  <2> QED
    BY <1>2, <2>1, <2>2 DEF Unsaved
<1> HIDE DEF p, k
<1>10. /\ \A q \in Player : tokens'[q] \in Token => tokens'[q] \in issued'
       /\ \A q, r \in Player : tokens'[q] \in Token /\ tokens'[q] = tokens'[r] => q = r
  BY <1>6 DEF Placed
<1>11. KeepRenewed(k, renewed) \in live' /\ KeepRenewed(k, renewed) \in {k, renewed}
  BY <1>1, <1>6, SentinelAssumption DEF KeepRenewed
<1>12. \A u \in Task \ {t} : Carries(u) =>
         job[u].token \in live /\ job[u].token # KeepRenewed(k, renewed)
  BY <1>1, <1>4, <1>6, <1>11, SentinelAssumption DEF Placed, Locked, Typed, Carries
<1>13. \A q \in Player : tokens[q] = KeepRenewed(k, renewed) /\ KeepRenewed(k, renewed) \in Token
         => q = p
  BY <1>1, <1>2, <1>6, <1>11, SentinelAssumption DEF Placed
<1>14. ASSUME NEW u \in Task, Carries(u)'
       PROVE  /\ job'[u].token \in live'
              /\ \A q \in Player : tokens'[q] = job'[u].token =>
                   job'[u].step = "renewed" /\ q = Mine(u)'
              /\ \A v \in Task : Carries(v)' /\ job'[v].token = job'[u].token => v = u
  <2>1. \A v \in Task \ {t} : Carries(v)' => Carries(v) /\ job'[v] = job[v]
    BY Unmoved
  <2>2. CASE u = t
    <3>1. job'[u].token = KeepRenewed(k, renewed) /\ KeepRenewed(k, renewed) \in Token
      BY <1>7, <1>14, <2>2 DEF Carries
    <3>2. \A v \in Task : Carries(v)' /\ job'[v].token = job'[u].token => v = u
      BY <1>12, <2>1, <2>2, <3>1
    <3> QED
      BY <1>7, <1>11, <1>13, <1>14, <2>2, <3>1, <3>2
  <2>3. CASE u # t
    <3>1. Carries(u) /\ job'[u] = job[u] /\ Mine(u)' = Mine(u)
      BY <1>14, <2>3, Unmoved
    <3>2. job[u].token \in live' /\ job[u].token # KeepRenewed(k, renewed)
      BY <1>4, <1>6, <1>12, <2>3, <3>1
    <3>3. \A q \in Player : tokens'[q] = job'[u].token => job'[u].step = "renewed" /\ q = Mine(u)'
      BY <3>1 DEF Placed
    <3>4. \A v \in Task : Carries(v)' /\ job'[v].token = job'[u].token => v = u
      <4> SUFFICES ASSUME NEW v \in Task, Carries(v)', job'[v].token = job'[u].token
                   PROVE  v = u
        OBVIOUS
      <4>1. v # t
        BY <1>7, <3>1, <3>2
      <4> QED
        BY <2>1, <3>1, <4>1 DEF Placed
    <3> QED
      BY <3>1, <3>2, <3>3, <3>4
  <2> QED
    BY <2>2, <2>3
<1>15. ASSUME NEW u \in Task, At(u, {"refresh", "query"}, "loaded")'
       PROVE  job'[u].token = tokens'[Mine(u)']
  BY <1>8, <1>15, Unmoved DEF Placed
<1>16. ASSUME NEW q \in Player, tokens'[q] \in Token, q \notin lost'
       PROVE  tokens'[q] \in live' \/ \E u \in Task : q \in Unsaved(u)'
  <2>1. CASE q = p
    BY <1>2, <1>6, <1>1, <1>9, <1>16, <2>1
  <2>2. CASE q # p
    <3>1. tokens[q] # k
      BY <1>1, <1>2, <2>2 DEF Placed
    <3>2. CASE tokens[q] \in live
      BY <1>6, <3>1, <3>2
    <3>3. CASE tokens[q] \notin live
      <4>1. PICK u \in Task : q \in Unsaved(u)
        BY <1>16, <3>3 DEF Placed
      <4>2. u # t
        BY <1>1, <4>1 DEF Unsaved, At
      <4> QED
        BY <4>1, <4>2, Unmoved
    <3> QED
      BY <3>2, <3>3
  <2> QED
    BY <2>1, <2>2
<1> QED
  BY <1>10, <1>14, <1>15, <1>16 DEF Placed

\* A callback brings a token that nobody has.
LEMMA CallbackPlaced ==
  ASSUME Locked, Placed, NEW t \in Task, NEW i \in Identity, Callback(t, i)
  PROVE  Placed'
<1>1. PICK token \in {AccessOnly} \cup (Token \ issued) :
        /\ issued' = issued \cup ({token} \ {AccessOnly})
        /\ live' = live \cup ({token} \ {AccessOnly})
        /\ job' = [job EXCEPT ![t] = [op |-> "login", step |-> "signing_in",
                                      player |-> Nobody, identity |-> i, token |-> token]]
  BY DEF Callback
<1>2. job[t] = Idle /\ UNCHANGED <<tokens, lost>>
  BY DEF Callback, tables, history
<1>3. /\ \A u \in Task \ {t} : job'[u] = job[u]
      /\ job'[t].op = "login" /\ job'[t].step = "signing_in" /\ job'[t].token = token
  BY <1>1 DEF Locked, Typed
<1>4. ~Carries(t) /\ Unsaved(t) = {} /\ ~At(t, {"refresh", "query"}, "loaded")'
  BY <1>2, <1>3 DEF Carries, Unsaved, At
<1>5. token \in Token => token \in live' /\ token \notin issued
  BY <1>1, SentinelAssumption
<1>6. \A u \in Task \ {t} : Carries(u)' => Carries(u) /\ job'[u] = job[u] /\ Mine(u)' = Mine(u)
  BY <1>3, Unmoved
<1>7. \A u \in Task \ {t} : Carries(u)' => job'[u].token \in live /\ job'[u].token \in issued
  BY <1>6 DEF Placed, Locked, Typed
<1>8. ASSUME NEW u \in Task, Carries(u)'
      PROVE  /\ job'[u].token \in live'
             /\ \A q \in Player : tokens'[q] = job'[u].token =>
                  job'[u].step = "renewed" /\ q = Mine(u)'
             /\ \A v \in Task : Carries(v)' /\ job'[v].token = job'[u].token => v = u
  <2>1. CASE u = t
    <3>1. job'[u].token = token /\ token \in Token
      BY <1>3, <1>8, <2>1 DEF Carries
    <3> QED
      BY <1>2, <1>5, <1>7, <2>1, <3>1 DEF Placed
  <2>2. CASE u # t
    <3>1. Carries(u) /\ job'[u] = job[u] /\ Mine(u)' = Mine(u)
      BY <1>6, <1>8, <2>2
    <3>2. job'[u].token \in live' /\ job'[u].token \in issued
      BY <1>1, <1>7, <1>8, <2>2
    <3>3. job'[u].token # token
      BY <1>5, <1>8, <3>2 DEF Carries
    <3>4. \A q \in Player : tokens'[q] = job'[u].token => job'[u].step = "renewed" /\ q = Mine(u)'
      BY <1>2, <3>1 DEF Placed
    <3>5. \A v \in Task : Carries(v)' /\ job'[v].token = job'[u].token => v = u
      BY <1>3, <1>6, <3>1, <3>3 DEF Placed
    <3> QED
      BY <3>2, <3>4, <3>5
  <2> QED
    BY <2>1, <2>2
<1>9. /\ \A p \in Player : tokens'[p] \in Token => tokens'[p] \in issued'
      /\ \A p, q \in Player : tokens'[p] \in Token /\ tokens'[p] = tokens'[q] => p = q
  BY <1>1, <1>2 DEF Placed
<1>10. \A u \in Task : At(u, {"refresh", "query"}, "loaded")' => job'[u].token = tokens'[Mine(u)']
  BY <1>2, <1>3, <1>4, Unmoved DEF Placed
<1>11. ASSUME NEW q \in Player, tokens'[q] \in Token, q \notin lost', tokens'[q] \notin live'
       PROVE  \E u \in Task : q \in Unsaved(u)'
  <2>1. PICK u \in Task : q \in Unsaved(u)
    BY <1>1, <1>2, <1>11 DEF Placed
  <2>2. u # t
    BY <1>4, <2>1
  <2> QED
    BY <1>2, <1>3, <2>1, <2>2, Unmoved
<1> QED
  BY <1>8, <1>9, <1>10, <1>11 DEF Placed

LEMMA OverPlaced ==
  ASSUME Locked, Placed, NEW t \in Task, Over(t)
  PROVE  Placed'
<1>1. Finish(t)
  BY DEF Over, Refuse, TimeOut, SaveLogin, NotSignedIn, RenewLost, Rejected, Answer,
         WriteSnapshot, UseData, RemoveData, Publish, Fail
<1>2. job'[t] = Idle /\ \A u \in Task \ {t} : job'[u] = job[u]
  BY <1>1, FinishJob DEF Locked
<1>3. ~Carries(t)' /\ ~At(t, {"refresh", "query"}, "loaded")'
  BY <1>2 DEF Carries, At
<1>4. CASE SaveLogin(t)
  <2>1. /\ job[t] # Idle /\ job[t].op = "login" /\ job[t].step = "locked"
        /\ tokens' = [tokens EXCEPT ![Mine(t)] = job[t].token]
        /\ UNCHANGED <<live, issued>> /\ lost' = lost \ {Mine(t)}
    BY <1>4 DEF SaveLogin, At, msf
  <2>2. job[t].token \in Token => Carries(t)
    BY <2>1 DEF Carries
  <2> QED
    BY <1>2, <1>3, <2>1, <2>2, StorePlaced DEF Inside
<1>5. CASE RenewLost(t)
  <2>1. PICK renewed \in Token : Rotates(job[t].token, renewed)
    BY <1>5 DEF RenewLost
  <2>2. /\ Loaded(t) /\ job[t].token \in live /\ UNCHANGED tokens
        /\ lost' = lost \cup {Mine(t)}
    BY <1>5 DEF RenewLost, tables
  <2> QED
    BY <1>2, <2>1, <2>2, RenewPlaced
<1>6. CASE Fail(t)
  BY <1>2, <1>3, <1>6, StillPlaced DEF Fail, tables, msf
<1>7. CASE ~(SaveLogin(t) \/ RenewLost(t) \/ Fail(t))
  <2>1. UNCHANGED <<tokens, live, issued, lost>>
    BY <1>7 DEF Over, Refuse, TimeOut, NotSignedIn, Rejected, Answer, WriteSnapshot, UseData,
           RemoveData, Publish, tables, msf, history
  <2>2. Unsaved(t) = {}
    BY <1>7 DEF Over, Refuse, TimeOut, NotSignedIn, Rejected, Answer, WriteSnapshot, UseData,
           RemoveData, Publish, Entering, Waiting, Blocked, Loaded, At, Unsaved
  <2> QED
    BY <1>2, <1>3, <2>1, <2>2, StillPlaced
<1> QED
  BY <1>4, <1>5, <1>6, <1>7

LEMMA WorksPlaced ==
  ASSUME Locked, Placed, NEW t \in Task, Works(t)
  PROVE  Placed'
<1>1. job[t] # Idle /\ job[t] \in Job /\ job[t].step \in Inside
  BY DEF Works, LoadTokens, Renew, SaveTokens, OpenDirectory, OpenData, Deactivate,
         RevokePlayer, Loaded, At, Locked, Typed, Inside
<1>2. job[t].token \in Stored /\ Mine(t) \in Player
  BY <1>1, HasPlayer DEF Job, Inside
<1>3. CASE LoadTokens(t)
  <2>1. tokens[Mine(t)] \in Stored
    BY <1>2 DEF Locked, Typed
  <2>2. Moved(t, "loaded", tokens[Mine(t)])
    BY <1>1, <1>3, <2>1, GoesOn DEF LoadTokens, Step
  <2>3. UNCHANGED <<tokens, live, issued, lost>> /\ Unsaved(t) = {} /\ ~Carries(t)'
    BY <1>3, <2>2 DEF LoadTokens, tables, msf, history, Unsaved, At, Carries, Moved
  <2> QED
    BY <2>2, <2>3, StillPlaced DEF Moved, Mine
<1>4. CASE Renew(t)
  <2>1. PICK renewed \in Token \cup {NoRow} :
          /\ Rotates(job[t].token, renewed)
          /\ GotoWith(t, "renewed", KeepRenewed(job[t].token, renewed))
    BY <1>4 DEF Renew
  <2>2. KeepRenewed(job[t].token, renewed) \in Stored
    BY <1>2 DEF KeepRenewed, Stored
  <2>3. Moved(t, "renewed", KeepRenewed(job[t].token, renewed))
    BY <1>1, <2>1, <2>2, GoesOn DEF Step
  <2>4. Loaded(t) /\ job[t].token \in live /\ UNCHANGED <<tokens, lost>>
    BY <1>4 DEF Renew, tables, history
  <2>5. \A u \in Task \ {t} : job'[u] = job[u]
    BY <2>3 DEF Moved
  <2> QED
    BY <2>1, <2>3, <2>4, <2>5, RenewPlaced
<1>5. CASE SaveTokens(t)
  <2>1. Moved(t, "saved", job[t].token)
    BY <1>1, <1>2, <1>5, GoesOn DEF SaveTokens, Step
  <2>2. /\ tokens' = [tokens EXCEPT ![Mine(t)] = job[t].token]
        /\ UNCHANGED <<live, issued, lost>> /\ job[t].step = "renewed"
        /\ job[t].op \in {"refresh", "query"}
    BY <1>5 DEF SaveTokens, At, msf, history
  <2>3. job[t].token \in Token => Carries(t)
    BY <1>1, <2>2 DEF Carries
  <2>4. ~Carries(t)' /\ ~At(t, {"refresh", "query"}, "loaded")'
    BY <2>1, <2>2 DEF Carries, Moved, At
  <2>5. \A u \in Task \ {t} : job'[u] = job[u]
    BY <2>1 DEF Moved
  <2> QED
    BY <1>1, <2>2, <2>3, <2>4, <2>5, StorePlaced
<1>6. CASE Deactivate(t)
  <2>1. Moved(t, "deactivated", job[t].token)
    BY <1>1, <1>2, <1>6, GoesOn DEF Deactivate, Step
  <2>2. /\ tokens' = [tokens EXCEPT ![Mine(t)] = NoRow]
        /\ UNCHANGED <<live, issued>> /\ lost' = lost \ {Mine(t)} /\ job[t].op = "delete"
    BY <1>6 DEF Deactivate, At, msf
  <2>3. ~Carries(t)' /\ ~At(t, {"refresh", "query"}, "loaded")'
    BY <2>1, <2>2 DEF Carries, Moved, At
  <2>4. \A u \in Task \ {t} : job'[u] = job[u]
    BY <2>1 DEF Moved
  <2> QED
    BY <1>1, <2>2, <2>3, <2>4, StorePlaced, SentinelAssumption
<1>7. CASE OpenDirectory(t) \/ OpenData(t) \/ RevokePlayer(t)
  <2>1. PICK step \in {"fetching", "opened", "revoked"} : Moved(t, step, job[t].token)
    BY <1>1, <1>2, <1>7, GoesOn DEF OpenDirectory, OpenData, RevokePlayer, Step
  <2>2. UNCHANGED <<tokens, live, issued, lost>> /\ Unsaved(t) = {}
    BY <1>7 DEF OpenDirectory, OpenData, RevokePlayer, tables, msf, history, Unsaved, At
  <2>3. job[t].op \in {"refresh", "advise", "delete"}
    BY <1>7 DEF OpenDirectory, OpenData, RevokePlayer, At
  <2>4. ~Carries(t)' /\ ~At(t, {"refresh", "query"}, "loaded")'
    BY <2>1, <2>3 DEF Carries, Moved, At
  <2>5. \A u \in Task \ {t} : job'[u] = job[u]
    BY <2>1 DEF Moved
  <2> QED
    BY <2>2, <2>4, <2>5, StillPlaced
<1> QED
  BY <1>3, <1>4, <1>5, <1>6, <1>7 DEF Works

LEMMA NextPlaced == Locked /\ Placed /\ [Next]_vars => Placed'
<1> SUFFICES ASSUME Locked, Placed, [Next]_vars
             PROVE  Placed'
  OBVIOUS
<1>1. ASSUME NEW t \in Task, SignIn(t)
      PROVE  Placed'
  <2>1. PICK p \in Player :
          job' = [job EXCEPT ![t] = [@ EXCEPT !.step = "entering", !.player = p]]
    BY <1>1 DEF SignIn
  <2>2. job[t] # Idle /\ job[t] \in Job /\ job[t].step = "signing_in" /\ job[t].op = "login"
    BY <1>1 DEF SignIn, At, Locked, Typed
  <2>3. job'[t] = [job[t] EXCEPT !.step = "entering", !.player = p]
    BY <2>1 DEF Locked, Typed
  <2>4. /\ job'[t].step = "entering" /\ job'[t].op = "login" /\ job'[t].token = job[t].token
        /\ \A u \in Task \ {t} : job'[u] = job[u]
    BY <2>1, <2>2, <2>3 DEF Locked, Typed, Job
  <2>5. UNCHANGED <<tokens, live, issued, lost>>
    BY <1>1 DEF SignIn, msf, history
  <2>6. /\ Carries(t)' => Carries(t)
        /\ ~At(t, {"refresh", "query"}, "loaded")' /\ Unsaved(t) = {}
    BY <2>2, <2>4 DEF Carries, At, Unsaved
  <2> QED
    BY <2>2, <2>4, <2>5, <2>6, StillPlaced
<1>2. ASSUME NEW t \in Task, Enter(t) \/ LockPlayer(t) \/ Exclude(t) \/ CopyDatabase(t)
      PROVE  Placed'
  <2>1. /\ job[t] # Idle /\ job[t].token \in Stored
        /\ job[t].step \in {"entering", "waiting", "excluding", "exclusive"}
        /\ UNCHANGED <<tokens, live, issued, lost>>
    BY <1>2 DEF Enter, LockPlayer, Exclude, CopyDatabase, Entering, Waiting, At,
           Locked, Typed, Job, tables, msf, history
  <2>2. PICK step \in {"waiting", "locked", "exclusive", "copied"} : Goto(t, step)
    BY <1>2 DEF Enter, LockPlayer, Exclude, CopyDatabase
  <2>3. Moved(t, step, job[t].token)
    BY <2>1, <2>2, GoesOn DEF Step
  <2>4. /\ Carries(t)' => Carries(t)
        /\ ~At(t, {"refresh", "query"}, "loaded")' /\ Unsaved(t) = {}
    BY <2>1, <2>2, <2>3 DEF Carries, At, Unsaved, Moved
  <2>5. /\ \A u \in Task \ {t} : job'[u] = job[u]
        /\ job'[t].token = job[t].token /\ job[t].step # "renewed"
    BY <2>1, <2>3 DEF Moved
  <2> QED
    BY <2>1, <2>4, <2>5, StillPlaced
<1>3. ASSUME NEW t \in Task, Arrive(t)
      PROVE  Placed'
  <2>1. CASE \E i \in Identity : Callback(t, i)
    BY <2>1, CallbackPlaced
  <2>2. CASE (\E op \in Op, p \in Player : Start(t, op, p)) \/ StartBackup(t)
    <3>1. PICK new \in [op : Op, step : {"entering", "excluding"},
                        player : Player \cup {Nobody}, identity : Identity \cup {Nobody},
                        token : {NoRow}] :
            job[t] = Idle /\ job' = [job EXCEPT ![t] = new]
      BY <2>2 DEF Start, StartBackup, Op
    <3>2. UNCHANGED <<tokens, live, issued, lost>>
      BY <2>2 DEF Start, StartBackup, tables, msf, history
    <3>3. job'[t] = new /\ \A u \in Task \ {t} : job'[u] = job[u]
      BY <3>1 DEF Locked, Typed
    <3>4. ~Carries(t)' /\ ~At(t, {"refresh", "query"}, "loaded")' /\ Unsaved(t) = {}
      BY <3>1, <3>3, SentinelAssumption DEF Carries, At, Unsaved
    <3> QED
      BY <3>2, <3>3, <3>4, StillPlaced
  <2> QED
    BY <1>3, <2>1, <2>2 DEF Arrive
<1>4. CASE Crash
  <2>1. /\ \A t \in Task : job'[t] = Idle
        /\ UNCHANGED <<tokens, live, issued>>
        /\ lost \subseteq lost' /\ \A t \in Task : Unsaved(t) \subseteq lost'
    BY <1>4 DEF Crash, tables, msf
  <2>2. \A t \in Task : ~Carries(t)' /\ ~At(t, {"refresh", "query"}, "loaded")'
    BY <2>1 DEF Carries, At
  <2> QED
    BY <2>1, <2>2 DEF Placed
<1>5. CASE UNCHANGED vars
  BY <1>5 DEF vars, Placed, Carries, Unsaved, At, Mine
<1> QED
  BY <1>1, <1>2, <1>3, <1>4, <1>5, OverPlaced, WorksPlaced, NextSplit DEF Next

\* Every token has one owner at any time, however calls, sign-ins and deletions interleave:
\* so nobody's renewal spends the token of somebody else, and a sign-in is lost only by a
\* failure between MSF's answer and save_tokens.  (HostedSync.refresh, hosted_sync.py:42-60,
\* and call_with_renewal under the player lock, live_query.py:41-56)
THEOREM SignInsAreKept == Spec => []SignInKept
<1>1. Init => Placed
  BY SentinelAssumption DEF Init, Placed, Carries, At
<1>2. Spec => []Placed
  BY <1>1, NextPlaced, LocksInvariant, PTL DEF Spec
<1>3. Locked /\ Placed => SignInKept
  <2> SUFFICES ASSUME Locked, Placed, NEW t \in Task, Loaded(t), Mine(t) \notin lost
               PROVE  job[t].token \in live
    BY DEF Placed, SignInKept
  <2>1. /\ job[t] # Idle /\ job[t].step = "loaded" /\ job[t].token \in Token
        /\ At(t, {"refresh", "query"}, "loaded")
    BY DEF Loaded, At
  <2>2. Mine(t) \in Player /\ job[t].token = tokens[Mine(t)]
    BY <2>1, HasPlayer DEF Placed
  <2>3. \A u \in Task : Mine(t) \notin Unsaved(u)
    BY <2>1, Alone DEF Unsaved, At, Mine, Inside
  <2> QED
    BY <2>1, <2>2, <2>3 DEF Placed
<1> QED
  BY <1>2, <1>3, LocksInvariant, PTL

-----------------------------------------------------------------------------
(* Backup                                                                  *)

\* The copied database is the live one until the lock is given up.
Frozen ==
  \A t \in Task : job[t] # Idle /\ job[t].step = "copied" =>
    staging = [status |-> status, tokens |-> tokens]

\* Who copies holds the maintenance lock alone.
LEMMA CopyAlone ==
  ASSUME Locked, NEW t \in Task, job[t] # Idle, job[t].step = "copied"
  PROVE  /\ exclusive = t
         /\ \A u \in Task : job[u] # Idle => job[u].step \notin Inside \cup {"waiting"}
         /\ \A u \in Task : u # t => job[u] = Idle \/ job[u].step # "copied"
  BY SentinelAssumption DEF Locked, Holding

LEMMA NextFrozen == Locked /\ Frozen /\ [Next]_vars => Frozen'
<1> SUFFICES ASSUME Locked, Frozen, [Next]_vars,
                    NEW t \in Task, job'[t] # Idle, job'[t].step = "copied"
             PROVE  staging' = [status |-> status', tokens |-> tokens']
  BY DEF Frozen
<1>1. CASE job[t] # Idle /\ job[t].step = "copied"
  <2>1. staging = [status |-> status, tokens |-> tokens]
    BY <1>1 DEF Frozen
  <2>2. /\ exclusive = t /\ exclusive # Nobody
        /\ \A u \in Task : job[u] # Idle => job[u].step \notin Inside \cup {"waiting"}
    BY <1>1, CopyAlone, SentinelAssumption
  <2>3. ASSUME NEW u \in Task, Over(u)
        PROVE  UNCHANGED <<staging, status, tokens>>
    <3>1. Finish(u) /\ ~SaveLogin(u)
      BY <2>2, <2>3 DEF Over, Refuse, TimeOut, SaveLogin, NotSignedIn, RenewLost, Rejected,
             Answer, WriteSnapshot, UseData, RemoveData, Publish, Fail, At, Inside
    <3>2. u # t
      BY <3>1, FinishJob DEF Locked
    <3>3. UNCHANGED <<status, tokens>>
      BY <2>3, <3>1 DEF Over, Refuse, TimeOut, NotSignedIn, RenewLost, Rejected,
             Answer, WriteSnapshot, UseData, RemoveData, Publish, Fail, tables
    <3> QED
      BY <2>2, <3>1, <3>2, <3>3 DEF Finish
  <2>4. ASSUME NEW u \in Task, Works(u)
        PROVE  FALSE
    BY <2>2, <2>4, WorksAdvances DEF Advances, Moved
  <2>5. ASSUME NEW u \in Task, SignIn(u) \/ Enter(u) \/ LockPlayer(u) \/ Exclude(u)
        PROVE  FALSE
    BY <2>2, <2>5 DEF SignIn, Enter, LockPlayer, Exclude, MayExclude, Waiting
  <2>6. ASSUME NEW u \in Task, CopyDatabase(u)
        PROVE  FALSE
    BY <1>1, <2>2, <2>6, SentinelAssumption DEF CopyDatabase, At, Locked, Holding
  <2>7. ASSUME NEW u \in Task, Arrive(u)
        PROVE  UNCHANGED <<staging, status, tokens>>
    BY <2>7 DEF Arrive, Start, Callback, StartBackup, tables
  <2>8. ~Crash
    BY DEF Crash
  <2> QED
    BY <2>1, <2>3, <2>4, <2>5, <2>6, <2>7, <2>8, NextSplit DEF Next, vars
<1>2. CASE job[t] = Idle \/ job[t].step # "copied"
  <2>1. ASSUME NEW u \in Task, Over(u)
        PROVE  FALSE
    <3>1. Finish(u)
      BY <2>1 DEF Over, Refuse, TimeOut, SaveLogin, NotSignedIn, RenewLost, Rejected, Answer,
           WriteSnapshot, UseData, RemoveData, Publish, Fail
    <3> QED
      BY <1>2, <3>1, FinishJob DEF Locked
  <2>2. ASSUME NEW u \in Task, Works(u)
        PROVE  FALSE
    BY <1>2, <2>2, WorksAdvances DEF Advances, Moved, Inside
  <2>3. ASSUME NEW u \in Task, SignIn(u)
        PROVE  FALSE
    <3>1. job[u] \in Job
      BY <2>3 DEF SignIn, At, Locked, Typed
    <3>2. PICK p \in Player :
            job' = [job EXCEPT ![u] = [@ EXCEPT !.step = "entering", !.player = p]]
      BY <2>3 DEF SignIn
    <3>3. job'[u] = [job[u] EXCEPT !.step = "entering", !.player = p]
      BY <3>2 DEF Locked, Typed
    <3>4. job'[u].step = "entering" /\ \A v \in Task \ {u} : job'[v] = job[v]
      BY <3>1, <3>2, <3>3 DEF Locked, Typed, Job
    <3> QED
      BY <1>2, <3>4
  <2>4. ASSUME NEW u \in Task, Enter(u) \/ LockPlayer(u) \/ Exclude(u)
        PROVE  FALSE
    <3>1. job[u] # Idle /\ job[u].token \in Stored
      BY <2>4 DEF Enter, LockPlayer, Exclude, Entering, Waiting, At, Locked, Typed, Job
    <3>2. PICK step \in Step \ {"copied"} : Goto(u, step)
      BY <2>4 DEF Enter, LockPlayer, Exclude, Step
    <3>3. Moved(u, step, job[u].token)
      BY <3>1, <3>2, GoesOn
    <3> QED
      BY <1>2, <3>2, <3>3 DEF Moved
  <2>5. ASSUME NEW u \in Task, CopyDatabase(u)
        PROVE  staging' = [status |-> status', tokens |-> tokens']
    BY <2>5 DEF CopyDatabase, tables
  <2>6. ASSUME NEW u \in Task, Arrive(u)
        PROVE  FALSE
    <3>1. PICK new \in [op : Op, step : {"entering", "signing_in", "excluding"},
                        player : Player \cup {Nobody}, identity : Identity \cup {Nobody},
                        token : Stored] :
            job[u] = Idle /\ job' = [job EXCEPT ![u] = new]
      BY <2>6 DEF Arrive, Start, Callback, StartBackup, Stored, Op
    <3> QED
      BY <1>2, <3>1 DEF Locked, Typed
  <2>7. ~Crash
    BY DEF Crash
  <2> QED
    BY <1>2, <2>1, <2>2, <2>3, <2>4, <2>5, <2>6, <2>7, NextSplit DEF Next, vars
<1> QED
  BY <1>1, <1>2

\* An archive holds one state of the tables and the files, with no deletion halfway.
THEOREM BackupsAreCoherent == Spec => CoherentBackup
<1>1. Init => Frozen
  BY DEF Init, Frozen
<1>2. Spec => []Frozen
  BY <1>1, NextFrozen, LocksInvariant, PTL DEF Spec
<1>3. Locked /\ Frozen /\ [Next]_vars =>
        [\A t \in Task : At(t, {"backup"}, "copied") /\ job'[t] = Idle =>
           /\ staging = [status |-> status, tokens |-> tokens]
           /\ \A u \in Task : Deleting(u) = {}]_vars
  <2> SUFFICES ASSUME Locked, Frozen, NEW t \in Task, At(t, {"backup"}, "copied")
               PROVE  /\ staging = [status |-> status, tokens |-> tokens]
                      /\ \A u \in Task : Deleting(u) = {}
    OBVIOUS
  <2>1. job[t] # Idle /\ job[t].step = "copied"
    BY DEF At
  <2>2. \A u \in Task : Deleting(u) = {}
    BY <2>1, CopyAlone DEF Deleting, At, Inside
  <2> QED
    BY <2>1, <2>2 DEF Frozen
<1> QED
  BY <1>2, <1>3, LocksInvariant, PTL DEF Spec, CoherentBackup

=============================================================================
