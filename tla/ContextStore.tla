---------------------------- MODULE ContextStore ----------------------------
(***************************************************************************)
(* The advisor context of one player: one JSON file, changed by any number *)
(* of processes under a lock file and a revision check, replaced           *)
(* atomically, and read without the lock.  A write is three steps, with    *)
(* failures and crashes between them: under the lock, read, check, mutate  *)
(* and validate; replace the file; make the directory entry durable.       *)
(*                                                                         *)
(* A record is its id; titles, texts, plans and timestamps are left out.   *)
(* The malformed or unsafe file that somebody else put there is not        *)
(* modelled: every read refuses it and nothing here repairs it.            *)
(***************************************************************************)
EXTENDS Integers, FiniteSets

CONSTANTS
  Writer,              \* processes that mutate the context
  Id,                  \* record ids (uuid4: never drawn twice)
  MaxGoals, MaxFacts, MaxRecommendations,
  MaxRevision,         \* bound of the model: no further write is started
  NoOne,               \* the lock is free
  NoOp                 \* the writer is idle

ASSUME LimitAssumption ==
  MaxGoals \in Nat /\ MaxFacts \in Nat /\ MaxRecommendations \in Nat

ASSUME SentinelAssumption == NoOne \notin Writer

VARIABLES
  file,       \* what a reader finds at the path (an empty context when absent)
  survivors,  \* what a reader may find there after the machine loses power
  acked,      \* the highest revision confirmed to a caller
  issued,     \* the ids ever drawn
  lock,       \* the holder of .context.json.lock
  pc,         \* of each writer: "idle", "waiting", "prepared" or "replaced"
  op,         \* the mutation each writer was asked for
  draft       \* the serialized context in its temporary file

vars == <<file, survivors, acked, issued, lock, pc, op, draft>>

Collection == {"goals", "facts", "recommendations"}

Context == [revision : Nat,
            records : [Collection -> SUBSET Id],
            refs : SUBSET (Id \X Id)]  \* goal_ids, as <<recommendation, goal>>

Mutation == [act : {"create", "update", "delete"}, type : Collection, id : Id,
             goal_ids : SUBSET Id, expected : Nat]

EmptyContext ==
  [revision |-> 0, records |-> [c \in Collection |-> {}], refs |-> {}]

-----------------------------------------------------------------------------
(* One mutation                                                            *)

\* An update or a deletion finds its record in its own collection, a recommendation
\* names saved goals, and a goal that is referenced stays.
Applies(context, m) ==
  /\ m.act # "create" => m.id \in context.records[m.type]
  /\ m.type = "recommendations" /\ m.act # "delete" =>
       m.goal_ids \subseteq context.records["goals"]
  /\ m.type = "goals" /\ m.act = "delete" =>
       \A r \in context.records["recommendations"] : <<r, m.id>> \notin context.refs

Result(context, m) ==
  [revision |-> context.revision + 1,
   records |-> [context.records EXCEPT ![m.type] =
                  IF m.act = "delete" THEN @ \ {m.id} ELSE @ \cup {m.id}],
   refs |-> {link \in context.refs : link[1] # m.id} \cup
            (IF m.type = "recommendations" /\ m.act # "delete"
             THEN {m.id} \X m.goal_ids ELSE {})]

\* No id twice, and no reference to a goal that is not there.
Coherent(context) ==
  /\ \A c, d \in Collection : c # d => context.records[c] \cap context.records[d] = {}
  /\ context.refs \subseteq context.records["recommendations"] \X context.records["goals"]

Limit == [goals |-> MaxGoals, facts |-> MaxFacts, recommendations |-> MaxRecommendations]

\* Mutant: a collection is checked before it grows.
ValidBeyondLimit(context) ==
  /\ \A c \in Collection : Cardinality(context.records[c]) <= Limit[c] + 1
  /\ Coherent(context)

\* _validate_context, which every write must pass and every read insists on.
Valid(context) ==
  /\ \A c \in Collection : Cardinality(context.records[c]) <= Limit[c]
  /\ Coherent(context)

-----------------------------------------------------------------------------
Init ==
  /\ file = EmptyContext
  /\ survivors = {EmptyContext}
  /\ acked = 0
  /\ issued = {}
  /\ lock = NoOne
  /\ pc = [w \in Writer |-> "idle"]
  /\ op = [w \in Writer |-> NoOp]
  /\ draft = [w \in Writer |-> EmptyContext]

\* A caller asks for a mutation based on a revision it read or made up; one that is
\* stale already is rejected like one that goes stale while the call waits.  The id
\* of a new record is drawn before the lock is taken.
Start(w, m) ==
  /\ pc[w] = "idle"
  /\ file.revision < MaxRevision /\ file.revision <= m.expected
  /\ m.act = "create" => m.id \notin issued
  /\ m.type # "recommendations" \/ m.act = "delete" => m.goal_ids = {}
  /\ pc' = [pc EXCEPT ![w] = "waiting"]
  /\ op' = [op EXCEPT ![w] = m]
  /\ issued' = IF m.act = "create" THEN issued \cup {m.id} ELSE issued
  /\ UNCHANGED <<file, survivors, acked, lock, draft>>

Accepts(w) ==
  /\ file.revision = op[w].expected
  /\ Applies(file, op[w])
  /\ Valid(Result(file, op[w]))

\* Mutant: the lock is not exclusive.
LockAny(w) == pc[w] = "waiting"

\* flock(LOCK_EX)
MayLock(w) == pc[w] = "waiting" /\ lock = NoOne

\* The lock is taken and the file read again under it.
Prepare(w) ==
  /\ MayLock(w)
  /\ Accepts(w)
  /\ lock' = w
  /\ draft' = [draft EXCEPT ![w] = Result(file, op[w])]
  /\ pc' = [pc EXCEPT ![w] = "prepared"]
  /\ UNCHANGED <<file, survivors, acked, issued, op>>

\* The call is over: its descriptor closes, and a lock it held with it.
Finish(w) ==
  /\ pc' = [pc EXCEPT ![w] = "idle"]
  /\ op' = [op EXCEPT ![w] = NoOp]
  /\ draft' = [draft EXCEPT ![w] = EmptyContext]
  /\ lock' = IF lock = w THEN NoOne ELSE lock

\* ContextConflictError, an unknown record or goal, a goal in use, a limit.
Reject(w) ==
  /\ MayLock(w)
  /\ ~Accepts(w)
  /\ Finish(w)
  /\ UNCHANGED <<file, survivors, acked, issued>>

\* "The advisor context could not be saved safely": too large, or the temporary
\* file could not be written; it is unlinked.
WriteFails(w) ==
  /\ pc[w] = "prepared"
  /\ Finish(w)
  /\ UNCHANGED <<file, survivors, acked, issued>>

\* os.replace
Replace(w) ==
  /\ pc[w] = "prepared"
  /\ file' = draft[w]
  /\ survivors' = survivors \cup {draft[w]}
  /\ pc' = [pc EXCEPT ![w] = "replaced"]
  /\ UNCHANGED <<acked, issued, lock, op, draft>>

\* The directory is synced and the caller gets the new context.
Confirm(w) ==
  /\ pc[w] = "replaced"
  /\ survivors' = {file}
  /\ acked' = IF acked < file.revision THEN file.revision ELSE acked
  /\ Finish(w)
  /\ UNCHANGED <<file, issued>>

\* Mutant: a failed sync is answered like a good one.
AckUncertain(w) == acked' = draft[w].revision

AckNothing(w) == UNCHANGED acked

\* ContextCommitUncertainError: the revision is visible, its durability unknown.
Uncertain(w) ==
  /\ pc[w] = "replaced"
  /\ AckNothing(w)
  /\ Finish(w)
  /\ UNCHANGED <<file, survivors, issued>>

\* A process dies; the kernel drops its lock.
Crash(w) ==
  /\ pc[w] # "idle"
  /\ Finish(w)
  /\ UNCHANGED <<file, survivors, acked, issued>>

PowerLoss ==
  /\ file' \in survivors
  /\ survivors' = {file'}
  /\ lock' = NoOne
  /\ pc' = [w \in Writer |-> "idle"]
  /\ op' = [w \in Writer |-> NoOp]
  /\ draft' = [w \in Writer |-> EmptyContext]
  /\ UNCHANGED <<acked, issued>>

WriterStep(w) ==
  \/ Prepare(w)
  \/ Reject(w)
  \/ WriteFails(w)
  \/ Replace(w)
  \/ Confirm(w)
  \/ Uncertain(w)

\* The requests of the model: expected revisions beyond the bound say nothing new.
Asked == [act : {"create", "update", "delete"}, type : Collection, id : Id,
          goal_ids : SUBSET Id, expected : 0..MaxRevision]

Next ==
  \/ \E w \in Writer : (\E m \in Asked : Start(w, m)) \/ WriterStep(w) \/ Crash(w)
  \/ PowerLoss

Spec == Init /\ [][Next]_vars

-----------------------------------------------------------------------------
(* Properties                                                              *)

\* Every context, in the file, in a draft or on the disk, has the shape of one.
TypeOK ==
  /\ file \in Context
  /\ survivors \in SUBSET Context
  /\ acked \in Nat
  /\ issued \in SUBSET Id
  /\ lock \in Writer \cup {NoOne}
  /\ pc \in [Writer -> {"idle", "waiting", "prepared", "replaced"}]
  /\ op \in [Writer -> Mutation \cup {NoOp}]
  /\ draft \in [Writer -> Context]

\* The store never locks itself out: whatever a reader may find, now or after a power
\* loss, is within its limits, names no id twice and refers to no missing goal.
AlwaysReadable ==
  \A context \in survivors \cup {file} :
    /\ \A c \in Collection : Cardinality(context.records[c]) <= Limit[c]
    /\ Coherent(context)

\* "Concurrent changes must not lose data; a stale revision is rejected"
\* (docs/advisor-acceptance.md): a draft replaces exactly the context it was made
\* from, at the revision its caller named.
NoLostUpdate ==
  [][\A w \in Writer : pc[w] = "prepared" /\ pc'[w] = "replaced" =>
       file.revision = op[w].expected /\ file' = Result(file, op[w])]_vars

\* A revision that a caller got back outlives every crash and power loss.
AckedSurvives == \A context \in survivors \cup {file} : acked <= context.revision

=============================================================================
