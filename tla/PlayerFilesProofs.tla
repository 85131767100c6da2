-------------------------- MODULE PlayerFilesProofs --------------------------
(***************************************************************************)
(* Proofs about the two files of a player that an assistant reads: the     *)
(* advisor context (ContextStore), for any number of writers and ids and   *)
(* any limits, and the snapshot (SnapshotPages), for any catalogue, any    *)
(* sizes of pages and any number of syncs between them.  The two share no  *)
(* state: no theorem is about both.                                        *)
(***************************************************************************)
EXTENDS ContextStore, SnapshotPages, FiniteSetTheorems, SequenceTheorems, TLAPS

-----------------------------------------------------------------------------
(* ContextStore                                                            *)

\* The lock holder owns the file from its read to its answer: what it drafted is
\* still one mutation away from the file, and what it replaced is still there.
Exclusive ==
  \A w \in Writer :
    /\ pc[w] # "idle" => op[w] \in Mutation
    /\ pc[w] \in {"prepared", "replaced"} => lock = w
    /\ pc[w] = "prepared" => /\ file.revision = op[w].expected
                             /\ draft[w] = Result(file, op[w])
                             /\ Valid(draft[w])

\* What is on the disk: the visible file may survive, and everything that may is
\* valid and no older than what was confirmed.
Durable ==
  /\ file \in survivors
  /\ \A context \in survivors : Valid(context) /\ acked <= context.revision

IInv == TypeOK /\ Exclusive /\ Durable

LEMMA EmptyType == EmptyContext \in Context
  BY DEF EmptyContext, Context

LEMMA EmptyValid == Valid(EmptyContext)
<1>1. \A c \in Collection : Limit[c] \in Nat
  BY LimitAssumption DEF Limit, Collection
<1>2. Cardinality({}) = 0
  BY FS_EmptySet
<1>3. \A c \in Collection : EmptyContext.records[c] = {}
  BY DEF EmptyContext
<1>4. EmptyContext.refs = {}
  BY DEF EmptyContext
<1>5. Coherent(EmptyContext)
  BY <1>3, <1>4 DEF Coherent
<1>6. \A c \in Collection : Cardinality(EmptyContext.records[c]) <= Limit[c]
  <2> TAKE c \in Collection
  <2>1. Cardinality(EmptyContext.records[c]) = 0
    BY <1>2, <1>3
  <2>2. Limit[c] \in Nat
    BY <1>1
  <2>3. 0 <= Limit[c]
    BY <2>2
  <2> QED
    BY <2>1, <2>3
<1> QED
  BY <1>5, <1>6 DEF Valid

\* A mutation turns a context into a context of the next revision.
LEMMA ResultType ==
  ASSUME NEW context \in Context, NEW m \in Mutation
  PROVE  /\ Result(context, m) \in Context
         /\ Result(context, m).revision = context.revision + 1
<1>1. [context.records EXCEPT ![m.type] =
         IF m.act = "delete" THEN @ \ {m.id} ELSE @ \cup {m.id}]
        \in [Collection -> SUBSET Id]
  BY DEF Context, Mutation
<1>2. {link \in context.refs : link[1] # m.id} \cup
        (IF m.type = "recommendations" /\ m.act # "delete"
         THEN {m.id} \X m.goal_ids ELSE {}) \in SUBSET (Id \X Id)
  BY DEF Context, Mutation
<1>3. context.revision + 1 \in Nat
  BY DEF Context
<1> QED
  BY <1>1, <1>2, <1>3 DEF Result, Context

LEMMA InitInv == Init => IInv
<1> SUFFICES ASSUME Init
             PROVE  IInv
  OBVIOUS
<1>1. TypeOK
  BY EmptyType DEF Init, TypeOK
<1>2. Exclusive
  BY DEF Init, Exclusive
<1>3. Durable
  BY EmptyValid DEF Init, Durable, EmptyContext
<1> QED
  BY <1>1, <1>2, <1>3 DEF IInv

\* The end of a call disturbs nobody else.
LEMMA FinishInv ==
  ASSUME TypeOK, Exclusive, NEW w \in Writer, Finish(w), UNCHANGED <<file, issued>>
  PROVE  /\ lock' \in Writer \cup {NoOne}
         /\ pc' \in [Writer -> {"idle", "waiting", "prepared", "replaced"}]
         /\ op' \in [Writer -> Mutation \cup {NoOp}]
         /\ draft' \in [Writer -> Context]
         /\ Exclusive'
<1>1. \A v \in Writer \ {w} : pc'[v] = pc[v] /\ op'[v] = op[v] /\ draft'[v] = draft[v]
  BY DEF Finish, TypeOK
<1>2. pc'[w] = "idle"
  BY DEF Finish, TypeOK
<1>3. \A v \in Writer \ {w} : lock = v => lock' = v
  BY DEF Finish
<1>4. Exclusive'
  BY <1>1, <1>2, <1>3 DEF Exclusive
<1> QED
  BY <1>4, EmptyType DEF Finish, TypeOK

LEMMA NextInv == IInv /\ [Next]_vars => IInv'
<1> SUFFICES ASSUME IInv, [Next]_vars
             PROVE  IInv'
  OBVIOUS
<1> USE DEF IInv
<1>1. ASSUME NEW w \in Writer, NEW m \in Asked, Start(w, m)
      PROVE  IInv'
  <2>1. m \in Mutation
    BY DEF Asked, Mutation
  <2>2. TypeOK'
    BY <1>1, <2>1 DEF Start, TypeOK, Mutation
  <2>3. Exclusive'
    BY <1>1, <2>1 DEF Start, Exclusive, TypeOK
  <2> QED
    BY <1>1, <2>2, <2>3 DEF Start, Durable
<1>2. ASSUME NEW w \in Writer, Prepare(w)
      PROVE  IInv'
  <2>1. op[w] \in Mutation
    BY <1>2 DEF Prepare, MayLock, Exclusive
  <2>2. Result(file, op[w]) \in Context
    BY <2>1, ResultType DEF TypeOK
  <2>3. TypeOK'
    BY <1>2, <2>2 DEF Prepare, TypeOK
  <2>4. Exclusive'
    <3>1. \A v \in Writer \ {w} : /\ pc'[v] = pc[v] /\ draft'[v] = draft[v]
                                  /\ pc[v] \notin {"prepared", "replaced"}
      BY <1>2, SentinelAssumption DEF Prepare, MayLock, Exclusive, TypeOK
    <3>2. pc'[w] = "prepared" /\ draft'[w] = Result(file, op[w]) /\ lock' = w
      BY <1>2 DEF Prepare, TypeOK
    <3>3. file.revision = op[w].expected /\ Valid(Result(file, op[w]))
      BY <1>2 DEF Prepare, Accepts
    <3> QED
      BY <1>2, <2>1, <3>1, <3>2, <3>3 DEF Prepare, Exclusive
  <2> QED
    BY <1>2, <2>3, <2>4 DEF Prepare, Durable
<1>3. ASSUME NEW w \in Writer, Reject(w) \/ WriteFails(w) \/ Crash(w)
      PROVE  IInv'
  <2>1. Finish(w) /\ UNCHANGED <<file, survivors, acked, issued>>
    BY <1>3 DEF Reject, WriteFails, Crash
  <2> QED
    BY <2>1, FinishInv DEF TypeOK, Durable
<1>4. ASSUME NEW w \in Writer, Replace(w)
      PROVE  IInv'
  <2>1. /\ op[w] \in Mutation /\ lock = w /\ draft[w] = Result(file, op[w])
        /\ Valid(draft[w])
    BY <1>4 DEF Replace, Exclusive
  <2>2. draft[w] \in Context /\ draft[w].revision = file.revision + 1
    BY <2>1, ResultType DEF TypeOK
  <2>3. TypeOK'
    BY <1>4, <2>2 DEF Replace, TypeOK
  <2>4. Exclusive'
    BY <1>4, <2>1 DEF Replace, Exclusive, TypeOK
  <2>5. acked <= file.revision /\ file.revision \in Nat /\ acked \in Nat
    BY DEF Durable, TypeOK, Context
  <2>6. acked <= draft[w].revision
    BY <2>2, <2>5
  <2>7. Durable'
    BY <1>4, <2>1, <2>6 DEF Replace, Durable
  <2> QED
    BY <2>3, <2>4, <2>7
<1>5. ASSUME NEW w \in Writer, Confirm(w)
      PROVE  IInv'
  <2>1. Finish(w) /\ UNCHANGED <<file, issued>> /\ survivors' = {file}
    BY <1>5 DEF Confirm
  <2>2. acked' \in Nat /\ acked' <= file.revision
    <3>1. file.revision \in Nat /\ acked \in Nat
      BY DEF TypeOK, Context
    <3>2. acked <= file.revision
      BY DEF Durable
    <3>3. acked' = acked \/ acked' = file.revision
      BY <1>5 DEF Confirm
    <3> QED
      BY <3>1, <3>2, <3>3
  <2>3. TypeOK' /\ Exclusive'
    BY <2>1, <2>2, FinishInv DEF TypeOK
  <2>4. Durable'
    BY <2>1, <2>2 DEF Durable
  <2> QED
    BY <2>3, <2>4
<1>6. ASSUME NEW w \in Writer, Uncertain(w)
      PROVE  IInv'
  <2>1. Finish(w) /\ UNCHANGED <<file, survivors, acked, issued>>
    BY <1>6 DEF Uncertain, AckNothing
  <2> QED
    BY <2>1, FinishInv DEF TypeOK, Durable
<1>7. CASE PowerLoss
  <2>1. TypeOK'
    BY <1>7, EmptyType DEF PowerLoss, TypeOK
  <2>2. Exclusive'
    BY <1>7 DEF PowerLoss, Exclusive
  <2>3. Durable'
    BY <1>7 DEF PowerLoss, Durable
  <2> QED
    BY <2>1, <2>2, <2>3
<1>8. CASE UNCHANGED vars
  BY <1>8 DEF vars, TypeOK, Exclusive, Durable
<1> QED
  BY <1>1, <1>2, <1>3, <1>4, <1>5, <1>6, <1>7, <1>8 DEF Next, WriterStep

LEMMA Invariance == Spec => []IInv
  BY InitInv, NextInv, PTL DEF Spec

\* The store's state is always well formed.
THEOREM TypeCorrect == Spec => []TypeOK
  BY Invariance, PTL DEF IInv

\* No write, crash or power loss leaves a context that later reads would refuse.
THEOREM NeverBricked == Spec => []AlwaysReadable
<1>1. IInv => AlwaysReadable
  BY DEF IInv, Durable, AlwaysReadable, Valid
<1> QED
  BY <1>1, Invariance, PTL

\* A confirmed revision is never lost.
THEOREM ConfirmedIsDurable == Spec => []AckedSurvives
<1>1. IInv => AckedSurvives
  BY DEF IInv, Durable, AckedSurvives
<1> QED
  BY <1>1, Invariance, PTL

\* However writers interleave, fail and crash, no mutation overwrites another.
THEOREM UpdatesAreAtomic == Spec => NoLostUpdate
<1>1. ASSUME IInv, [Next]_vars, NEW w \in Writer, pc[w] = "prepared", pc'[w] = "replaced"
      PROVE  file.revision = op[w].expected /\ file' = Result(file, op[w])
  <2>1. Replace(w)
    BY <1>1 DEF IInv, TypeOK, Next, WriterStep, Start, Prepare, Reject, WriteFails, Replace,
                Confirm, Uncertain, Crash, Finish, PowerLoss, vars
  <2> QED
    BY <1>1, <2>1 DEF IInv, Exclusive, Replace
<1>2. IInv /\ [Next]_vars =>
        [\A w \in Writer : pc[w] = "prepared" /\ pc'[w] = "replaced" =>
           file.revision = op[w].expected /\ file' = Result(file, op[w])]_vars
  BY <1>1
<1> QED
  BY <1>2, Invariance, PTL DEF Spec, NoLostUpdate

-----------------------------------------------------------------------------
(* SnapshotPages: listings                                                 *)

\* A strict total order of the members of S
Orders(before, S) ==
  /\ \A c \in S : <<c, c>> \notin before
  /\ \A c, d, e \in S : <<c, d>> \in before /\ <<d, e>> \in before => <<c, e>> \in before
  /\ \A c, d \in S : c = d \/ <<c, d>> \in before \/ <<d, c>> \in before

\* A listing has every member once, in order: two members differ in how many are before
\* them, and there are as many places as members.
LEMMA ListedOnce ==
  ASSUME NEW S, IsFiniteSet(S), NEW before, Orders(before, S)
  PROVE  /\ Listed(S, before) \in Seq(S)
         /\ Len(Listed(S, before)) = Cardinality(S)
         /\ \A c \in S : \E n \in 1..Cardinality(S) : Listed(S, before)[n] = c
         /\ \A m, n \in 1..Cardinality(S) :
              m < n => <<Listed(S, before)[m], Listed(S, before)[n]>> \in before
<1> DEFINE size == Cardinality(S)
           prior == [c \in S |-> {d \in S : <<d, c>> \in before}]
           count == [c \in S |-> Cardinality(prior[c])]
           place == [c \in S |-> count[c] + 1]
           listed == Listed(S, before)
<1>1. size \in Nat /\ IsFiniteSet(1..size) /\ Cardinality(1..size) = size
  BY FS_CardinalityType, FS_Interval
<1>2. \A c, d \in S : d \in prior[c] <=> <<d, c>> \in before
  OBVIOUS
<1>3. \A c \in S : prior[c] \in SUBSET S /\ count[c] = Cardinality(prior[c])
  OBVIOUS
<1>4. \A n \in 1..size : listed[n] = CHOOSE c \in S : count[c] = n - 1
  <2>1. \A n \in 1..size : listed[n] = CHOOSE c \in S : Cardinality(prior[c]) = n - 1
    BY DEF Listed
  <2>2. ASSUME NEW n
        PROVE  (CHOOSE c \in S : Cardinality(prior[c]) = n - 1) = CHOOSE c \in S : count[c] = n - 1
    OBVIOUS
  <2> QED
    BY <2>1, <2>2
<1>5. listed = [n \in 1..size |-> listed[n]]
  <2> DEFINE nth(n) == CHOOSE c \in S : Cardinality({d \in S : <<d, c>> \in before}) = n - 1
  <2>1. listed = [n \in 1..size |-> nth(n)]
    BY DEF Listed
  <2> HIDE DEF listed, nth
  <2>2. \A n \in 1..size : listed[n] = nth(n)
    BY <2>1
  <2> QED
    BY <2>1, <2>2
<1> HIDE DEF prior, count, listed
<1>6. ASSUME NEW c \in S
      PROVE  IsFiniteSet(prior[c]) /\ count[c] \in 0..(size - 1)
  <2>1. IsFiniteSet(S \ {c}) /\ Cardinality(S \ {c}) = size - 1
    BY FS_RemoveElement
  <2>2. prior[c] \in SUBSET (S \ {c})
    BY <1>2, <1>3 DEF Orders
  <2>3. IsFiniteSet(prior[c]) /\ Cardinality(prior[c]) <= size - 1
    BY <2>1, <2>2, FS_Subset
  <2>4. Cardinality(prior[c]) \in Nat
    BY <2>3, FS_CardinalityType
  <2> QED
    BY <1>1, <1>3, <2>3, <2>4
<1>7. ASSUME NEW c \in S, NEW d \in S, <<c, d>> \in before
      PROVE  count[c] < count[d]
  <2>1. prior[c] \in SUBSET prior[d]
    BY <1>2, <1>3, <1>7 DEF Orders
  <2>2. c \in prior[d] /\ c \notin prior[c]
    BY <1>2, <1>7 DEF Orders
  <2>3. /\ Cardinality(prior[c]) <= Cardinality(prior[d])
        /\ Cardinality(prior[c]) # Cardinality(prior[d])
    BY <1>6, <2>1, <2>2, FS_Subset
  <2> QED
    BY <1>3, <1>6, <2>3
<1>8. \A c, d \in S : count[c] = count[d] => c = d
  <2> SUFFICES ASSUME NEW c \in S, NEW d \in S, count[c] = count[d], c # d PROVE FALSE
    OBVIOUS
  <2>1. <<c, d>> \in before \/ <<d, c>> \in before
    BY DEF Orders
  <2>2. ~(count[c] < count[d]) /\ ~(count[d] < count[c])
    BY <1>6
  <2> QED
    BY <1>7, <2>1, <2>2
<1>9. place \in [S -> 1..size]
  BY <1>1, <1>6
<1>10. \A c, d \in S : place[c] = place[d] => c = d
  BY <1>6, <1>8
<1>11. place \in Injection(S, 1..size)
  BY <1>9, <1>10 DEF Injection, IsInjective
<1>12. place \in Surjection(S, 1..size)
  BY <1>1, <1>11, FS_Injection
<1>13. \A n \in 1..size : \E c \in S : count[c] = n - 1
  <2>1. \A n \in 1..size : \E c \in S : place[c] = n
    BY <1>12 DEF Surjection
  <2> QED
    BY <1>6, <2>1
<1>14. \A n \in 1..size : listed[n] \in S /\ count[listed[n]] = n - 1
  BY <1>4, <1>13
<1>15. listed \in Seq(S) /\ Len(listed) = size
  BY <1>1, <1>5, <1>14
<1>16. ASSUME NEW c \in S PROVE \E n \in 1..size : listed[n] = c
  <2>1. place[c] \in 1..size /\ count[c] = place[c] - 1
    BY <1>6, <1>9
  <2>2. listed[place[c]] \in S /\ count[listed[place[c]]] = count[c]
    BY <1>14, <2>1
  <2> QED
    BY <1>8, <2>1, <2>2
<1>17. ASSUME NEW m \in 1..size, NEW n \in 1..size, m < n
       PROVE  <<listed[m], listed[n]>> \in before
  <2>1. /\ listed[m] \in S /\ listed[n] \in S
        /\ count[listed[m]] = m - 1 /\ count[listed[n]] = n - 1
    BY <1>14
  <2>2. listed[m] # listed[n] /\ <<listed[n], listed[m]>> \notin before
    BY <1>7, <1>17, <2>1
  <2> QED
    BY <2>1, <2>2 DEF Orders
<1> QED
  BY <1>15, <1>16, <1>17 DEF listed

\* MSF's catalogue has every character once, in its order.
LEMMA SortedOnce ==
  ASSUME NEW S \in SUBSET Character
  PROVE  /\ Sorted(S) \in Seq(S)
         /\ Len(Sorted(S)) = Cardinality(S)
         /\ \A c \in S : \E n \in 1..Cardinality(S) : Sorted(S)[n] = c
         /\ \A m, n \in 1..Cardinality(S) : m < n => Sorted(S)[m] < Sorted(S)[n]
<1> DEFINE before == {pair \in S \X S : pair[1] < pair[2]}
<1>1. \A c, d : <<c, d>> \in before <=> c \in S /\ d \in S /\ c < d
  OBVIOUS
<1>2. S \subseteq Nat /\ IsFiniteSet(S)
  BY CharacterAssumption, FS_Subset
<1>3. Sorted(S) = Listed(S, before)
  BY DEF Sorted
<1> HIDE DEF before
<1>4. Orders(before, S)
  BY <1>1, <1>2 DEF Orders
<1>5. /\ Listed(S, before) \in Seq(S) /\ Len(Listed(S, before)) = Cardinality(S)
      /\ \A c \in S : \E n \in 1..Cardinality(S) : Listed(S, before)[n] = c
      /\ \A m, n \in 1..Cardinality(S) :
           m < n => <<Listed(S, before)[m], Listed(S, before)[n]>> \in before
  BY <1>2, <1>4, ListedOnce
<1> QED
  BY <1>1, <1>3, <1>5

\* The roster lists every owned character once, the strongest first, and those of one power
\* by id.  (roster, snapshot.py:128)
THEOREM RankedOnce ==
  ASSUME NEW roster \in Rosters
  PROVE  LET size == Cardinality(DOMAIN roster)
             rank == Ranked(roster)
         IN /\ rank \in Seq(Character) /\ Len(rank) = size
            /\ \A c \in DOMAIN roster : \E n \in 1..size : rank[n] = c
            /\ \A m, n \in 1..size : m < n =>
                 \/ roster[rank[m]] > roster[rank[n]]
                 \/ roster[rank[m]] = roster[rank[n]] /\ rank[m] < rank[n]
<1> DEFINE S == DOMAIN roster
           before == {pair \in S \X S :
             \/ roster[pair[1]] > roster[pair[2]]
             \/ roster[pair[1]] = roster[pair[2]] /\ pair[1] < pair[2]}
<1>1. \A c, d : <<c, d>> \in before <=>
        c \in S /\ d \in S /\ (roster[c] > roster[d] \/ (roster[c] = roster[d] /\ c < d))
  OBVIOUS
<1>2. S \subseteq Nat /\ IsFiniteSet(S) /\ S \subseteq Character
  BY CharacterAssumption, RosterAssumption, FS_Subset
<1>3. \A c \in S : roster[c] \in Int
  BY RosterAssumption
<1>4. Ranked(roster) = Listed(S, before)
  BY DEF Ranked
<1> HIDE DEF before
<1>5. Orders(before, S)
  BY <1>1, <1>2, <1>3 DEF Orders
<1>6. /\ Listed(S, before) \in Seq(S) /\ Len(Listed(S, before)) = Cardinality(S)
      /\ \A c \in S : \E n \in 1..Cardinality(S) : Listed(S, before)[n] = c
      /\ \A m, n \in 1..Cardinality(S) :
           m < n => <<Listed(S, before)[m], Listed(S, before)[n]>> \in before
  BY <1>2, <1>5, ListedOnce
<1>7. Listed(S, before) \in Seq(Character)
  BY <1>2, <1>6, SeqMonotonic
<1> QED
  BY <1>1, <1>4, <1>6, <1>7

-----------------------------------------------------------------------------
(* SnapshotPages: the inductive invariant                                  *)

\* What a sync saves, and what it holds
Saved == [roster : Rosters, whole : BOOLEAN, first : SUBSET Character,
          catalogue : [rows : Seq(Character) \cup {Idle}, stamp : Nat]]

Fetch == [roster : Rosters, at : {"pages", "fetched", "write"}, page : Nat \ {0},
          records : Seq(Character), first : SUBSET Character, change : Nat]

\* A catalogue that has a date is that of the sync of this date, wherever it was kept.
FilesTrue ==
  /\ written \in Seq(Saved)
  /\ \A n \in DOMAIN written :
       LET catalogue == written[n].catalogue IN
       /\ catalogue.stamp \in 0..n
       /\ catalogue.stamp # 0 =>
            /\ catalogue.rows \in Seq(Character)
            /\ catalogue = written[catalogue.stamp].catalogue

\* A sync in whose time the catalogue did not change holds the pages before the one it asks
\* for, and those are all there is of them.
SyncTrue ==
  /\ upstream \in SUBSET Character /\ changes \in 0..MaxChanges
  /\ sync # Idle =>
       /\ sync \in Fetch
       /\ sync.change <= changes
       /\ sync.at = "write" => sync.records = <<>>
       /\ sync.change = changes =>
            LET whole == Sorted(sync.first)
                before == (sync.page - 1) * PerPage
            IN /\ upstream = sync.first
               /\ sync.at = "pages" =>
                    before <= Len(whole) /\ sync.records = SubSeq(whole, 1, before)
               /\ sync.at = "fetched" => sync.records = whole

\* The list of the sync `stamp`
RowsOf(list, stamp) ==
  IF list = "roster" THEN Ranked(written[stamp].roster) ELSE written[stamp].catalogue.rows

\* A reader that saw one date has what comes before its offset in the list of that date.
ReaderTrue ==
  reader # Idle =>
    /\ reader \in [list : {"roster", "characters"}, limit : PageLimit, offset : Nat \cup {-1},
                   got : Seq(Character), stamps : SUBSET (1..Len(written))]
    /\ reader.stamps # {}
    /\ \A stamp \in reader.stamps :
         /\ reader.list = "characters" => written[stamp].catalogue.stamp = stamp
         /\ reader.stamps = {stamp} =>
              LET rows == RowsOf(reader.list, stamp) IN
              IF reader.offset = -1 THEN reader.got = rows
              ELSE reader.offset <= Len(rows) /\ reader.got = SubSeq(rows, 1, reader.offset)

PagesInv == FilesTrue /\ SyncTrue /\ ReaderTrue /\ CatalogueWhole

\* Where a slice of rows ends
End(rows, to) == IF to < Len(rows) THEN to ELSE Len(rows)

\* A page continues what comes before it.
LEMMA SliceContinues ==
  ASSUME NEW S, NEW rows \in Seq(S), NEW from \in Nat, NEW to \in Nat, from <= to
  PROVE  /\ Slice(rows, from, to) \in Seq(S)
         /\ from <= Len(rows) =>
              /\ End(rows, to) \in from..Len(rows)
              /\ SubSeq(rows, 1, from) \o Slice(rows, from, to) = SubSeq(rows, 1, End(rows, to))
              /\ Len(Slice(rows, from, to)) = End(rows, to) - from
<1> DEFINE end == End(rows, to)
<1>1. Len(rows) \in Nat /\ end \in Nat /\ end <= Len(rows)
  BY LenProperties DEF End
<1>2. \A i \in (from + 1)..end : rows[i] \in S
  <2>1. \A i \in (from + 1)..end : i \in 1..Len(rows)
    BY <1>1
  <2> QED
    BY <2>1, ElementOfSeq
<1> HIDE DEF end
<1>3. /\ SubSeq(rows, from + 1, end) \in Seq(S)
      /\ Len(SubSeq(rows, from + 1, end)) = IF from + 1 <= end THEN end - (from + 1) + 1 ELSE 0
  BY <1>1, <1>2, SubSeqProperties
<1>4. ASSUME from <= Len(rows)
      PROVE  /\ end \in from..Len(rows)
             /\ SubSeq(rows, 1, from) \o SubSeq(rows, from + 1, end) = SubSeq(rows, 1, end)
  <2>1. end \in from..Len(rows)
    BY <1>1, <1>4 DEF end, End
  <2>2. 1 \in 1..Len(rows) + 1 /\ from \in 1 - 1..Len(rows)
    BY <1>1, <1>4
  <2> QED
    BY <2>1, <2>2, ConcatAdjacentSubSeq
<1>5. Slice(rows, from, to) = SubSeq(rows, from + 1, end)
  BY DEF Slice, end, End
<1>6. ASSUME from <= Len(rows) PROVE Len(SubSeq(rows, from + 1, end)) = end - from
  BY <1>1, <1>3, <1>4, <1>6
<1>7. /\ Slice(rows, from, to) \in Seq(S)
      /\ from <= Len(rows) =>
           /\ end \in from..Len(rows)
           /\ SubSeq(rows, 1, from) \o Slice(rows, from, to) = SubSeq(rows, 1, end)
           /\ Len(Slice(rows, from, to)) = end - from
  BY <1>3, <1>4, <1>5, <1>6
<1> QED
  BY <1>7 DEF end

LEMMA PagesInit == InitPages => PagesInv
BY PageAssumption DEF InitPages, PagesInv, FilesTrue, SyncTrue, ReaderTrue, CatalogueWhole

-----------------------------------------------------------------------------
(* SnapshotPages: syncs                                                    *)

LEMMA ChangeSync ==
  ASSUME SyncTrue, NEW c \in Character, Change(c)
  PROVE  SyncTrue'
BY PageAssumption DEF SyncTrue, Fetch, Change

LEMMA StartSyncTrue ==
  ASSUME SyncTrue, NEW roster \in Rosters, NEW characters \in BOOLEAN,
         StartSync(roster, characters)
  PROVE  SyncTrue'
<1>1. Sorted(upstream) \in Seq(upstream)
  BY SortedOnce DEF SyncTrue
<1>2. SubSeq(Sorted(upstream), 1, 0) = <<>> /\ Len(Sorted(upstream)) \in Nat
  BY <1>1, SubSeqEmpty
<1>3. (1 - 1) * PerPage = 0
  BY PageAssumption
<1> QED
  BY <1>2, <1>3, PageAssumption DEF SyncTrue, Fetch, StartSync

LEMMA FetchPageTrue ==
  ASSUME SyncTrue, FetchPage
  PROVE  SyncTrue'
<1> USE DEF Fetch
<1> DEFINE whole == Sorted(upstream)
           before == (sync.page - 1) * PerPage
           records == Page(sync.page)
<1>1. /\ sync # Idle /\ sync.at = "pages"
      /\ sync \in Fetch
      /\ sync.change <= changes
  BY DEF FetchPage, SyncTrue
<1>2. /\ PerPage \in Nat \ {0} /\ before \in Nat
      /\ sync.page * PerPage = before + PerPage
      /\ ((sync.page + 1) - 1) * PerPage = before + PerPage
  BY <1>1, PageAssumption
<1>3. whole \in Seq(Character) /\ Len(whole) \in Nat
  BY SortedOnce, SeqMonotonic, LenProperties DEF SyncTrue
<1>4. records = Slice(whole, before, before + PerPage)
  BY <1>2 DEF Page
<1> HIDE DEF whole, before, records
<1>5. records \in Seq(Character) /\ sync.records \o records \in Seq(Character)
  BY <1>1, <1>2, <1>3, <1>4, SliceContinues
<1>6. /\ sync' = [sync EXCEPT
           !.records = sync.records \o records,
           !.page = IF LastPage(records) THEN sync.page ELSE sync.page + 1,
           !.at = IF LastPage(records) THEN "fetched" ELSE "pages"]
      /\ upstream' = upstream /\ changes' = changes
  BY DEF FetchPage, records
<1>7. ASSUME sync.change = changes
      PROVE  /\ upstream = sync.first
             /\ IF LastPage(records) THEN sync.records \o records = whole
                ELSE /\ before + PerPage <= Len(whole)
                     /\ sync.records \o records = SubSeq(whole, 1, before + PerPage)
  <2>1. upstream = sync.first /\ before <= Len(whole) /\ sync.records = SubSeq(whole, 1, before)
    BY <1>1, <1>7 DEF SyncTrue, whole, before
  <2> DEFINE end == End(whole, before + PerPage)
  <2>2. before + PerPage \in Nat /\ before <= before + PerPage
    BY <1>2
  <2>3. /\ end \in before..Len(whole)
        /\ SubSeq(whole, 1, before) \o records = SubSeq(whole, 1, end)
        /\ Len(records) = end - before
    <3> HIDE DEF end
    <3>1. /\ end \in before..Len(whole)
          /\ SubSeq(whole, 1, before) \o Slice(whole, before, before + PerPage)
               = SubSeq(whole, 1, end)
          /\ Len(Slice(whole, before, before + PerPage)) = end - before
      BY <1>2, <1>3, <2>1, <2>2, SliceContinues DEF end
    <3> QED
      BY <1>4, <3>1
  <2>4. SubSeq(whole, 1, Len(whole)) = whole
    BY <1>3, SubSeqFull
  <2>5. end \in Nat /\ end >= before /\ (LastPage(records) <=> end - before < PerPage)
    BY <1>2, <1>3, <2>3 DEF LastPage
  <2>6. IF before + PerPage < Len(whole) THEN end = before + PerPage ELSE end = Len(whole)
    BY DEF end, End
  <2> HIDE DEF end
  <2>7. CASE LastPage(records)
    <3>1. end = Len(whole)
      BY <1>2, <1>3, <2>5, <2>6, <2>7
    <3> QED
      BY <2>1, <2>3, <2>4, <2>7, <3>1
  <2>8. CASE ~LastPage(records)
    <3>1. end = before + PerPage /\ end <= Len(whole)
      BY <1>2, <1>3, <2>5, <2>6, <2>8
    <3> QED
      BY <2>1, <2>3, <2>8, <3>1
  <2> QED
    BY <2>7, <2>8
<1>8. CASE LastPage(records)
  <2>1. /\ sync' = [sync EXCEPT !.records = sync.records \o records, !.page = sync.page,
                               !.at = "fetched"]
        /\ upstream' = upstream /\ changes' = changes
    BY <1>6, <1>8
  <2>2. sync.change = changes =>
          upstream = sync.first /\ sync.records \o records = Sorted(upstream)
    BY <1>7, <1>8 DEF whole
  <2> QED
    BY <1>1, <1>5, <2>1, <2>2 DEF SyncTrue
<1>9. CASE ~LastPage(records)
  <2>1. /\ sync' = [sync EXCEPT !.records = sync.records \o records, !.page = sync.page + 1,
                               !.at = "pages"]
        /\ upstream' = upstream /\ changes' = changes
    BY <1>6, <1>9
  <2>2. sync.change = changes =>
          /\ upstream = sync.first /\ before + PerPage <= Len(Sorted(upstream))
          /\ sync.records \o records = SubSeq(Sorted(upstream), 1, before + PerPage)
    BY <1>7, <1>9 DEF whole
  <2>3. sync.page + 1 \in Nat \ {0}
    BY <1>1
  <2>4. /\ sync'.at = "pages" /\ sync'.change = sync.change /\ sync'.first = sync.first
        /\ sync'.records = sync.records \o records /\ sync'.page = sync.page + 1
        /\ sync'.page \in Nat \ {0}
        /\ sync' = [roster |-> sync.roster, at |-> "pages", page |-> sync.page + 1,
                    records |-> sync.records \o records, first |-> sync.first,
                    change |-> sync.change]
    BY <1>1, <2>3, <2>1
  <2>5. (sync'.page - 1) * PerPage = before + PerPage
    BY <1>2, <2>4
  <2>6. sync' \in Fetch
    BY <1>1, <1>5, <2>3, <2>4
  <2>7. sync'.change = changes' =>
          /\ upstream' = sync'.first
          /\ (sync'.page - 1) * PerPage <= Len(Sorted(sync'.first))
          /\ sync'.records = SubSeq(Sorted(sync'.first), 1, (sync'.page - 1) * PerPage)
    BY <2>1, <2>2, <2>4, <2>5
  <2> QED
    BY <1>1, <2>1, <2>4, <2>6, <2>7 DEF SyncTrue
<1> QED
  BY <1>8, <1>9

LEMMA SavedFiles ==
  ASSUME FilesTrue
  PROVE  /\ Len(written) \in Nat /\ DOMAIN written = 1..Len(written)
         /\ \A n \in 1..Len(written) : written[n] \in Saved /\ written[n].roster \in Rosters
<1>1. Len(written) \in Nat /\ DOMAIN written = 1..Len(written)
  BY LenProperties DEF FilesTrue
<1>2. \A n \in 1..Len(written) : written[n] \in Saved
  BY ElementOfSeq DEF FilesTrue
<1>3. \A saved \in Saved : saved.roster \in Rosters
  BY DEF Saved
<1> QED
  BY <1>1, <1>2, <1>3

LEMMA WriteTrue ==
  ASSUME FilesTrue, SyncTrue, ReaderTrue, CatalogueWhole, Write
  PROVE  FilesTrue' /\ ReaderTrue' /\ CatalogueWhole'
<1> USE DEF Fetch, Saved
<1> DEFINE n == Len(written) + 1
           catalogue == IF sync.at = "write" THEN Kept
                        ELSE [rows |-> sync.records, stamp |-> n]
           new == [roster |-> sync.roster, catalogue |-> catalogue,
                   whole |-> sync.change = changes, first |-> sync.first]
<1>1. /\ sync \in Fetch
      /\ sync.at \in {"fetched", "write"}
      /\ written' = Append(written, new) /\ reader' = reader
  BY DEF Write, SyncTrue
<1>2. written \in Seq(Saved) /\ Len(written) \in Nat /\ DOMAIN written = 1..Len(written)
  BY LenProperties DEF FilesTrue
<1>3. /\ catalogue \in [rows : Seq(Character) \cup {Idle}, stamp : Nat]
      /\ catalogue.stamp \in 0..n
      /\ catalogue.stamp # 0 => catalogue.rows \in Seq(Character)
      /\ catalogue.stamp \in 1..Len(written) =>
           catalogue = written[catalogue.stamp].catalogue
      /\ sync.at = "write" => catalogue.stamp \in 0..Len(written)
      /\ sync.at # "write" => catalogue.stamp = n /\ catalogue.rows = sync.records
  <2>1. CASE sync.at = "write" /\ written = <<>>
    BY <1>2, <2>1 DEF Kept
  <2>2. CASE sync.at = "write" /\ written # <<>>
    <3>1. Len(written) \in 1..Len(written)
      BY <1>2, <2>2, EmptySeq
    <3>2. catalogue = written[Len(written)].catalogue
      BY <2>2 DEF Kept, File
    <3>3. written[Len(written)] \in Saved
      BY <1>2, <3>1, ElementOfSeq
    <3> HIDE DEF catalogue
    <3> QED
      BY <1>2, <2>2, <3>1, <3>2, <3>3 DEF FilesTrue
  <2>3. CASE sync.at # "write"
    BY <1>1, <1>2, <2>3
  <2> QED
    BY <2>1, <2>2, <2>3
<1> HIDE DEF catalogue
<1>4. /\ new \in Saved /\ new.catalogue = catalogue /\ new.roster = sync.roster
      /\ new.whole = (sync.change = changes) /\ new.first = sync.first
  BY <1>1, <1>3
<1> HIDE DEF new
<1>5. /\ written' \in Seq(Saved) /\ Len(written') = n /\ DOMAIN written' = 1..n
      /\ written'[n] = new /\ \A k \in 1..Len(written) : written'[k] = written[k]
  BY <1>1, <1>2, <1>4
<1> HIDE DEF Saved
<1>6. FilesTrue'
  <2>1. ASSUME NEW k \in 1..Len(written)
        PROVE  /\ written'[k].catalogue.stamp \in 0..k
               /\ written'[k].catalogue.stamp # 0 =>
                    /\ written'[k].catalogue.rows \in Seq(Character)
                    /\ written'[k].catalogue = written'[written'[k].catalogue.stamp].catalogue
    BY <1>2, <1>5 DEF FilesTrue
  <2>2. /\ written'[n].catalogue.stamp \in 0..n
        /\ written'[n].catalogue.stamp # 0 =>
             /\ written'[n].catalogue.rows \in Seq(Character)
             /\ written'[n].catalogue = written'[written'[n].catalogue.stamp].catalogue
    BY <1>2, <1>3, <1>4, <1>5
  <2>3. \A k \in 1..n : k \in 1..Len(written) \/ k = n
    BY <1>2
  <2> QED
    BY <1>5, <2>1, <2>2, <2>3 DEF FilesTrue
<1>7. CatalogueWhole'
  <2>1. ASSUME NEW k \in 1..Len(written), written'[k].whole, written'[k].catalogue.stamp = k
        PROVE  written'[k].catalogue.rows = Sorted(written'[k].first)
    BY <1>2, <1>5, <2>1 DEF CatalogueWhole
  <2>2. ASSUME new.whole, catalogue.stamp = n
        PROVE  catalogue.rows = Sorted(new.first)
    <3>1. sync.at = "fetched"
      BY <1>1, <1>2, <1>3, <2>2
    <3>2. sync.change = changes
      BY <1>4, <2>2
    <3>3. sync # Idle
      BY DEF Write
    <3> QED
      BY <1>3, <1>4, <3>1, <3>2, <3>3 DEF SyncTrue
  <2>3. \A k \in 1..n : k \in 1..Len(written) \/ k = n
    BY <1>2
  <2> QED
    BY <1>4, <1>5, <2>1, <2>2, <2>3 DEF CatalogueWhole
<1>8. ReaderTrue'
  <2>1. SUFFICES ASSUME reader # Idle PROVE ReaderTrue'
    BY <1>1 DEF ReaderTrue
  <2>2. /\ 1..Len(written) \subseteq 1..Len(written')
        /\ \A stamp \in reader.stamps : written'[stamp] = written[stamp]
    BY <1>2, <1>5, <2>1 DEF ReaderTrue
  <2> QED
    BY <1>1, <2>1, <2>2 DEF ReaderTrue, RowsOf
<1> QED
  BY <1>6, <1>7, <1>8

-----------------------------------------------------------------------------
(* SnapshotPages: readers                                                  *)

\* What a page is cut from is the list of the sync whose date it carries.
LEMMA RowsDated ==
  ASSUME FilesTrue, NEW list \in {"roster", "characters"}, Available(list)
  PROVE  /\ Stamp(list) \in 1..Len(written)
         /\ list = "characters" => written[Stamp(list)].catalogue.stamp = Stamp(list)
         /\ Rows(list) = RowsOf(list, Stamp(list))
         /\ Rows(list) \in Seq(Character)
<1>1. Len(written) \in 1..Len(written) /\ DOMAIN written = 1..Len(written)
  BY SavedFiles, EmptySeq DEF FilesTrue, Available
<1>2. written[Len(written)].roster \in Rosters
  BY <1>1, SavedFiles
<1>3. CASE list = "roster"
  BY <1>1, <1>2, <1>3, RankedOnce DEF Stamp, Rows, RowsOf, File
<1>4. CASE list = "characters"
  <2>1. /\ File.catalogue.stamp \in 1..Len(written)
        /\ File.catalogue.rows \in Seq(Character)
        /\ File.catalogue = written[File.catalogue.stamp].catalogue
    BY <1>1, <1>4 DEF FilesTrue, Available, File
  <2> QED
    BY <1>4, <2>1 DEF Stamp, Rows, RowsOf
<1> QED
  BY <1>3, <1>4

\* A page that carries the date of those before it continues them.
LEMMA ReadsTrue ==
  ASSUME FilesTrue, written' = written,
         NEW list \in {"roster", "characters"}, NEW limit \in PageLimit, NEW offset \in Nat,
         NEW got \in Seq(Character), NEW stamps \in SUBSET (1..Len(written)),
         Available(list), Reads(list, offset, limit, got, stamps),
         \A stamp \in stamps : list = "characters" => written[stamp].catalogue.stamp = stamp,
         stamps \subseteq {Stamp(list)} =>
           /\ offset <= Len(Rows(list))
           /\ got = SubSeq(Rows(list), 1, offset)
  PROVE  ReaderTrue'
<1> DEFINE rows == Rows(list)
           next == NextOffset(offset, limit, Len(rows))
           page == Slice(rows, offset, offset + limit)
           seen == stamps \cup {Stamp(list)}
<1>1. /\ Stamp(list) \in 1..Len(written) /\ rows \in Seq(Character)
      /\ list = "characters" => written[Stamp(list)].catalogue.stamp = Stamp(list)
      /\ rows = RowsOf(list, Stamp(list))
  BY RowsDated
<1>2. limit \in Nat \ {0} /\ Len(rows) \in Nat
  BY <1>1, PageAssumption, LenProperties
<1>3. reader' = [list |-> list, limit |-> limit, offset |-> next, got |-> got \o page,
                 stamps |-> seen]
  BY DEF Reads
<1> HIDE DEF rows
<1>4. next \in Nat \cup {-1}
  BY <1>2 DEF NextOffset
<1>5. page \in Seq(Character) /\ got \o page \in Seq(Character)
  BY <1>1, <1>2, SliceContinues
<1>6. ASSUME stamps \subseteq {Stamp(list)}
      PROVE  IF next = -1 THEN got \o page = rows
             ELSE next <= Len(rows) /\ got \o page = SubSeq(rows, 1, next)
  <2>1. offset <= Len(rows) /\ got = SubSeq(rows, 1, offset)
    BY <1>6 DEF rows
  <2>2. offset + limit \in Nat /\ offset <= offset + limit
    BY <1>2
  <2>3. got \o page = SubSeq(rows, 1, End(rows, offset + limit))
    <3>1. SubSeq(rows, 1, offset) \o page = SubSeq(rows, 1, End(rows, offset + limit))
      BY <1>1, <2>1, <2>2, SliceContinues
    <3> QED
      BY <2>1, <3>1
  <2>4. SubSeq(rows, 1, Len(rows)) = rows
    BY <1>1, SubSeqFull
  <2>5. CASE offset + limit < Len(rows)
    <3>1. next = offset + limit /\ End(rows, offset + limit) = next
      BY <2>5 DEF NextOffset, End
    <3>2. next # -1 /\ next <= Len(rows)
      BY <1>2, <2>2, <2>5, <3>1
    <3> QED
      BY <2>3, <3>1, <3>2
  <2>6. CASE ~(offset + limit < Len(rows))
    <3>1. next = -1 /\ End(rows, offset + limit) = Len(rows)
      BY <2>6 DEF NextOffset, End
    <3> QED
      BY <2>3, <2>4, <3>1
  <2> QED
    BY <2>5, <2>6
<1> HIDE DEF next, page
<1>7. /\ reader' \in [list : {"roster", "characters"}, limit : PageLimit, offset : Nat \cup {-1},
                      got : Seq(Character), stamps : SUBSET (1..Len(written'))]
      /\ reader'.stamps # {}
  BY <1>1, <1>3, <1>4, <1>5
<1>8. ASSUME NEW stamp \in seen
      PROVE  /\ list = "characters" => written'[stamp].catalogue.stamp = stamp
             /\ seen = {stamp} =>
                  /\ stamps \subseteq {Stamp(list)}
                  /\ rows = IF list = "roster" THEN Ranked(written'[stamp].roster)
                            ELSE written'[stamp].catalogue.rows
  <2>1. stamps \subseteq seen /\ Stamp(list) \in seen /\ (stamp \in stamps \/ stamp = Stamp(list))
    OBVIOUS
  <2> HIDE DEF seen
  <2>2. seen = {stamp} => stamp = Stamp(list) /\ stamps \subseteq {Stamp(list)}
    BY <2>1
  <2>3. list = "characters" => written'[stamp].catalogue.stamp = stamp
    BY <1>1, <2>1
  <2>4. rows = IF list = "roster" THEN Ranked(written[Stamp(list)].roster)
               ELSE written[Stamp(list)].catalogue.rows
    BY <1>1 DEF RowsOf
  <2> QED
    BY <2>2, <2>3, <2>4
<1> QED
  BY <1>3, <1>6, <1>7, <1>8 DEF ReaderTrue, RowsOf

LEMMA FirstReadTrue ==
  ASSUME FilesTrue, NEW list \in {"roster", "characters"}, NEW limit \in PageLimit,
         FirstRead(list, limit)
  PROVE  ReaderTrue'
<1>1. SubSeq(Rows(list), 1, 0) = <<>> /\ Len(Rows(list)) \in Nat /\ <<>> \in Seq(Character)
  BY RowsDated, SubSeqEmpty, LenProperties DEF FirstRead
<1>2. /\ Available(list) /\ Reads(list, 0, limit, <<>>, {}) /\ written' = written
      /\ {} \in SUBSET (1..Len(written)) /\ 0 \in Nat /\ 0 <= Len(Rows(list))
  BY <1>1 DEF FirstRead
<1> QED
  BY <1>1, <1>2, ReadsTrue

LEMMA NextReadTrue ==
  ASSUME FilesTrue, ReaderTrue, NextRead
  PROVE  ReaderTrue'
<1>1. /\ reader \in [list : {"roster", "characters"}, limit : PageLimit, offset : Nat \cup {-1},
                     got : Seq(Character), stamps : SUBSET (1..Len(written))]
      /\ reader.offset \in Nat /\ reader.stamps # {} /\ written' = written
      /\ Available(reader.list)
      /\ Reads(reader.list, reader.offset, reader.limit, reader.got, reader.stamps)
  BY DEF NextRead, ReaderTrue
<1>2. \A stamp \in reader.stamps :
        reader.list = "characters" => written[stamp].catalogue.stamp = stamp
  BY <1>1 DEF NextRead, ReaderTrue
<1>3. ASSUME reader.stamps \subseteq {Stamp(reader.list)}
      PROVE  /\ reader.offset <= Len(Rows(reader.list))
             /\ reader.got = SubSeq(Rows(reader.list), 1, reader.offset)
  <2>1. /\ reader.stamps = {Stamp(reader.list)}
        /\ Rows(reader.list) = RowsOf(reader.list, Stamp(reader.list))
    BY <1>1, <1>3, RowsDated
  <2> QED
    BY <1>1, <2>1 DEF NextRead, ReaderTrue
<1> QED
  BY <1>1, <1>2, <1>3, ReadsTrue

-----------------------------------------------------------------------------
(* SnapshotPages: the theorems                                             *)

LEMMA PagesNext ==
  ASSUME PagesInv, [NextPages]_pages
  PROVE  PagesInv'
<1>1. ASSUME NEW c \in Character, Change(c) PROVE PagesInv'
  BY <1>1, ChangeSync DEF Change, PagesInv, FilesTrue, ReaderTrue, CatalogueWhole, RowsOf
<1>2. ASSUME NEW roster \in Rosters, NEW characters \in BOOLEAN, StartSync(roster, characters)
      PROVE  PagesInv'
  BY <1>2, StartSyncTrue DEF StartSync, PagesInv, FilesTrue, ReaderTrue, CatalogueWhole, RowsOf
<1>3. CASE FetchPage
  BY <1>3, FetchPageTrue DEF FetchPage, PagesInv, FilesTrue, ReaderTrue, CatalogueWhole, RowsOf
<1>4. CASE FetchFails
  BY <1>4 DEF FetchFails, PagesInv, FilesTrue, SyncTrue, ReaderTrue, CatalogueWhole, RowsOf
<1>5. CASE Write
  BY <1>5, WriteTrue DEF Write, PagesInv, SyncTrue
<1>6. ASSUME NEW list \in {"roster", "characters"}, NEW limit \in PageLimit, FirstRead(list, limit)
      PROVE  PagesInv'
  BY <1>6, FirstReadTrue DEF FirstRead, PagesInv, FilesTrue, SyncTrue, CatalogueWhole
<1>7. CASE NextRead
  BY <1>7, NextReadTrue DEF NextRead, PagesInv, FilesTrue, SyncTrue, CatalogueWhole
<1>8. CASE Leave
  BY <1>8 DEF Leave, PagesInv, FilesTrue, SyncTrue, ReaderTrue, CatalogueWhole
<1>9. CASE UNCHANGED pages
  BY <1>9 DEF pages, PagesInv, FilesTrue, SyncTrue, ReaderTrue, CatalogueWhole, RowsOf
<1> QED
  BY <1>1, <1>2, <1>3, <1>4, <1>5, <1>6, <1>7, <1>8, <1>9 DEF NextPages

LEMMA PagesInvariant == Paging => []PagesInv
BY PagesInit, PagesNext, PTL DEF Paging

\* Syncs, files and readers keep their shape, and a catalogue that a sync of personal data
\* kept is the one of its date.  (fetch_snapshot, cli.py:57-111)
THEOREM PagesTypeCorrect == Paging => []PagesTyped
<1>1. PagesInv => PagesTyped
  <2>1. ASSUME PagesInv
        PROVE  /\ Len(written) \in Nat /\ DOMAIN written = 1..Len(written)
               /\ \A n \in DOMAIN written : written[n].roster \in Rosters
    BY <2>1, SavedFiles DEF PagesInv
  <2>2. ASSUME PagesInv, reader # Idle
        PROVE  reader.offset \in Nat \cup {-1} /\ reader.stamps \subseteq 0..Len(written)
    BY <2>1, <2>2 DEF PagesInv, ReaderTrue
  <2> QED
    BY <2>1, <2>2 DEF PagesInv, FilesTrue, SyncTrue, Fetch, PagesTyped
<1> QED  BY <1>1, PagesInvariant, PTL

\* Whatever syncs replace the file between two pages, an assistant that saw one retrieved_at
\* has the list of that date, every row once.  (SnapshotReader._page, snapshot.py:273-283)
THEOREM PagesAreWhole == Paging => []PagesWhole
<1>1. PagesInv => PagesWhole
  BY DEF PagesInv, ReaderTrue, PagesWhole, Done, RowsOf
<1> QED  BY <1>1, PagesInvariant, PTL

\* The loop over numbered pages stores the whole catalogue, whatever its size is to that of
\* a page, unless MSF changes it meanwhile.  (iter_game_characters, client.py:109-130)
THEOREM CataloguesAreWhole == Paging => []CatalogueWhole
<1>1. PagesInv => CatalogueWhole  BY DEF PagesInv
<1> QED  BY <1>1, PagesInvariant, PTL
=============================================================================
