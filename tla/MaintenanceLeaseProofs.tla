----------------------- MODULE MaintenanceLeaseProofs -----------------------
(***************************************************************************)
(* What the maintenance lease promises for any number of threads,          *)
(* processes, leases and nested sections.                                  *)
(*                                                                         *)
(* The argument: the counter of a lease is the number of sections in it,   *)
(* so a section always is in a lease that holds its flock, and a lease     *)
(* that no longer does is never borrowed again.  Between leases that hold  *)
(* it, the kernel arbitrates.                                              *)
(***************************************************************************)
EXTENDS MaintenanceLease, FiniteSetTheorems, TLAPS

\* A section is in a lease of the process its thread runs in.
SectionsTrue ==
  \A s \in Section : section[s] # None =>
    /\ Running(s[1])
    /\ lease[section[s].lease] # None
    /\ lease[section[s].lease].home = home[s[1]]

\* The kernel grants an exclusive flock to one lease alone.
LeasesTrue ==
  /\ \A h \in Thread : \A l \in copies[h] : lease[l] # None
  /\ \A k, l \in Lease : Held(k) /\ Held(l) /\ k # l => ~lease[k].exclusive

\* What a context or a section refers to has been made.
ContextsTrue ==
  /\ \A t \in Thread : context[t] # None => lease[context[t]] # None
  /\ \A s \in Section : section[s] # None /\ section[s].outer # None =>
       lease[section[s].outer] # None

Inv == TypeOK /\ SectionsTrue /\ LeasesTrue /\ ContextsTrue /\ Counted

-----------------------------------------------------------------------------
(* Counting                                                                *)

LEMMA SectionFinite == IsFiniteSet(Section)
<1>1. IsFiniteSet(1..Depth)
  BY DepthAssumption, FS_Interval
<1> QED
  BY <1>1, ThreadAssumption, FS_Product DEF Section

LEMMA UsersCount ==
  ASSUME NEW S \in SUBSET Section
  PROVE  /\ IsFiniteSet(S) /\ Cardinality(S) \in Nat
         /\ Cardinality(S) = 0 <=> S = {}
         /\ \A s \in Section : /\ s \notin S => Cardinality(S \cup {s}) = Cardinality(S) + 1
                              /\ s \in S => Cardinality(S \ {s}) = Cardinality(S) - 1
<1>1. IsFiniteSet(S)
  BY SectionFinite, FS_Subset
<1> QED
  BY <1>1, FS_CardinalityType, FS_EmptySet, FS_AddElement, FS_RemoveElement

\* A section that was entered has a reference.
LEMMA Referenced ==
  ASSUME Inv, NEW s \in Section, section[s] # None
  PROVE  /\ section[s] \in Frame /\ section[s].lease \in Lease
         /\ lease[section[s].lease] \in LeaseState
         /\ lease[section[s].lease].references > 0 /\ Held(section[s].lease)
<1>1. section[s] \in Frame /\ section[s].lease \in Lease
  BY DEF Inv, TypeOK, Frame
<1>2. lease[section[s].lease] \in LeaseState
  BY <1>1 DEF Inv, TypeOK, SectionsTrue
<1>3. /\ lease[section[s].lease].references = Cardinality(Users(section[s].lease))
      /\ Users(section[s].lease) \in SUBSET Section /\ s \in Users(section[s].lease)
  BY <1>1, <1>2, NoneAssumption DEF Inv, Counted, Users
<1>4. lease[section[s].lease].references > 0
  BY <1>3, UsersCount
<1> QED
  BY <1>1, <1>2, <1>4, NoneAssumption DEF Held

-----------------------------------------------------------------------------
(* What the steps of sections do                                           *)

\* A new lease is one that no section is in and no process holds.
LEMMA AcquireTakes ==
  ASSUME Inv, NEW s \in Section, NEW exclusive \in BOOLEAN, Acquire(s, exclusive)
  PROVE  \E l \in Lease :
           /\ ~Held(l) /\ Users(l) = {}
           /\ \A k \in Lease : Held(k) => ~exclusive /\ ~lease[k].exclusive
           /\ lease' = [lease EXCEPT ![l] =
                [exclusive |-> exclusive, references |-> 1, home |-> home[s[1]]]]
           /\ section' = [section EXCEPT ![s] =
                [lease |-> l, outer |-> context[s[1]], exclusive |-> exclusive]]
           /\ context' = [context EXCEPT ![s[1]] = l]
<1> DEFINE l == CHOOSE l \in Unreferenced : TRUE
<1>1. l \in Unreferenced
  BY DEF Acquire
<1>2. l \in Lease /\ ~Held(l) /\ Users(l) = {}
  BY <1>1 DEF Unreferenced, Users
<1>3. /\ lease' = [lease EXCEPT ![l] =
           [exclusive |-> exclusive, references |-> 1, home |-> home[s[1]]]]
      /\ section' = [section EXCEPT ![s] =
           [lease |-> l, outer |-> context[s[1]], exclusive |-> exclusive]]
      /\ context' = [context EXCEPT ![s[1]] = l]
      /\ \A k \in Lease : Held(k) => ~exclusive /\ ~lease[k].exclusive
  BY DEF Acquire, Compatible
<1> QED
  BY <1>2, <1>3

LEMMA SectionThread == ASSUME NEW s \in Section PROVE s[1] \in Thread
BY DEF Section

\* What is borrowed is held, by the process of the thread.
LEMMA BorrowShares ==
  ASSUME Inv, NEW s \in Section, NEW exclusive \in BOOLEAN, Borrow(s, exclusive)
  PROVE  LET l == context[s[1]] IN
           /\ l \in Lease /\ lease[l] \in LeaseState /\ lease[l].references > 0
           /\ lease[l].home = home[s[1]] /\ Held(l)
           /\ section[s] = None /\ Running(s[1])
           /\ lease' = [lease EXCEPT ![l].references = lease[l].references + 1]
           /\ section' = [section EXCEPT ![s] = [lease |-> l, outer |-> l, exclusive |-> exclusive]]
<1>1. context[s[1]] \in Lease
  BY SectionThread DEF Inv, TypeOK, Borrow, Inherits
<1>2. lease[context[s[1]]].references > 0 /\ lease[context[s[1]]].home = home[s[1]]
  BY DEF Borrow, Inherits, Borrowable
<1>3. lease[context[s[1]]] \in LeaseState /\ Held(context[s[1]])
  BY <1>1, <1>2, SectionThread, NoneAssumption DEF Inv, TypeOK, ContextsTrue, Held
<1>4. section[s] = None /\ Running(s[1])
  BY DEF Borrow, Entering
<1> QED
  BY <1>1, <1>2, <1>3, <1>4 DEF Borrow

-----------------------------------------------------------------------------
LEMMA TypeStep == ASSUME Inv, [Next]_vars PROVE TypeOK'
<1> USE NoneAssumption DEF TypeOK
<1>1. ASSUME NEW s \in Section, NEW exclusive \in BOOLEAN, Borrow(s, exclusive) PROVE TypeOK'
  <2> DEFINE l == context[s[1]]
  <2>1. /\ l \in Lease /\ lease[l] \in LeaseState
        /\ lease' = [lease EXCEPT ![l].references = lease[l].references + 1]
        /\ section' = [section EXCEPT ![s] = [lease |-> l, outer |-> l, exclusive |-> exclusive]]
        /\ home' = home /\ context' = context /\ copies' = copies
    BY <1>1, BorrowShares DEF Borrow
  <2>2. [lease[l] EXCEPT !.references = lease[l].references + 1] \in LeaseState
    BY <2>1 DEF LeaseState
  <2>3. [lease |-> l, outer |-> l, exclusive |-> exclusive] \in Frame
    BY <2>1 DEF Frame
  <2>4. lease' \in [Lease -> LeaseState \cup {None}]
    BY <2>1, <2>2 DEF Inv
  <2> QED
    BY <2>1, <2>3, <2>4 DEF Inv
<1>2. ASSUME NEW s \in Section, NEW exclusive \in BOOLEAN, Acquire(s, exclusive) PROVE TypeOK'
  <2>1. /\ home' = home /\ copies' = copies /\ s[1] \in Thread /\ Running(s[1])
        /\ home[s[1]] \in Thread
    BY <1>2, SectionThread DEF Acquire, Running, Inv
  <2>2. PICK l \in Lease :
           /\ lease' = [lease EXCEPT ![l] =
                [exclusive |-> exclusive, references |-> 1, home |-> home[s[1]]]]
           /\ section' = [section EXCEPT ![s] =
                [lease |-> l, outer |-> context[s[1]], exclusive |-> exclusive]]
           /\ context' = [context EXCEPT ![s[1]] = l]
    BY <1>2, AcquireTakes
  <2>3. [exclusive |-> exclusive, references |-> 1, home |-> home[s[1]]] \in LeaseState
    BY <2>1 DEF LeaseState
  <2>4. [lease |-> l, outer |-> context[s[1]], exclusive |-> exclusive] \in Frame
    BY <2>1 DEF Frame, Inv
  <2> QED
    BY <2>1, <2>2, <2>3, <2>4 DEF Inv
<1>3. ASSUME NEW s \in Section, Leave(s) PROVE TypeOK'
  <2> DEFINE l == section[s].lease
  <2>1. /\ section[s] \in Frame /\ l \in Lease /\ lease[l] \in LeaseState
        /\ lease[l].references > 0 /\ s[1] \in Thread
    BY <1>3, Referenced, SectionThread DEF Leave, Innermost
  <2>2. [lease[l] EXCEPT !.references = lease[l].references - 1] \in LeaseState
    BY <2>1 DEF LeaseState
  <2>3. section[s].outer \in Lease \cup {None}
    BY <2>1 DEF Frame
  <2>4. /\ lease' = [lease EXCEPT ![l] = [lease[l] EXCEPT !.references = lease[l].references - 1]]
        /\ context' = [context EXCEPT ![s[1]] = section[s].outer]
        /\ section' = [section EXCEPT ![s] = None]
        /\ home' = home /\ copies' = copies
    BY <1>3 DEF Leave, Released
  <2> QED
    BY <2>1, <2>2, <2>3, <2>4 DEF Inv
<1>4. ASSUME NEW h \in Thread, Die(h) PROVE TypeOK'
  <2>1. \A l \in Lease : lease[l] # None => [lease[l] EXCEPT !.references = 0] \in LeaseState
    BY DEF LeaseState, Inv
  <2> QED
    BY <1>4, <2>1 DEF Die, Inv
<1>5. ASSUME NEW t \in Thread, Launch(t) \/ End(t) \/ Poll(t) PROVE TypeOK'
  BY <1>5 DEF Launch, End, Poll, Discarded, Inv
<1>6. ASSUME NEW t \in Thread, NEW u \in Thread, Start(t, u) \/ Fork(t, u) PROVE TypeOK'
  <2>1. CASE Start(t, u)
    BY <2>1 DEF Start, Running, Inv
  <2>2. CASE Fork(t, u)
    <3>1. home[t] \in Thread
      BY <2>2 DEF Fork, Running, Inv
    <3> QED
      BY <2>2, <3>1 DEF Fork, Inv
  <2> QED
    BY <1>6, <2>1, <2>2
<1> QED
  BY <1>1, <1>2, <1>3, <1>4, <1>5, <1>6 DEF Next, vars, Inv
-----------------------------------------------------------------------------
(* The same steps, of each section and each lease                           *)

\* A section comes into lease l, which has one reference more.
Joins(s, l) ==
  /\ section[s] = None /\ section'[s] \in Frame /\ section'[s].lease = l
  /\ \A r \in Section \ {s} : section'[r] = section[r]
  /\ lease'[l] \in LeaseState
  /\ \A k \in Lease \ {l} : lease'[k] = lease[k]
  /\ home' = home /\ copies' = copies
  /\ Running(s[1]) /\ lease'[l].home = home[s[1]]

Borrows(s, l) ==
  /\ Joins(s, l) /\ section'[s].outer = l
  /\ lease[l] \in LeaseState /\ Held(l) /\ lease[l].references > 0
  /\ lease'[l].exclusive = lease[l].exclusive /\ lease'[l].home = lease[l].home
  /\ lease'[l].references = lease[l].references + 1
  /\ context' = context

Acquires(s, l) ==
  /\ Joins(s, l) /\ section'[s].outer = context[s[1]]
  /\ lease'[l].exclusive = section'[s].exclusive /\ lease'[l].references = 1
  /\ Users(l) = {} /\ ~Held(l)
  /\ \A k \in Lease : Held(k) => ~lease'[l].exclusive /\ ~lease[k].exclusive
  /\ \A t \in Thread : context'[t] \in {context[t], l}

Leaves(s, l) ==
  /\ section[s] \in Frame /\ section[s].lease = l /\ section'[s] = None
  /\ \A r \in Section \ {s} : section'[r] = section[r]
  /\ lease[l] \in LeaseState /\ lease'[l] \in LeaseState
  /\ lease'[l].exclusive = lease[l].exclusive /\ lease'[l].home = lease[l].home
  /\ lease'[l].references = lease[l].references - 1 /\ lease[l].references > 0
  /\ \A k \in Lease \ {l} : lease'[k] = lease[k]
  /\ \A t \in Thread : context'[t] \in {context[t], section[s].outer}
  /\ home' = home /\ copies' = copies

Dies(h) ==
  /\ \A s \in Section : section'[s] = IF home[s[1]] = h THEN None ELSE section[s]
  /\ \A l \in Lease : lease[l] # None =>
       /\ lease'[l] \in LeaseState
       /\ lease'[l].exclusive = lease[l].exclusive /\ lease'[l].home = lease[l].home
       /\ lease'[l].references = IF lease[l].home = h THEN 0 ELSE lease[l].references
  /\ \A l \in Lease : lease[l] = None => lease'[l] = None
  /\ \A t \in Thread : home'[t] = IF home[t] = h THEN None ELSE home[t]
  /\ \A t \in Thread : context'[t] \in {context[t], None}
  /\ \A t \in Thread : copies'[t] \subseteq copies[t]

\* Threads and processes come and go, outside of sections.
Others ==
  /\ section' = section /\ lease' = lease
  /\ \A t \in Thread : Running(t) => \/ home'[t] = home[t]
                                     \/ Outside(t)
  /\ \A t \in Thread : context'[t] # None => \E u \in Thread : context'[t] = context[u]
  /\ \A t \in Thread : \A l \in copies'[t] : Held(l) /\ lease[l] # None

LEMMA Steps ==
  ASSUME Inv, [Next]_vars
  PROVE  \/ \E s \in Section, l \in Lease : Borrows(s, l) \/ Acquires(s, l) \/ Leaves(s, l)
         \/ \E h \in Thread : Dies(h)
         \/ Others
<1> USE NoneAssumption, SectionThread
<1>1. ASSUME NEW s \in Section, NEW exclusive \in BOOLEAN, Borrow(s, exclusive)
      PROVE  Borrows(s, context[s[1]]) /\ context[s[1]] \in Lease
  <2> DEFINE l == context[s[1]]
  <2>1. /\ l \in Lease /\ lease[l] \in LeaseState /\ lease[l].references > 0 /\ Held(l)
        /\ lease[l].home = home[s[1]] /\ section[s] = None /\ Running(s[1])
        /\ lease' = [lease EXCEPT ![l].references = lease[l].references + 1]
        /\ section' = [section EXCEPT ![s] = [lease |-> l, outer |-> l, exclusive |-> exclusive]]
        /\ home' = home /\ context' = context /\ copies' = copies
    BY <1>1, BorrowShares DEF Borrow
  <2>2. /\ lease'[l] = [lease[l] EXCEPT !.references = lease[l].references + 1]
        /\ \A k \in Lease \ {l} : lease'[k] = lease[k]
    BY <2>1 DEF Inv, TypeOK
  <2>3. /\ lease'[l] \in LeaseState /\ lease'[l].references = lease[l].references + 1
        /\ lease'[l].exclusive = lease[l].exclusive /\ lease'[l].home = lease[l].home
    BY <2>1, <2>2 DEF LeaseState
  <2>4. /\ section'[s] \in Frame /\ section'[s].lease = l /\ section'[s].outer = l
        /\ \A r \in Section \ {s} : section'[r] = section[r]
    BY <2>1 DEF Inv, TypeOK, Frame
  <2> QED
    BY <2>1, <2>2, <2>3, <2>4 DEF Borrows, Joins
<1>2. ASSUME NEW s \in Section, NEW exclusive \in BOOLEAN, Acquire(s, exclusive)
      PROVE  \E l \in Lease : Acquires(s, l)
  <2>1. PICK l \in Lease :
           /\ ~Held(l) /\ Users(l) = {}
           /\ \A k \in Lease : Held(k) => ~exclusive /\ ~lease[k].exclusive
           /\ lease' = [lease EXCEPT ![l] =
                [exclusive |-> exclusive, references |-> 1, home |-> home[s[1]]]]
           /\ section' = [section EXCEPT ![s] =
                [lease |-> l, outer |-> context[s[1]], exclusive |-> exclusive]]
           /\ context' = [context EXCEPT ![s[1]] = l]
    BY <1>2, AcquireTakes
  <2>2. /\ home' = home /\ copies' = copies /\ Running(s[1]) /\ section[s] = None
        /\ home[s[1]] \in Thread /\ context[s[1]] \in Lease \cup {None}
    BY <1>2 DEF Acquire, Entering, Running, Inv, TypeOK
  <2>3. /\ section'[s] \in Frame /\ section'[s].lease = l /\ section'[s].outer = context[s[1]]
        /\ section'[s].exclusive = exclusive
        /\ \A r \in Section \ {s} : section'[r] = section[r]
    BY <2>1, <2>2 DEF Inv, TypeOK, Frame
  <2>4. /\ lease'[l] \in LeaseState /\ lease'[l].references = 1
        /\ lease'[l].exclusive = exclusive /\ lease'[l].home = home[s[1]]
        /\ \A k \in Lease \ {l} : lease'[k] = lease[k]
    BY <2>1, <2>2 DEF Inv, TypeOK, LeaseState
  <2>5. \A t \in Thread : context'[t] \in {context[t], l}
    BY <2>1 DEF Inv, TypeOK
  <2> QED
    BY <2>1, <2>2, <2>3, <2>4, <2>5 DEF Acquires, Joins
<1>3. ASSUME NEW s \in Section, Leave(s)
      PROVE  \E l \in Lease : Leaves(s, l)
  <2>1. PICK l \in Lease : l = section[s].lease
    BY <1>3, Referenced DEF Leave, Innermost
  <2>2. section[s] \in Frame /\ lease[l] \in LeaseState /\ lease[l].references > 0
    BY <1>3, <2>1, Referenced DEF Leave, Innermost
  <2>3. /\ lease' = [lease EXCEPT ![l].references = lease[l].references - 1]
        /\ context' = [context EXCEPT ![s[1]] = section[s].outer]
        /\ section' = [section EXCEPT ![s] = None]
        /\ home' = home /\ copies' = copies
    BY <1>3, <2>1 DEF Leave, Released
  <2>4. /\ lease'[l] = [lease[l] EXCEPT !.references = lease[l].references - 1]
        /\ \A k \in Lease \ {l} : lease'[k] = lease[k]
    BY <2>3 DEF Inv, TypeOK
  <2>5. /\ lease'[l] \in LeaseState /\ lease'[l].references = lease[l].references - 1
        /\ lease'[l].exclusive = lease[l].exclusive /\ lease'[l].home = lease[l].home
    BY <2>2, <2>4 DEF LeaseState
  <2>6. /\ section'[s] = None /\ \A r \in Section \ {s} : section'[r] = section[r]
        /\ \A t \in Thread : context'[t] \in {context[t], section[s].outer}
    BY <2>3 DEF Inv, TypeOK
  <2> QED
    BY <2>1, <2>2, <2>3, <2>4, <2>5, <2>6 DEF Leaves
<1>4. ASSUME NEW h \in Thread, Die(h) PROVE Dies(h)
  <2>1. ASSUME NEW l \in Lease, lease[l] # None
        PROVE  /\ lease'[l] \in LeaseState
               /\ lease'[l].exclusive = lease[l].exclusive /\ lease'[l].home = lease[l].home
               /\ lease'[l].references = IF lease[l].home = h THEN 0 ELSE lease[l].references
    <3>1. lease[l] \in LeaseState
      BY <2>1 DEF Inv, TypeOK
    <3>2. lease'[l] = IF lease[l].home = h THEN [lease[l] EXCEPT !.references = 0] ELSE lease[l]
      BY <1>4, <2>1 DEF Die
    <3> QED
      BY <3>1, <3>2 DEF LeaseState
  <2>2. \A l \in Lease : lease[l] = None => lease'[l] = None
    BY <1>4 DEF Die
  <2>3. /\ \A s \in Section : section'[s] = IF home[s[1]] = h THEN None ELSE section[s]
        /\ \A t \in Thread : home'[t] = IF home[t] = h THEN None ELSE home[t]
        /\ \A t \in Thread : context'[t] \in {context[t], None}
        /\ \A t \in Thread : copies'[t] \subseteq copies[t]
    BY <1>4 DEF Die, Inv, TypeOK
  <2> QED
    BY <2>1, <2>2, <2>3 DEF Dies
<1>5. ASSUME NEW t \in Thread, Launch(t) \/ End(t) \/ Poll(t) PROVE Others
  <2>1. /\ section' = section /\ lease' = lease
        /\ \A u \in Thread : copies'[u] \subseteq copies[u]
        /\ \A u \in Thread : context'[u] \in {context[u], None}
        /\ \A u \in Thread : Running(u) => home'[u] = home[u] \/ Outside(u)
    BY <1>5 DEF Launch, End, Poll, Discarded, Running, Inv, TypeOK
  <2> QED
    BY <2>1 DEF Others, Held, Inv, LeasesTrue, TypeOK
<1>6. ASSUME NEW t \in Thread, NEW u \in Thread, Start(t, u) \/ Fork(t, u) PROVE Others
  <2>1. /\ section' = section /\ lease' = lease
        /\ \A v \in Thread : context'[v] \in {context[v], context[t]}
        /\ \A v \in Thread : Running(v) => home'[v] = home[v]
    BY <1>6 DEF Start, Fork, Running, Inv, TypeOK
  <2>2. ASSUME NEW v \in Thread, NEW l \in copies'[v] PROVE Held(l) /\ lease[l] # None
    <3>1. CASE Start(t, u)
      BY <2>2, <3>1 DEF Start, Held, Inv, LeasesTrue
    <3>2. CASE Fork(t, u)
      <4>1. home[t] \in Thread
        BY <3>2 DEF Fork, Running, Inv, TypeOK
      <4>2. \/ \E h \in Thread : l \in copies[h]
            \/ lease[l] # None /\ lease[l].references > 0
        BY <2>2, <3>2, <4>1 DEF Fork, Inv, TypeOK
      <4> QED
        BY <4>2 DEF Held, Inv, LeasesTrue
    <3> QED
      BY <1>6, <3>1, <3>2
  <2> QED
    BY <2>1, <2>2 DEF Others
<1>7. ASSUME UNCHANGED vars PROVE Others
  BY <1>7 DEF vars, Others, Held, Inv, LeasesTrue
<1> QED
  BY <1>1, <1>2, <1>3, <1>4, <1>5, <1>6, <1>7 DEF Next
-----------------------------------------------------------------------------
(* The invariant                                                           *)

LEMMA SectionsStep == ASSUME Inv, [Next]_vars PROVE SectionsTrue'
<1> USE NoneAssumption, SectionThread DEF SectionsTrue, Running
<1>0. Inv
  OBVIOUS
<1>1. ASSUME NEW s \in Section, NEW l \in Lease, Borrows(s, l) \/ Acquires(s, l)
      PROVE  SectionsTrue'
  <2>1. Joins(s, l)
    BY <1>1 DEF Borrows, Acquires
  <2>2. ASSUME NEW r \in Section, r # s, section'[r] # None
        PROVE  /\ home'[r[1]] # None /\ lease'[section'[r].lease] # None
               /\ lease'[section'[r].lease].home = home'[r[1]]
    <3>1. /\ section'[r] = section[r] /\ section[r].lease \in Lease
          /\ lease[section[r].lease].home = home[r[1]] /\ home' = home
          /\ lease[section[r].lease] # None /\ home[r[1]] # None
      BY <2>1, <2>2, Referenced DEF Joins, Inv
    <3>2. CASE section[r].lease # l
      BY <2>1, <3>1, <3>2 DEF Joins
    <3>3. CASE section[r].lease = l
      <4>1. ~Acquires(s, l)
        BY <2>2, <3>1, <3>3 DEF Acquires, Users
      <4> QED
        BY <1>1, <2>1, <3>1, <3>3, <4>1 DEF Borrows, Joins
    <3> QED
      BY <3>2, <3>3
  <2> QED
    BY <2>1, <2>2 DEF Joins
<1>2. ASSUME NEW s \in Section, NEW l \in Lease, Leaves(s, l) PROVE SectionsTrue'
  <2>1. ASSUME NEW r \in Section, section'[r] # None
        PROVE  /\ section'[r] = section[r] /\ section[r].lease \in Lease
               /\ lease'[section[r].lease].home = lease[section[r].lease].home
               /\ lease'[section[r].lease] # None
    BY <1>2, <2>1, Referenced DEF Leaves, Inv
  <2> QED
    BY <1>2, <2>1 DEF Leaves, Inv
<1>3. ASSUME NEW h \in Thread, Dies(h) PROVE SectionsTrue'
  <2>1. ASSUME NEW r \in Section, section'[r] # None
        PROVE  /\ section'[r] = section[r] /\ section[r].lease \in Lease
               /\ home[r[1]] # h /\ home'[r[1]] = home[r[1]]
               /\ lease'[section[r].lease].home = lease[section[r].lease].home
               /\ lease'[section[r].lease] # None
    BY <1>3, <2>1, Referenced DEF Dies, Inv
  <2> QED
    BY <2>1 DEF Inv
<1>4. ASSUME Others PROVE SectionsTrue'
  <2>1. ASSUME NEW r \in Section, section[r] # None PROVE home'[r[1]] = home[r[1]]
    <3>1. ~Outside(r[1])
      BY <2>1 DEF Outside, Section
    <3> QED
      BY <1>4, <2>1, <3>1 DEF Others, Inv
  <2> QED
    BY <1>4, <2>1 DEF Others, Inv
<1> QED
  BY <1>1, <1>2, <1>3, <1>4, Steps

LEMMA ContextsStep ==
  ASSUME Inv, [Next]_vars
  PROVE  ContextsTrue' /\ \A l \in Lease : lease[l] # None => lease'[l] # None
<1> USE NoneAssumption
<1>1. \A l \in Lease : lease[l] # None => lease'[l] # None
  <2>1. ASSUME NEW s \in Section, NEW l \in Lease, Borrows(s, l) \/ Acquires(s, l) \/ Leaves(s, l)
        PROVE  \A k \in Lease : lease[k] # None => lease'[k] # None
    BY <2>1 DEF Borrows, Acquires, Joins, Leaves
  <2> QED
    BY <2>1, Steps DEF Dies, Others
<1>2. ASSUME NEW t \in Thread, context'[t] # None PROVE lease'[context'[t]] # None
  <2>1. context[t] # None => context[t] \in Lease /\ lease[context[t]] # None
    BY DEF Inv, TypeOK, ContextsTrue
  <2>2. ASSUME NEW s \in Section, NEW l \in Lease, Borrows(s, l) \/ Acquires(s, l)
        PROVE  lease'[context'[t]] # None
    BY <1>1, <1>2, <2>1, <2>2 DEF Borrows, Acquires, Joins
  <2>3. ASSUME NEW s \in Section, NEW l \in Lease, Leaves(s, l)
        PROVE  lease'[context'[t]] # None
    <3>1. section[s].outer # None => section[s].outer \in Lease /\ lease[section[s].outer] # None
      BY <2>3 DEF Leaves, Frame, Inv, ContextsTrue
    <3> QED
      BY <1>1, <1>2, <2>1, <2>3, <3>1 DEF Leaves
  <2>4. ASSUME NEW h \in Thread, Dies(h) PROVE lease'[context'[t]] # None
    BY <1>1, <1>2, <2>1, <2>4 DEF Dies
  <2>5. ASSUME Others PROVE lease'[context'[t]] # None
    BY <1>1, <1>2, <2>5 DEF Others, Inv, ContextsTrue
  <2> QED
    BY <2>2, <2>3, <2>4, <2>5, Steps
<1>3. ASSUME NEW r \in Section, section'[r] # None, section'[r].outer # None
      PROVE  lease'[section'[r].outer] # None
  <2>1. ASSUME section'[r] = section[r] PROVE lease'[section'[r].outer] # None
    BY <1>1, <1>3, <2>1 DEF Inv, TypeOK, Frame, ContextsTrue
  <2>2. ASSUME NEW s \in Section, NEW l \in Lease, Borrows(s, l) PROVE lease'[section'[r].outer] # None
    BY <2>1, <2>2 DEF Borrows, Joins
  <2>3. ASSUME NEW s \in Section, NEW l \in Lease, Acquires(s, l) PROVE lease'[section'[r].outer] # None
    <3>1. CASE r = s
      BY <1>1, <1>3, <2>3, <3>1, SectionThread DEF Acquires, Joins, Inv, TypeOK, ContextsTrue
    <3> QED
      BY <2>1, <2>3, <3>1 DEF Acquires, Joins
  <2>4. ASSUME NEW s \in Section, NEW l \in Lease, Leaves(s, l) PROVE lease'[section'[r].outer] # None
    BY <1>3, <2>1, <2>4 DEF Leaves
  <2>5. ASSUME NEW h \in Thread, Dies(h) PROVE lease'[section'[r].outer] # None
    BY <1>3, <2>1, <2>5 DEF Dies
  <2>6. ASSUME Others PROVE lease'[section'[r].outer] # None
    BY <2>1, <2>6 DEF Others
  <2> QED
    BY <2>2, <2>3, <2>4, <2>5, <2>6, Steps
<1> QED
  BY <1>1, <1>2, <1>3 DEF ContextsTrue
LEMMA HeldMade == ASSUME Inv, NEW l \in Lease, Held(l) PROVE lease[l] \in LeaseState
BY DEF Inv, TypeOK, LeasesTrue, Held

\* A flock is granted to a new lease, or it was there and is what it was.
LEMMA HeldStep ==
  ASSUME Inv, [Next]_vars, NEW k \in Lease, Held(k)'
  PROVE  \/ Held(k) /\ lease'[k].exclusive = lease[k].exclusive
         \/ \E s \in Section : Acquires(s, k)
<1> USE NoneAssumption
<1>1. ASSUME NEW s \in Section, NEW l \in Lease, Borrows(s, l)
      PROVE  Held(k) /\ lease'[k].exclusive = lease[k].exclusive
  BY <1>1 DEF Borrows, Joins, Held
<1>2. ASSUME NEW s \in Section, NEW l \in Lease, Acquires(s, l), k # l
      PROVE  Held(k) /\ lease'[k].exclusive = lease[k].exclusive
  BY <1>2 DEF Acquires, Joins, Held
<1>3. ASSUME NEW s \in Section, NEW l \in Lease, Leaves(s, l)
      PROVE  Held(k) /\ lease'[k].exclusive = lease[k].exclusive
  BY <1>3 DEF Leaves, Held
<1>4. ASSUME NEW h \in Thread, Dies(h)
      PROVE  Held(k) /\ lease'[k].exclusive = lease[k].exclusive
  <2>1. CASE lease[k] # None
    <3>1. /\ lease[k] \in LeaseState /\ lease'[k].exclusive = lease[k].exclusive
          /\ lease'[k].references > 0 => lease[k].references > 0
      BY <1>4, <2>1 DEF Dies, Inv, TypeOK
    <3> QED
      BY <1>4, <2>1, <3>1 DEF Dies, Held
  <2>2. CASE lease[k] = None
    BY <1>4, <2>2 DEF Dies, Held, Inv, LeasesTrue
  <2> QED
    BY <2>1, <2>2
<1>5. ASSUME Others PROVE Held(k) /\ lease'[k].exclusive = lease[k].exclusive
  BY <1>5 DEF Others, Held
<1> QED
  BY <1>1, <1>2, <1>3, <1>4, <1>5, Steps

LEMMA LeasesStep == ASSUME Inv, [Next]_vars PROVE LeasesTrue'
<1>1. ASSUME NEW h \in Thread, NEW l \in copies'[h] PROVE lease'[l] # None
  <2>1. /\ copies \in [Thread -> SUBSET Lease]
        /\ \A g \in Thread : \A k \in copies[g] : lease[k] # None
    BY DEF Inv, TypeOK, LeasesTrue
  <2>2. l \in Lease /\ lease[l] # None
    <3>1. ASSUME copies'[h] \subseteq copies[h] PROVE l \in Lease /\ lease[l] # None
      BY <2>1, <3>1
    <3>2. l \in Lease
      BY TypeStep DEF TypeOK
    <3> QED
      BY <3>1, <3>2, Steps DEF Borrows, Acquires, Joins, Leaves, Dies, Others
  <2> QED
    BY <2>2, ContextsStep
<1>2. ASSUME NEW k \in Lease, NEW l \in Lease, Held(k)', Held(l)', k # l
      PROVE  ~lease'[k].exclusive
  <2>1. CASE \E s \in Section : Acquires(s, k)
    <3>1. Held(l)
      BY <1>2, <2>1 DEF Acquires, Joins, Held
    <3> QED
      BY <2>1, <3>1 DEF Acquires
  <2>2. CASE Held(k) /\ lease'[k].exclusive = lease[k].exclusive
    <3>1. CASE \E s \in Section : Acquires(s, l)
      BY <2>2, <3>1 DEF Acquires
    <3>2. CASE Held(l)
      BY <1>2, <2>2, <3>2 DEF Inv, LeasesTrue
    <3> QED
      BY <1>2, <3>1, <3>2, HeldStep
  <2> QED
    BY <1>2, <2>1, <2>2, HeldStep
<1> QED
  BY <1>1, <1>2 DEF LeasesTrue

\* How the users of each lease change
LEMMA UsersStep ==
  ASSUME Inv, NEW s \in Section, NEW l \in Lease
  PROVE  /\ Joins(s, l) => /\ Users(l)' = Users(l) \cup {s} /\ s \notin Users(l)
                           /\ \A k \in Lease \ {l} : Users(k)' = Users(k)
         /\ Leaves(s, l) => /\ Users(l)' = Users(l) \ {s} /\ s \in Users(l)
                            /\ \A k \in Lease \ {l} : Users(k)' = Users(k)
<1> USE NoneAssumption
<1>1. ASSUME Joins(s, l)
      PROVE  /\ Users(l)' = Users(l) \cup {s} /\ s \notin Users(l)
             /\ \A k \in Lease \ {l} : Users(k)' = Users(k)
  BY <1>1 DEF Joins, Users
<1>2. ASSUME Leaves(s, l)
      PROVE  /\ Users(l)' = Users(l) \ {s} /\ s \in Users(l)
             /\ \A k \in Lease \ {l} : Users(k)' = Users(k)
  BY <1>2 DEF Leaves, Users
<1> QED
  BY <1>1, <1>2

LEMMA UsersDie ==
  ASSUME Inv, NEW h \in Thread, Dies(h), NEW l \in Lease, lease[l] # None
  PROVE  Users(l)' = IF lease[l].home = h THEN {} ELSE Users(l)
BY NoneAssumption DEF Dies, Users, Inv, SectionsTrue

LEMMA CountedStep == ASSUME Inv, [Next]_vars PROVE Counted'
<1> USE NoneAssumption
<1>1. ASSUME NEW k \in Lease
      PROVE  /\ Users(k) \in SUBSET Section
             /\ lease[k] # None => lease[k].references = Cardinality(Users(k))
  BY DEF Inv, Counted, Users
<1>2. ASSUME NEW s \in Section, NEW l \in Lease, Borrows(s, l) PROVE Counted'
  <2>1. lease'[l].references = Cardinality(Users(l)')
    <3>1. Cardinality(Users(l) \cup {s}) = Cardinality(Users(l)) + 1
      BY <1>1, <1>2, UsersStep, UsersCount DEF Borrows
    <3> QED
      BY <1>1, <1>2, <3>1, UsersStep DEF Borrows
  <2>2. \A k \in Lease \ {l} : Users(k)' = Users(k) /\ lease'[k] = lease[k]
    BY <1>2, UsersStep DEF Borrows, Joins
  <2> QED
    BY <1>1, <2>1, <2>2 DEF Counted
<1>3. ASSUME NEW s \in Section, NEW l \in Lease, Acquires(s, l) PROVE Counted'
  <2>1. lease'[l].references = Cardinality(Users(l)')
    <3>1. Cardinality({} \cup {s}) = Cardinality({}) + 1 /\ Cardinality({}) = 0
      BY UsersCount
    <3>2. Users(l)' = {} \cup {s} /\ lease'[l].references = 1
      BY <1>3, UsersStep DEF Acquires
    <3> QED
      BY <3>1, <3>2
  <2>2. \A k \in Lease \ {l} : Users(k)' = Users(k) /\ lease'[k] = lease[k]
    BY <1>3, UsersStep DEF Acquires, Joins
  <2> QED
    BY <1>1, <2>1, <2>2 DEF Counted
<1>4. ASSUME NEW s \in Section, NEW l \in Lease, Leaves(s, l) PROVE Counted'
  <2>1. lease'[l].references = Cardinality(Users(l)')
    <3>1. Cardinality(Users(l) \ {s}) = Cardinality(Users(l)) - 1
      BY <1>1, <1>4, UsersStep, UsersCount
    <3> QED
      BY <1>1, <1>4, <3>1, UsersStep DEF Leaves
  <2> QED
    BY <1>1, <1>4, <2>1, UsersStep DEF Leaves, Counted
<1>5. ASSUME NEW h \in Thread, Dies(h) PROVE Counted'
  <2>1. Cardinality({}) = 0
    BY UsersCount
  <2>2. ASSUME NEW l \in Lease, lease'[l] # None
        PROVE  lease'[l].references = Cardinality(Users(l)')
    <3>1. /\ lease[l] # None
          /\ lease'[l].references = IF lease[l].home = h THEN 0 ELSE lease[l].references
      BY <1>5, <2>2 DEF Dies
    <3>2. Users(l)' = IF lease[l].home = h THEN {} ELSE Users(l)
      BY <1>5, <3>1, UsersDie
    <3> QED
      BY <1>1, <2>1, <3>1, <3>2
  <2> QED
    BY <2>2 DEF Counted
<1>6. ASSUME Others PROVE Counted'
  BY <1>1, <1>6 DEF Others, Counted, Users
<1> QED
  BY <1>2, <1>3, <1>4, <1>5, <1>6, Steps

LEMMA InitInv == Init => Inv
BY NoneAssumption DEF Init, Inv, TypeOK, SectionsTrue, LeasesTrue, ContextsTrue, Counted, Held

LEMMA Invariant == Spec => []Inv
<1>1. Inv /\ [Next]_vars => Inv'
  BY TypeStep, SectionsStep, LeasesStep, ContextsStep, CountedStep DEF Inv
<1> QED
  BY <1>1, InitInv, PTL DEF Spec

-----------------------------------------------------------------------------
(* What holds                                                              *)

\* A counter is never released below zero, and whatever is entered is a section's frame.
\* (_MaintenanceLease.release, hosted_store.py:69-76)
THEOREM TypeCorrect == Spec => []TypeOK
<1>1. Inv => TypeOK
  BY DEF Inv
<1> QED
  BY <1>1, Invariant, PTL

\* Who holds the lock exclusively shares it with workers of its own process alone.
\* (maintenance, hosted_store.py:185-225)
THEOREM LeasesExclude == Spec => []Exclusion
<1>1. Inv => Exclusion
  <2> SUFFICES ASSUME Inv, NEW r \in Section, NEW s \in Section, Inside(r), Inside(s),
                      section[r].exclusive \/ lease[section[r].lease].exclusive
               PROVE  section[r].lease = section[s].lease /\ home[r[1]] = home[s[1]]
    BY DEF Exclusion
  <2>1. section[r] # None /\ section[s] # None /\ lease[section[r].lease].exclusive
    BY DEF Inside, Refuses
  <2>2. /\ section[r].lease \in Lease /\ Held(section[r].lease)
        /\ section[s].lease \in Lease /\ Held(section[s].lease)
    BY <2>1, Referenced
  <2>3. section[r].lease = section[s].lease
    BY <2>1, <2>2 DEF Inv, LeasesTrue
  <2> QED
    BY <2>1, <2>3 DEF Inv, SectionsTrue
<1> QED
  BY <1>1, Invariant, PTL

\* The counter of a lease is the number of its users, so that the last of them, whoever it
\* is, releases the lock.  (borrow and release, hosted_store.py:61-76)
THEOREM LeasesCount == Spec => []Counted
<1>1. Inv => Counted
  BY DEF Inv
<1> QED
  BY <1>1, Invariant, PTL
-----------------------------------------------------------------------------
(* The lease implements the lock                                           *)

\* A section is in one group at most.
LEMMA Disjoint ==
  ASSUME NEW k \in Lease, NEW l \in Lease, NEW s \in Users(k), s \in Users(l)
  PROVE  k = l
BY DEF Users

LEMMA GroupsMade ==
  ASSUME Inv, NEW k \in Lease, Users(k) # {}
  PROVE  Held(k) /\ lease[k] \in LeaseState
<1>1. PICK s \in Section : section[s] # None /\ section[s].lease = k
  BY DEF Users
<1> QED
  BY <1>1, Referenced

LEMMA OpenStep ==
  ASSUME Inv, NEW s \in Section, NEW l \in Lease, Acquires(s, l)
  PROVE  Lock!Open(s, lease'[l].exclusive)
<1>1. Groups' = Groups \cup {[exclusive |-> lease'[l].exclusive, members |-> {s}]}
  <2>1. /\ Users(l) = {} /\ Users(l)' = {s}
        /\ \A k \in Lease \ {l} : Users(k)' = Users(k) /\ lease'[k] = lease[k]
    BY UsersStep DEF Acquires, Joins
  <2>2. GroupOf(l)' = [exclusive |-> lease'[l].exclusive, members |-> {s}]
    BY <2>1 DEF GroupOf
  <2>3. \A k \in Lease \ {l} : GroupOf(k)' = GroupOf(k)
    BY <2>1 DEF GroupOf
  <2> QED
    BY <2>1, <2>2, <2>3 DEF Groups
<1>2. \A g \in Groups : ~lease'[l].exclusive /\ ~g.exclusive
  BY GroupsMade DEF Groups, GroupOf, Acquires
<1>3. \A g \in Groups : s \notin g.members
  BY NoneAssumption DEF Groups, GroupOf, Users, Acquires, Joins
<1> QED
  BY <1>1, <1>2, <1>3 DEF Lock!Open, Lock!Out

LEMMA JoinStep ==
  ASSUME Inv, NEW s \in Section, NEW l \in Lease, Borrows(s, l)
  PROVE  GroupOf(l) \in Groups /\ Lock!Join(s, GroupOf(l))
<1>1. Users(l) # {}
  <2>1. lease[l].references = Cardinality(Users(l)) /\ Users(l) \in SUBSET Section
    BY NoneAssumption DEF Borrows, Inv, Counted, Users
  <2> QED
    BY <2>1, UsersCount DEF Borrows
<1>2. /\ Users(l)' = Users(l) \cup {s}
      /\ \A k \in Lease \ {l} : Users(k)' = Users(k) /\ lease'[k] = lease[k]
      /\ lease'[l].exclusive = lease[l].exclusive
  BY UsersStep DEF Borrows, Joins
<1>3. GroupOf(l)' = [GroupOf(l) EXCEPT !.members = GroupOf(l).members \cup {s}]
  BY <1>2 DEF GroupOf
<1>4. \A k \in Lease \ {l} : GroupOf(k)' = GroupOf(k)
  BY <1>2 DEF GroupOf
<1>5. \A k \in Lease \ {l} : Users(k) # {} => GroupOf(k) # GroupOf(l)
  BY Disjoint DEF GroupOf
<1>6. Groups' = (Groups \ {GroupOf(l)}) \cup
                  {[GroupOf(l) EXCEPT !.members = GroupOf(l).members \cup {s}]}
  BY <1>1, <1>2, <1>3, <1>4, <1>5 DEF Groups
<1>7. \A g \in Groups : s \notin g.members
  BY NoneAssumption DEF Groups, GroupOf, Users, Borrows, Joins
<1>8. GroupOf(l) \in Groups
  BY <1>1 DEF Groups
<1> QED
  BY <1>6, <1>7, <1>8 DEF Lock!Join, Lock!Out

\* Sections that end leave their groups, and with the last one a group ends.
LEMMA LeaveStep ==
  ASSUME NEW S \in SUBSET Section,
         \A k \in Lease : Users(k) # {} =>
           Users(k)' = Users(k) \ S /\ lease'[k].exclusive = lease[k].exclusive,
         \A k \in Lease : Users(k) = {} => Users(k)' = {}
  PROVE  Lock!Leave(S)
<1> DEFINE Left(g) == [g EXCEPT !.members = g.members \ S]
<1>1. ASSUME NEW k \in Lease, Users(k) # {} PROVE GroupOf(k)' = Left(GroupOf(k))
  BY <1>1 DEF GroupOf
<1>2. ASSUME NEW k \in Lease
      PROVE  Users(k)' # {} <=> Users(k) # {} /\ ~(GroupOf(k).members \subseteq S)
  BY DEF GroupOf
<1>3. Groups' = {Left(g) : g \in {h \in Groups : ~(h.members \subseteq S)}}
  <2>1. ASSUME NEW g \in Groups' PROVE \E h \in Groups : ~(h.members \subseteq S) /\ g = Left(h)
    BY <1>1, <1>2, <2>1 DEF Groups
  <2>2. ASSUME NEW h \in Groups, ~(h.members \subseteq S) PROVE Left(h) \in Groups'
    BY <1>1, <1>2, <2>2 DEF Groups
  <2> QED
    BY <2>1, <2>2
<1> QED
  BY <1>3 DEF Lock!Leave

\* However leases are inherited by workers, borrowed and copied by forks, they implement a
\* readers-writer lock.  (hosted_store.py:42-76, 185-225)
THEOREM LeaseIsLock == Spec => LockSpec
<1> USE NoneAssumption
<1>1. Init => Lock!Init
  BY DEF Init, Lock!Init, Groups, Users
<1>2. ASSUME Inv, [Next]_vars PROVE [Lock!Next]_Groups
  <2>1. ASSUME NEW s \in Section, NEW l \in Lease, Borrows(s, l) PROVE Lock!Next
    BY <1>2, <2>1, JoinStep DEF Lock!Next
  <2>2. ASSUME NEW s \in Section, NEW l \in Lease, Acquires(s, l) PROVE Lock!Next
    <3>1. lease'[l].exclusive \in BOOLEAN
      BY <2>2 DEF Acquires, Joins, LeaseState
    <3> QED
      BY <1>2, <2>2, <3>1, OpenStep DEF Lock!Next
  <2>3. ASSUME NEW s \in Section, NEW l \in Lease, Leaves(s, l) PROVE Lock!Next
    <3>1. /\ Users(l)' = Users(l) \ {s} /\ s \in Users(l)
          /\ \A k \in Lease \ {l} : Users(k)' = Users(k) /\ s \notin Users(k)
          /\ \A k \in Lease : lease'[k].exclusive = lease[k].exclusive
      BY <1>2, <2>3, UsersStep, Disjoint DEF Leaves
    <3>2. Lock!Leave({s})
      BY <3>1, LeaveStep
    <3> QED
      BY <3>2 DEF Lock!Next
  <2>4. ASSUME NEW h \in Thread, Dies(h) PROVE Lock!Next
    <3>0. PICK S \in SUBSET Section : S = {s \in Section : home[s[1]] = h}
      OBVIOUS
    <3>1. ASSUME NEW k \in Lease
          PROVE  Users(k)' = Users(k) \ S
      BY <2>4, <3>0 DEF Dies, Users
    <3>2. \A k \in Lease : Users(k) # {} => lease'[k].exclusive = lease[k].exclusive
      BY <1>2, <2>4, GroupsMade DEF Dies
    <3>3. Lock!Leave(S)
      BY <3>1, <3>2, LeaveStep
    <3> QED
      BY <3>3 DEF Lock!Next
  <2>5. ASSUME Others PROVE UNCHANGED Groups
    BY <2>5 DEF Others, Groups, GroupOf, Users
  <2> QED
    BY <1>2, <2>1, <2>2, <2>3, <2>4, <2>5, Steps
<1>3. Inv /\ [Next]_vars => [Lock!Next]_Groups
  BY <1>2
<1> QED
  BY <1>1, <1>3, Invariant, PTL DEF Spec, LockSpec, Lock!Spec
=============================================================================
