-------------------------- MODULE MaintenanceLease --------------------------
(***************************************************************************)
(* The maintenance lock of HostedStore, as the code builds it: an flock    *)
(* that belongs to a reference-counted lease, which worker threads inherit *)
(* from the context they are started in and borrow while it lasts.         *)
(*                                                                         *)
(* A section is one execution of `with store.maintenance()`; sections of a *)
(* thread nest.  A thread is anything with a context of its own: a task or *)
(* a worker thread.  Threads live in processes - the server, a `hosted`    *)
(* command, a child that one of them forked - named after the thread they  *)
(* began with.  One store root, so one lock file.                          *)
(***************************************************************************)
EXTENDS Integers, FiniteSets

CONSTANTS
  Thread,
  Depth,    \* bound of the model: how deep sections nest
  Lease,    \* _MaintenanceLease objects, reused once nothing refers to them
  None

VARIABLES
  home,     \* of each thread that runs, its process
  context,  \* _maintenance: the lease in the thread's context
  section,  \* the sections that were entered and not left
  lease,    \* the lease objects
  copies    \* of each process, the descriptors of other processes' leases it was forked with

vars == <<home, context, section, lease, copies>>

Section == Thread \X (1..Depth)

Frame == [lease : Lease,
          outer : Lease \cup {None},  \* what reset(token) restores
          exclusive : BOOLEAN]        \* what the section asks for

LeaseState == [exclusive : BOOLEAN, references : Nat, home : Thread]

ASSUME DepthAssumption == Depth \in Nat \ {0}
ASSUME ThreadAssumption == IsFiniteSet(Thread)
ASSUME NoneAssumption ==
  None \notin Lease \cup Thread \cup Frame \cup LeaseState \cup BOOLEAN

Running(t) == home[t] # None

\* Sections nest: the next one to enter, and the one to leave.
Entering(s) ==
  /\ section[s] = None
  /\ \A i \in 1..(s[2] - 1) : section[<<s[1], i>>] # None
Innermost(s) ==
  /\ section[s] # None
  /\ \A i \in (s[2] + 1)..Depth : section[<<s[1], i>>] = None

Outside(t) == \A i \in 1..Depth : section[<<t, i>>] = None

\* The kernel keeps the flock as long as one descriptor of it is open.
Held(l) ==
  \/ lease[l] # None /\ lease[l].references > 0
  \/ \E h \in Thread : l \in copies[h]

Init ==
  /\ home = [t \in Thread |-> None]
  /\ context = [t \in Thread |-> None]
  /\ section = [s \in Section |-> None]
  /\ lease = [l \in Lease |-> None]
  /\ copies = [h \in Thread |-> {}]

-----------------------------------------------------------------------------
(* Processes and threads                                                   *)

\* A server or a `hosted` command starts.
Launch(t) ==
  /\ ~Running(t)
  /\ \A u \in Thread : home[u] # t
  /\ home' = [home EXCEPT ![t] = t]
  /\ UNCHANGED <<context, section, lease, copies>>

\* A worker thread or a task runs in a copy of the context that started it.
Start(t, u) ==
  /\ Running(t) /\ ~Running(u)
  /\ home' = [home EXCEPT ![u] = home[t]]
  /\ context' = [context EXCEPT ![u] = context[t]]
  /\ UNCHANGED <<section, lease, copies>>

\* The child has a copy of every descriptor that is open in its parent, and of the
\* context of the thread that forked.  It is in no section of its own.
Fork(t, u) ==
  /\ Running(t) /\ ~Running(u)
  /\ \A v \in Thread : home[v] # u
  /\ home' = [home EXCEPT ![u] = u]
  /\ context' = [context EXCEPT ![u] = context[t]]
  /\ copies' = [copies EXCEPT ![u] =
       copies[home[t]] \cup {l \in Lease : /\ lease[l] # None
                                           /\ lease[l].references > 0
                                           /\ lease[l].home = home[t]}]
  /\ UNCHANGED <<section, lease>>

\* A thread ends; the copied descriptors go with the last one of the process.
End(t) ==
  /\ Running(t)
  /\ Outside(t)
  /\ home' = [home EXCEPT ![t] = None]
  /\ context' = [context EXCEPT ![t] = None]
  /\ copies' = [h \in Thread |-> IF h = home[t] /\ \A u \in Thread \ {t} : home[u] # h
                                   THEN {} ELSE copies[h]]
  /\ UNCHANGED <<section, lease>>

\* A process is killed wherever its threads are; the kernel closes its descriptors.
Die(h) ==
  /\ \E t \in Thread : home[t] = h
  /\ home' = [t \in Thread |-> IF home[t] = h THEN None ELSE home[t]]
  /\ context' = [t \in Thread |-> IF home[t] = h THEN None ELSE context[t]]
  /\ section' = [s \in Section |-> IF home[s[1]] = h THEN None ELSE section[s]]
  /\ lease' = [l \in Lease |-> IF lease[l] # None /\ lease[l].home = h
                                 THEN [lease[l] EXCEPT !.references = 0] ELSE lease[l]]
  /\ copies' = [copies EXCEPT ![h] = {}]

-----------------------------------------------------------------------------
(* The lease                                                               *)

\* Mutant: borrow does not ask whether the lease has been given up.
BorrowableExpired(t, l) == lease[l].home = home[t]

\* borrow: after a fork the lease has no references, and so it has after its last release.
Borrowable(t, l) == lease[l].home = home[t] /\ lease[l].references > 0

Inherits(t) == context[t] # None /\ Borrowable(t, context[t])

\* _discard_after_fork: the child drops its descriptor, and the parent's lock stays.
Discarded(t) == [copies EXCEPT ![home[t]] = @ \ {context[t]}]

\* A section that borrows and is then refused leaves without having been inside.
Borrow(s, exclusive) ==
  LET t == s[1]
      l == context[t] IN
  /\ Running(t) /\ Entering(s)
  /\ Inherits(t)
  /\ lease' = [lease EXCEPT ![l].references = @ + 1]
  /\ section' = [section EXCEPT ![s] =
                   [lease |-> l, outer |-> l, exclusive |-> exclusive]]
  /\ UNCHANGED <<home, context, copies>>

\* Nothing to borrow - an expired lease, a lease of another process, or none: the thread
\* polls the lock.  A wait, and "Service maintenance is busy" at its end, change nothing
\* but what borrow discards.
Poll(t) ==
  /\ Running(t) /\ ~Inherits(t)
  /\ \E s \in {t} \X (1..Depth) : Entering(s)
  /\ copies' = Discarded(t)
  /\ UNCHANGED <<home, context, section, lease>>

\* A lease nothing refers to stands for a new object; the pool bounds the model.
Unreferenced ==
  {l \in Lease : /\ ~Held(l)
                 /\ \A t \in Thread : context[t] # l
                 /\ \A s \in Section : section[s] # None =>
                      section[s].lease # l /\ section[s].outer # l}

\* Mutant: flock is asked for a shared lock, whatever the section wants.
CompatibleShared(l, exclusive) == ~lease[l].exclusive

\* flock(2), between descriptors of different leases
Compatible(l, exclusive) == ~exclusive /\ ~lease[l].exclusive

Acquire(s, exclusive) ==
  LET t == s[1]
      l == CHOOSE l \in Unreferenced : TRUE IN
  /\ Running(t) /\ Entering(s)
  /\ ~Inherits(t)
  /\ context[t] \notin copies[home[t]]   \* borrow has discarded it
  /\ \A k \in Lease : Held(k) => Compatible(k, exclusive)
  /\ Unreferenced # {}
  /\ lease' = [lease EXCEPT ![l] =
                 [exclusive |-> exclusive, references |-> 1, home |-> home[t]]]
  /\ section' = [section EXCEPT ![s] = [lease |-> l, outer |-> context[t], exclusive |-> exclusive]]
  /\ context' = [context EXCEPT ![t] = l]
  /\ UNCHANGED <<home, copies>>

\* "Maintenance lock cannot be upgraded"
Refuses(s) == section[s].exclusive /\ ~lease[section[s].lease].exclusive

Inside(s) == section[s] # None /\ ~Refuses(s)

\* release
Released(s) == lease[section[s].lease].references - 1

\* A section ends, or is refused: _maintenance.reset(token) if it set it, release.
Leave(s) ==
  /\ Innermost(s)
  /\ lease' = [lease EXCEPT ![section[s].lease].references = Released(s)]
  /\ context' = [context EXCEPT ![s[1]] = section[s].outer]
  /\ section' = [section EXCEPT ![s] = None]
  /\ UNCHANGED <<home, copies>>

-----------------------------------------------------------------------------
Next ==
  \/ \E t \in Thread : Launch(t) \/ End(t) \/ Die(t) \/ Poll(t)
  \/ \E t, u \in Thread : Start(t, u) \/ Fork(t, u)
  \/ \E s \in Section :
       \/ \E exclusive \in BOOLEAN : Borrow(s, exclusive) \/ Acquire(s, exclusive)
       \/ Leave(s)

Spec == Init /\ [][Next]_vars

-----------------------------------------------------------------------------
(* Properties                                                              *)

Users(l) == {s \in Section : section[s] # None /\ section[s].lease = l}

\* Every variable has its type: a counter of references is never negative.
TypeOK ==
  /\ home \in [Thread -> Thread \cup {None}]
  /\ context \in [Thread -> Lease \cup {None}]
  /\ section \in [Section -> Frame \cup {None}]
  /\ lease \in [Lease -> LeaseState \cup {None}]
  /\ copies \in [Thread -> SUBSET Lease]

\* However leases are inherited, borrowed, outlived by workers and copied by forks: who is
\* in a section that holds the lock exclusively shares it with its own workers alone, and
\* with nobody of another process.  (hosted_store.py:42-76, "Borrowed leases outlive
\* parents", :188)
Exclusion ==
  \A r, s \in Section :
    Inside(r) /\ Inside(s) /\ (section[r].exclusive \/ lease[section[r].lease].exclusive) =>
      section[r].lease = section[s].lease /\ home[r[1]] = home[s[1]]

\* The counter of a lease is the number of sections that are in it, so its descriptor is
\* closed when the last one leaves, not earlier and not later.  (:61-76)
Counted ==
  \A l \in Lease : lease[l] # None => lease[l].references = Cardinality(Users(l))

\* The lease implements the lock: the sections that share one are a group of the lock.
GroupOf(l) == [exclusive |-> lease[l].exclusive, members |-> Users(l)]
Groups == {GroupOf(l) : l \in {k \in Lease : Users(k) # {}}}

Lock == INSTANCE MaintenanceLock WITH groups <- Groups

LockSpec == Lock!Spec
=============================================================================
