\* Three threads, of one to three processes, with sections two deep and two leases at once.
CONSTANTS
  t1 = t1
  t2 = t2
  t3 = t3
  Thread = {t1, t2, t3}
  Depth = 2
  l1 = l1
  l2 = l2
  Lease = {l1, l2}
  None = None
SPECIFICATION Spec
INVARIANTS Exclusion
PROPERTY LockSpec
SYMMETRY Symmetry
