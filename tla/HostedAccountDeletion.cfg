SPECIFICATION Spec
CONSTANTS
  Identity = {i1}
  Player = {p1, p2}
  Token = {k1, k2, k3}
  Task = {t1, t2}
  Permits = 2
  AccessOnly = AccessOnly
  NoRow = NoRow
  Nobody = Nobody
  Idle = Idle
  Nothing = Nothing
INVARIANT DeletionRemovesData
SYMMETRY Symmetry
