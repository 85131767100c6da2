\* Two calls of any kind at two permits; an identity that signs in again after a deletion.
SPECIFICATION FairSpec
CONSTANTS
  Identity = {i1}
  Player = {p1, p2}
  Token = {k1, k2}
  Task = {t1, t2}
  Permits = 2
  AccessOnly = AccessOnly
  NoRow = NoRow
  Nobody = Nobody
  Idle = Idle
  Nothing = Nothing
INVARIANTS
  DeletionIsFinal
  SignInKept
PROPERTIES
  CoherentBackup
  EveryCallEnds
  NothingHeldForever
