\* Three clients compete for two slots and one permit, two players for one rate window.
CONSTANTS
  c1 = c1
  c2 = c2
  c3 = c3
  p1 = p1
  p2 = p2
  Conn = {c1, c2, c3}
  Player = {p1, p2}
  ActiveRequests = 2
  RatePlayers = 1
  PerWindow = 2
  Window = 2
  Permits = 1
  Idle = Idle
SPECIFICATION FairSpec
INVARIANTS
  SlotsBalance
  PermitsBalance
  OneAnswer
  RateBounded
PROPERTY EveryRequestEnds
