\* One checkout, two operations at once, two login attempts, four MSF tokens.
CONSTANTS
  t1 = t1
  t2 = t2
  home = home
  a1 = a1
  a2 = a2
  k1 = k1
  k2 = k2
  k3 = k3
  k4 = k4
  Task = {t1, t2}
  Checkout = {home}
  Attempt = {a1, a2}
  Token = {k1, k2, k3, k4}
  Timeout = 2
  AccessOnly = AccessOnly
  NoItem = NoItem
  Nobody = Nobody
  Idle = Idle
SPECIFICATION FairSpec
INVARIANTS
  SignInUsable
  LogoutHolds
PROPERTY LoginEnds
