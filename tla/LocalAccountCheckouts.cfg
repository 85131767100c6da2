\* Two checkouts of one MSF client, each with a lock file of its own.
CONSTANTS
  t1 = t1
  t2 = t2
  home = home
  clone = clone
  a1 = a1
  a2 = a2
  k1 = k1
  k2 = k2
  Task = {t1, t2}
  Checkout = {home, clone}
  Attempt = {a1, a2}
  Token = {k1, k2}
  Timeout = 1
  AccessOnly = AccessOnly
  NoItem = NoItem
  Nobody = Nobody
  Idle = Idle
SPECIFICATION Spec
INVARIANTS
  LogoutHolds
