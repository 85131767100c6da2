\* Two browsers, one of them with a request of a client; two login states, two MSF identities
\* and two accounts, of the same identity or of two, and three sessions, of which two at a time.
CONSTANTS
  b1 = b1
  b2 = b2
  t1 = t1
  t2 = t2
  i1 = i1
  i2 = i2
  r1 = r1
  Browser = {b1, b2}
  Task = {t1, t2}
  Session = {1, 2, 3}
  State = {1, 2}
  Request = {r1}
  Asked <- ClientAndAccount
  Identity = {i1, i2}
  Player = {11, 12}
  MaxTabs = 2
  MaxSessions = 2
  None = None
  Unissued = Unissued
  Gone = Gone
  Idle = Idle
SPECIFICATION Spec
INVARIANTS SpentOnce AsShown ApprovedBySignIn SignInGenuine
SYMMETRY Symmetry
