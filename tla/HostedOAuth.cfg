\* Two players, two registrations, two requests of which one fits, two handlers, and one family
\* of up to five credentials.  A registration ends before its request, and the family with the
\* clock.
SPECIFICATION Spec
CONSTANTS
  Player = {p1, p2}
  Client = {c1, c2}
  Request = {r1, r2}
  Grant = {g1}
  Cred = {k1, k2, k3, k4, k5}
  Handler = {h1, h2}
  Scope = {"msf:read", "offline_access"}
  Metadata <- ReadRefresh
  ClientTTL = 1
  RequestTTL = 2
  CodeTTL = 1
  AccessTTL = 2
  FamilyTTL = 2
  MaxClients = 1
  MaxRequests = 1
  MaxTime = 2
  Unissued = Unissued
  Gone = Gone
  Nobody = Nobody
  Idle = Idle
INVARIANTS
  OneUnspent WithinGrant NoOrphan CanReconnect PendingBounded
PROPERTIES
  TombstonesKept FamilySpec ConsentSpentOnce TokensInherit
SYMMETRY Symmetry
