\* A restore that is killed anywhere.
CONSTANTS
  p1 = p1
  p2 = p2
  Player = {p1, p2}
SPECIFICATION Spec
INVARIANT AuthorizationNeverRevived
