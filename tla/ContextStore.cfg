SPECIFICATION Spec
CONSTANTS
  Writer = {w1, w2}
  Id = {i1, i2}
  MaxGoals = 1
  MaxFacts = 1
  MaxRecommendations = 1
  MaxRevision = 3
  NoOne = NoOne
  NoOp = NoOp
INVARIANTS
  AlwaysReadable
  AckedSurvives
PROPERTIES
  NoLostUpdate
SYMMETRY Symmetry
