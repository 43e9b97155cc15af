SPECIFICATION Spec
CONSTANTS
  Users = {a, b, c}
  Endpoints = {e1, e2}
  MatchIds = {m1, m2}
  NetBound = 1
  None = None
SYMMETRY Symmetry
INVARIANTS
  TypeOK
  MutualNeverWait
  CurrentMatchWasTold
  EndpointsAreLatest
