SPECIFICATION Spec
CONSTANTS
  Users = {a, b, c}
  Endpoints = {e1}
  MatchIds = {m1, m2}
  NetBound = 2
  None = None
INVARIANTS
  KillNamesItsMatch
