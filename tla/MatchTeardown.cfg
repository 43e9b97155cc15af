SPECIFICATION TSpec
CONSTANTS
  Users = {a, b, c}
  RegistryIds = {r1, r2}
  MatchIds = {p1, p2}
  Endpoints = {e1}
  NetBound = 1
  Adrift = {a, b, c}
  None = None
SYMMETRY Symmetry
INVARIANTS
  OnlyOpponentsAreNamed
  FirstMatchIsKept
PROPERTIES
  UsedAsAllowed
