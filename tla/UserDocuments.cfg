SPECIFICATION Spec
CONSTANTS
  Users = {u1, u2, u3}
  Accounts <- MCAccounts
  Visitors = {u1}
  Calls = {a, b, c}
  Requests <- MCRequests
  Flairs = {f1}
  InFlight = 2
  MaxTries = 1
  None = None
  u1 = u1
  u2 = u2
  u3 = u3
  f1 = f1
SYMMETRY Symmetry
CHECK_DEADLOCK FALSE
INVARIANTS
  TypeOK
  ResultsAreKept
  ListsHaveNoDoubles
  SidesAgree
PROPERTIES
  RatingsFollow
