SPECIFICATION Spec
CONSTANTS
  Users = {u1, u2}
  Sockets = {s1, s2, s3}
  Lobbies = {Lobby}
  MatchIds = {m1, m2}
  Lookups = {g1}
  Passes = {}
  Account <- MCAccount
  DefaultLobby = Lobby
  Undefined = Undefined
  u1 = u1
  u2 = u2
  s1 = s1
  s2 = s2
  s3 = s3
SYMMETRY Symmetry
INVARIANTS
  DepartedLeavesNoTrace
  MatchesAgree
  EntriesAreOwned
  ListsAreCurrent
PROPERTIES
  KeepsPairing
