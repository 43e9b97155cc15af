SPECIFICATION Spec
CONSTANTS
  Users = {u1}
  Sockets = {s1, s2}
  Lobbies = {Lobby}
  MatchIds = {}
  Lookups = {}
  Passes = {}
  Account <- MCOneUser
  DefaultLobby = Lobby
  Undefined = Undefined
  u1 = u1
  u2 = u2
  s1 = s1
  s2 = s2
  s3 = s3
INVARIANTS
  OnlineIsListed
