SPECIFICATION FairSpec
CONSTANTS
  Users = {u1, u2}
  Sockets = {s1, s3}
  Lobbies = {Lobby, Private}
  MatchIds = {}
  Lookups = {}
  Passes = {p1}
  Account <- MCTwoSockets
  DefaultLobby = Lobby
  Undefined = Undefined
  u1 = u1
  u2 = u2
  s1 = s1
  s2 = s2
  s3 = s3
INVARIANTS
  TypeOK
  IdleLobbiesAreTimed
  ClosedLobbyLeavesNothing
PROPERTIES
  PasswordKept
  AbandonedLobbyCloses
