SPECIFICATION HFairSpec
CONSTANTS
  Users = {u1, u2}
  Sockets = {s1, s2, s3}
  Lobbies = {Lobby}
  MatchIds = {m1}
  Lookups = {}
  Passes = {}
  Account <- MCAccount
  DefaultLobby = Lobby
  Undefined = Undefined
  Threshold = 1
  u1 = u1
  u2 = u2
  s1 = s1
  s2 = s2
  s3 = s3
INVARIANTS
  HTypeOK
  SilentAreFound
  ElapsedNeverDecides
PROPERTIES
  AnsweringAreKept
  MatchOfLostEnds
