SPECIFICATION FairSpec
CONSTANTS
  u1 = u1
  u2 = u2
  u3 = u3
  Users = {u1, u2, u3}
  SessionIds = {i1, i2}
  Muted <- MCMuted
  InviteWindow = 1
  ChoiceWindow = 1
  Slack = 1
  Cooldown = 2
  None = None
INVARIANTS
  TypeOK
  OneSessionPerPair
  IndexIsLive
  EndsOnce
  TimerFollowsDeadline
  CooldownHolds
  Just
PROPERTIES
  EverySessionEnds
