SPECIFICATION Spec
CONSTANTS
  Players = {p1, p2}
  Sessions = {s1}
  Uploads = {a, b, c}
  InFlight = 2
  Uuids = {x, y, z}
  SessionOf <- MCSessionOf
  Slot <- MCSlot
  Result <- MCResult
  None = None
  p1 = p1
  p2 = p2
  a = a
  b = b
  c = c
  s1 = s1
SYMMETRY Symmetry
CHECK_DEADLOCK FALSE
INVARIANTS
  TypeOK
  OneWinnerEach
  CountedIsListed
  SoloSettles
PROPERTIES
  CountsOnce
