CONSTANTS
  Clients = {c1, c2, c3, c4}
  RoomSize = 2
  Rooms = {r1, r2}
  NoRoom = noroom
  MaxSessions = 1
  Cancellers = {}
  Leavers = {}
  CardsCanFail = FALSE
  MaxStale = 0
  MaxReady = 3
SPECIFICATION Spec
PROPERTY StartsTogether
CHECK_DEADLOCK FALSE
