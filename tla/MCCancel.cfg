CONSTANTS
  Clients = {c1, c2}
  RoomSize = 2
  Rooms = {r1}
  NoRoom = noroom
  MaxSessions = 1
  Cancellers = {c1}
  Leavers = {}
  CardsCanFail = FALSE
  MaxStale = 0
  MaxReady = 3
SPECIFICATION Spec
PROPERTY CancelledIsOut
CHECK_DEADLOCK FALSE
