CONSTANTS
  Clients = {c1, c2, c3}
  RoomSize = 2
  Rooms = {r1, r2}
  NoRoom = noroom
  MaxSessions = 1
  Cancellers = {c1}
  Leavers = {c1}
  CardsCanFail = TRUE
  MaxStale = 1
  MaxReady = 3
SPECIFICATION Spec
INVARIANTS TypeOK QueueHasPlace RegistryExact NoLineMisheard
CONSTRAINT FewLines
SYMMETRY OpenSymmetry
CHECK_DEADLOCK FALSE
