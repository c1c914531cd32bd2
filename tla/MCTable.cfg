CONSTANTS
  Clients = {c1, c2, c3}
  RoomSize = 3
  Rooms = {r1}
  NoRoom = noroom
  MaxSessions = 1
  Cancellers = {}
  Leavers = {c1}
  CardsCanFail = FALSE
  MaxStale = 2
  MaxReady = 4
SPECIFICATION Spec
INVARIANTS QueueOfLiveClients FreedIsLetGo
PROPERTIES StartsTogether StartsInformed NotFoundOnlyAfterEnd
  RoomGetsGoing SummonedIsBound ImplementsMatch
CHECK_DEADLOCK FALSE
