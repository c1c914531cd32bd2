CONSTANTS
  Players = {p1, p2}
  GameThread = game
  Event = {hint, answer}
  NoEvent = none
  MaxEvents = 4
SPECIFICATION RingSpec
INVARIANTS RingTypeOK NoEmptySlotWaits
PROPERTY ImplementsFifo
