CONSTANTS
  r1 = r1
  r2 = r2
  b1 = b1
  b2 = b2
  n1 = n1
  a1 = a1
  Word = {r1, r2, b1, b2, n1, a1}
  Layouts <- MCLayouts
  NumRed = 2
  NumBlue = 2
  TeamSize = 2
  HintNumbers <- MCHintNumbers
  NoNumber = nonumber
  OffBoard = offboard
  MaxEvents = 2
SPECIFICATION Spec
PROPERTY BonusGuess
CHECK_DEADLOCK FALSE
