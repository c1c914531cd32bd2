\* SCENE_ERROR ends the program.
CHECK_DEADLOCK FALSE
SPECIFICATION Spec
CONSTANTS
  r1 = r1
  r2 = r2
  b = b
  Word <- MCWord
  Layouts <- MCLayouts
  HintNumbers = {0, 2}
  Deals <- MCDeals
  Texts <- MCTexts
  Empty = Empty
  NoText = NoText
  MaxLag = 1
  MaxUp = 1
INVARIANTS
  RoleIsDealt
