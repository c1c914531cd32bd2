\* One account is reported three times by another and asks for a game again.
SPECIFICATION Spec
SYMMETRY Same
CONSTANTS
  Ids = {a, b}
  Quoted = {}
  Names = {m, n}
  Threads = {t, u}
  None = None
  LastSecond = 1
  MostReports = 3
  MostGames = 0
PROPERTIES
  SuspendedStaysOut
