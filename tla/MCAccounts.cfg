\* Three ids, one of them with an apostrophe, two nicknames and so two accounts at a
\* time, two connections, two seconds, and reports enough to suspend an account.
SPECIFICATION Spec
SYMMETRY Same
CONSTANTS
  Ids = {a, b, c}
  Quoted = {c}
  Names = {m, n}
  Threads = {t, u}
  None = None
  LastSecond = 1
  MostReports = 3
  MostGames = 1
INVARIANTS
  TypeOK
  NicknamesUnique
  AccountsComplete
  SuspendedAtThree
  OneTokenEach
  AcknowledgedIsStored
  NotAllWait
  WaitsForLocksOnly
PROPERTIES
  OthersKeepTheirTokens
