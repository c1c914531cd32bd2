--------------------------- MODULE Accounts_proof ---------------------------
(***************************************************************************)
(* Theorems about Accounts, for any accounts, nicknames, threads and       *)
(* bounds: its type invariant, what its tables keep, and that nothing that *)
(* was acknowledged is lost.                                               *)
(***************************************************************************)
EXTENDS Accounts, TLAPS

TablesOK(d) ==
  /\ NicknamesUniqueIn(d)
  /\ CompleteIn(d)
  /\ SuspendedAtThreeIn(d)
  /\ OneTokenEachIn(d)

\* AcknowledgedIsStored for the counts c, and nothing is counted for an
\* account there is not.
Counts == [Ids -> [reports : Nat, games : Nat]]

StoredIn(d, c) ==
  \A i \in Ids :
    /\ HasAccount(d, i) =>
         /\ d.users[i].report_count = c[i].reports
         /\ d.game_stats[i].wins + d.game_stats[i].losses = c[i].games
    /\ ~HasAccount(d, i) => c[i].reports = 0 /\ c[i].games = 0

\* What has been acknowledged when the request j has been.
Acknowledged(j, c) ==
  CASE j.op = "REPORT" -> [c EXCEPT ![j.id].reports = @ + 1]
    [] j.op = "RESULT" -> [c EXCEPT ![j.id].games = @ + 1]
    [] OTHER -> c

Writes == {"SIGNUP", "ISSUE", "EDIT_NICK", "REPORT", "RESULT"}

\* The tables e are those of d after the writes of the request j.
Drafted(j, d, e) ==
  \/ /\ j.op = "SIGNUP"
     /\ Unique(d, j.id, j.nickname)
     /\ e = WithAccount(d, j.id, j.nickname)
  \/ /\ j.op = "ISSUE"
     /\ \E k \in Tokens : TokenFits(d, j.id, k) /\ e = WithToken(d, j.id, k)
  \/ /\ j.op = "EDIT_NICK"
     /\ ~NameTaken(d, j.nickname)
     /\ e = WithNickname(d, j.id, j.nickname)
  \/ /\ j.op = "REPORT"
     /\ e = WithReport(d, j.id)
  \/ /\ j.op = "RESULT"
     /\ e = WithResult(d, j.id, j.won)

\* What the writer's transaction sees is what is committed and its writes.
WriterOK ==
  writer # None =>
    /\ job[writer].op \in Writes
    /\ job[writer].at = "commit"
    /\ Drafted(job[writer], db, draft)

LocksOK == syncing => writer # None /\ readers \subseteq {writer}

\* A request goes on with an account there is, and with a nickname that is
\* free as long as its SHARED lock keeps others from committing.
NeedsAccount(j) ==
  \/ j.op \in {"ISSUE", "EDIT_NICK", "RESULT"}
  \/ j.op = "REPORT" /\ j.at \in {"count", "commit"}

JobOK(t) ==
  /\ NeedsAccount(job[t]) => HasAccount(db, job[t].id)
  /\ job[t].op = "EDIT_NICK" /\ job[t].at = "update" =>
       t \in readers /\ ~NameTaken(db, job[t].nickname)

AInv ==
  /\ TypeOK
  /\ TablesOK(db)
  /\ StoredIn(db, counted)
  /\ WriterOK
  /\ LocksOK
  /\ \A t \in Threads : JobOK(t)

----------------------------------------------------------------------------
(* What the writes make of the tables.                                     *)

\* The fields of the tables.
LEMMA TableFields ==
  ASSUME NEW d \in Tables
  PROVE  /\ d = [users |-> d.users, game_stats |-> d.game_stats,
                 sessions |-> d.sessions]
         /\ d.users \in [Ids -> Account \cup {None}]
         /\ d.game_stats \in [Ids -> Stats \cup {None}]
         /\ d.sessions \subseteq [user_id : Ids, token : Tokens]
  BY DEF Tables

\* A sign-up with an id and a nickname that are free adds one account, with
\* its statistics, and keeps the tables in order.
LEMMA WithAccountKeeps ==
  ASSUME NEW d \in Tables, TablesOK(d), NEW c, StoredIn(d, c),
         NEW i \in Ids, NEW n \in Names, Unique(d, i, n),
         NEW e, e = WithAccount(d, i, n)
  PROVE  /\ e \in Tables /\ TablesOK(e) /\ StoredIn(e, c)
         /\ e.sessions = d.sessions
         /\ HasAccount(e, i)
         /\ \A x \in Ids : HasAccount(d, x) => HasAccount(e, x)
<1> DEFINE u == [nickname |-> n, report_count |-> 0, is_suspended |-> FALSE]
           g == [wins |-> 0, losses |-> 0]
<1>1. /\ u \in Account /\ g \in Stats
      /\ u.nickname = n /\ u.report_count = 0 /\ u.is_suspended = FALSE
      /\ g.wins = 0 /\ g.losses = 0
  BY DEF Account, Stats
<1>2. ~HasAccount(d, i) /\ d.game_stats[i] = None
  BY DEF Unique, TablesOK, CompleteIn
<1>3. /\ e.users = [d.users EXCEPT ![i] = u]
      /\ e.game_stats = [d.game_stats EXCEPT ![i] = g]
      /\ e.sessions = d.sessions
      /\ e = [users |-> e.users, game_stats |-> e.game_stats,
              sessions |-> e.sessions]
  BY <1>2, TableFields DEF WithAccount, Tables
<1> HIDE DEF u, g
<1>4. e \in Tables
  BY <1>1, <1>3, TableFields DEF Tables
<1>5. /\ HasAccount(e, i) /\ g # None
      /\ \A x \in Ids : x # i => e.users[x] = d.users[x]
                                 /\ e.game_stats[x] = d.game_stats[x]
      /\ e.users[i] = u /\ e.game_stats[i] = g
  BY <1>1, <1>3, TableFields, AccountsAssumption DEF HasAccount
<1>6. NicknamesUniqueIn(e)
  BY <1>1, <1>5 DEF NicknamesUniqueIn, HasAccount, TablesOK, Unique, NameTaken
<1>7. CompleteIn(e)
  BY <1>1, <1>3, <1>5, TableFields DEF CompleteIn, HasAccount, TablesOK
<1>8. SuspendedAtThreeIn(e)
  BY <1>1, <1>5 DEF SuspendedAtThreeIn, HasAccount, TablesOK
<1>9. OneTokenEachIn(e)
  BY <1>3 DEF OneTokenEachIn, TablesOK
<1>10. StoredIn(e, c)
  BY <1>1, <1>2, <1>5 DEF StoredIn, HasAccount
<1> QED
  BY <1>3, <1>4, <1>5, <1>6, <1>7, <1>8, <1>9, <1>10
     DEF TablesOK, HasAccount

\* A login gives an account one token and leaves the others theirs.
LEMMA WithTokenKeeps ==
  ASSUME NEW d \in Tables, TablesOK(d), NEW c, StoredIn(d, c),
         NEW i \in Ids, HasAccount(d, i), NEW k \in Tokens, TokenFits(d, i, k),
         NEW e, e = WithToken(d, i, k)
  PROVE  /\ e \in Tables /\ TablesOK(e) /\ StoredIn(e, c)
         /\ \A s \in d.sessions : s \notin e.sessions => s.user_id = i
         /\ \A x \in Ids : HasAccount(d, x) => HasAccount(e, x)
<1> DEFINE r == [user_id |-> i, token |-> k]
<1>1. /\ e.users = d.users /\ e.game_stats = d.game_stats
      /\ e.sessions = Tokenless(d, i) \cup {r}
      /\ e = [users |-> e.users, game_stats |-> e.game_stats,
              sessions |-> e.sessions]
  BY TableFields DEF WithToken, Tables
<1>2. /\ Tokenless(d, i) \subseteq d.sessions
      /\ \A s \in Tokenless(d, i) : s.user_id # i /\ s.token # k
      /\ \A s \in d.sessions : s \notin Tokenless(d, i) => s.user_id = i
  BY DEF Tokenless, TokenFits
<1>3. e \in Tables
  BY <1>1, <1>2, TableFields DEF Tables
<1>4. \A x \in Ids : HasAccount(e, x) <=> HasAccount(d, x)
  BY <1>1 DEF HasAccount
<1>5. NicknamesUniqueIn(e) /\ SuspendedAtThreeIn(e) /\ StoredIn(e, c)
  BY <1>1, <1>4
     DEF NicknamesUniqueIn, SuspendedAtThreeIn, StoredIn, TablesOK
<1>6. CompleteIn(e)
  BY <1>1, <1>2, <1>4, TableFields DEF CompleteIn, TablesOK
<1>7. OneTokenEachIn(e)
  BY <1>1, <1>2 DEF OneTokenEachIn, TablesOK
<1> QED
  BY <1>1, <1>2, <1>3, <1>4, <1>5, <1>6, <1>7 DEF TablesOK

AtThree(u) == u.is_suspended <=> u.report_count >= 3

WithUser(d, i, u) ==
  [users |-> [d.users EXCEPT ![i] = u], game_stats |-> d.game_stats,
   sessions |-> d.sessions]

\* A change of one account's row that keeps its nickname free of others and
\* the suspension in step with the count keeps the tables in order.
LEMMA UserChangeKeeps ==
  ASSUME NEW d \in Tables, TablesOK(d),
         NEW i \in Ids, HasAccount(d, i),
         NEW u \in Account,
         u.nickname = d.users[i].nickname \/ ~NameTaken(d, u.nickname),
         AtThree(u), NEW e, e = WithUser(d, i, u)
  PROVE  /\ e \in Tables /\ TablesOK(e)
         /\ e.sessions = d.sessions /\ e.game_stats = d.game_stats
         /\ e.users[i] = u
         /\ \A x \in Ids : x # i => e.users[x] = d.users[x]
         /\ \A x \in Ids : HasAccount(e, x) <=> HasAccount(d, x)
<1>1. /\ e.users = [d.users EXCEPT ![i] = u]
      /\ e.game_stats = d.game_stats /\ e.sessions = d.sessions
      /\ e = [users |-> e.users, game_stats |-> e.game_stats,
              sessions |-> e.sessions]
  BY TableFields DEF WithUser
<1>2. e \in Tables
  BY <1>1, TableFields DEF Tables
<1>3. /\ e.users[i] = u /\ u # None
      /\ \A x \in Ids : x # i => e.users[x] = d.users[x]
      /\ \A x \in Ids : HasAccount(e, x) <=> HasAccount(d, x)
  BY <1>1, TableFields, AccountsAssumption DEF HasAccount
<1>4. NicknamesUniqueIn(e)
  BY <1>3 DEF NicknamesUniqueIn, TablesOK, NameTaken
<1>5. CompleteIn(e)
  BY <1>1, <1>3, TableFields DEF CompleteIn, TablesOK
<1>6. SuspendedAtThreeIn(e)
  BY <1>3 DEF SuspendedAtThreeIn, TablesOK, AtThree
<1>7. OneTokenEachIn(e)
  BY <1>1 DEF OneTokenEachIn, TablesOK
<1> QED
  BY <1>1, <1>2, <1>3, <1>4, <1>5, <1>6, <1>7 DEF TablesOK

\* So does a new nickname that is free.
LEMMA WithNicknameKeeps ==
  ASSUME NEW d \in Tables, TablesOK(d), NEW c, StoredIn(d, c),
         NEW i \in Ids, HasAccount(d, i), NEW n \in Names, ~NameTaken(d, n),
         NEW e, e = WithNickname(d, i, n)
  PROVE  /\ e \in Tables /\ TablesOK(e) /\ StoredIn(e, c)
         /\ e.sessions = d.sessions
         /\ \A x \in Ids : HasAccount(d, x) => HasAccount(e, x)
<1> DEFINE u == [d.users[i] EXCEPT !.nickname = n]
<1>1. d.users[i] \in Account
  BY TableFields DEF HasAccount
<1>2. /\ u \in Account /\ u.nickname = n
      /\ u.report_count = d.users[i].report_count
      /\ u.is_suspended = d.users[i].is_suspended
  BY <1>1 DEF Account
<1>3. e = WithUser(d, i, u)
  BY TableFields DEF WithNickname, WithUser, Tables
<1> HIDE DEF u
<1>4. AtThree(u)
  BY <1>2 DEF TablesOK, SuspendedAtThreeIn, AtThree
<1>5. /\ e \in Tables /\ TablesOK(e)
      /\ e.sessions = d.sessions /\ e.game_stats = d.game_stats
      /\ e.users[i] = u
      /\ \A x \in Ids : x # i => e.users[x] = d.users[x]
      /\ \A x \in Ids : HasAccount(e, x) <=> HasAccount(d, x)
  BY <1>2, <1>3, <1>4, UserChangeKeeps
<1>6. StoredIn(e, c)
  BY <1>2, <1>5 DEF StoredIn
<1> QED
  BY <1>5, <1>6

\* A report counts one, and suspends at three.
LEMMA WithReportKeeps ==
  ASSUME NEW d \in Tables, TablesOK(d), NEW c \in Counts, StoredIn(d, c),
         NEW i \in Ids, HasAccount(d, i),
         NEW e, e = WithReport(d, i),
         NEW b, b = [c EXCEPT ![i].reports = @ + 1]
  PROVE  /\ e \in Tables /\ TablesOK(e) /\ StoredIn(e, b)
         /\ e.sessions = d.sessions
         /\ \A x \in Ids : HasAccount(d, x) => HasAccount(e, x)
<1> DEFINE m == d.users[i].report_count + 1
           z == d.users[i].is_suspended \/ m >= 3
           u == [nickname |-> d.users[i].nickname, report_count |-> m,
                 is_suspended |-> z]
<1>1. /\ d.users[i] \in Account
      /\ d.users[i].nickname \in Names /\ d.users[i].report_count \in Nat
      /\ d.users[i].is_suspended \in BOOLEAN
  BY TableFields DEF HasAccount, Account
<1>2. m \in Nat /\ z \in BOOLEAN
  BY <1>1
<1>3. e = WithUser(d, i, u)
  <2>1. e.users = [d.users EXCEPT ![i] = u]
    BY <1>1, TableFields DEF WithReport, Tables, Account
  <2> HIDE DEF u
  <2> QED
    BY <2>1, TableFields DEF WithReport, WithUser, Tables
<1>4. z <=> m >= 3
  BY <1>1 DEF TablesOK, SuspendedAtThreeIn
<1> HIDE DEF z
<1>5. /\ u \in Account /\ u.nickname = d.users[i].nickname
      /\ u.report_count = m /\ u.is_suspended = z
  BY <1>1, <1>2 DEF Account
<1>5a. AtThree(u)
  BY <1>4, <1>5 DEF AtThree
<1> HIDE DEF u
<1>6. /\ e \in Tables /\ TablesOK(e)
      /\ e.sessions = d.sessions /\ e.game_stats = d.game_stats
      /\ e.users[i] = u
      /\ \A x \in Ids : x # i => e.users[x] = d.users[x]
      /\ \A x \in Ids : HasAccount(e, x) <=> HasAccount(d, x)
  BY <1>3, <1>5, <1>5a, UserChangeKeeps
<1>7. /\ b[i].reports = c[i].reports + 1 /\ b[i].games = c[i].games
      /\ \A x \in Ids : x # i => b[x] = c[x]
  BY DEF Counts
<1>8. StoredIn(e, b)
  BY <1>5, <1>6, <1>7 DEF StoredIn
<1> QED
  BY <1>6, <1>8

\* A result counts one game.
LEMMA WithResultKeeps ==
  ASSUME NEW d \in Tables, TablesOK(d), NEW c \in Counts, StoredIn(d, c),
         NEW i \in Ids, HasAccount(d, i), NEW won \in BOOLEAN,
         NEW e, e = WithResult(d, i, won),
         NEW b, b = [c EXCEPT ![i].games = @ + 1]
  PROVE  /\ e \in Tables /\ TablesOK(e) /\ StoredIn(e, b)
         /\ e.sessions = d.sessions
         /\ \A x \in Ids : HasAccount(d, x) => HasAccount(e, x)
<1> DEFINE row == d.game_stats[i]
           g == IF won THEN [row EXCEPT !.wins = @ + 1]
                ELSE [row EXCEPT !.losses = @ + 1]
<1>1. row # None /\ row \in Stats
  BY TableFields DEF TablesOK, CompleteIn
<1>2. g \in Stats /\ g.wins + g.losses = row.wins + row.losses + 1
  BY <1>1 DEF Stats
<1>3. /\ e.game_stats = [d.game_stats EXCEPT ![i] = g]
      /\ e.users = d.users /\ e.sessions = d.sessions
      /\ e = [users |-> e.users, game_stats |-> e.game_stats,
              sessions |-> e.sessions]
  BY <1>1, TableFields DEF WithResult, Tables
<1> HIDE DEF g
<1>4. e \in Tables
  BY <1>2, <1>3, TableFields DEF Tables
<1>5. /\ e.game_stats[i] = g /\ g # None
      /\ \A x \in Ids : x # i => e.game_stats[x] = d.game_stats[x]
      /\ \A x \in Ids : HasAccount(e, x) <=> HasAccount(d, x)
  BY <1>2, <1>3, TableFields, AccountsAssumption DEF HasAccount
<1>6. NicknamesUniqueIn(e) /\ SuspendedAtThreeIn(e) /\ OneTokenEachIn(e)
  BY <1>3, <1>5
     DEF NicknamesUniqueIn, SuspendedAtThreeIn, OneTokenEachIn, TablesOK
<1>7. CompleteIn(e)
  BY <1>3, <1>5, TableFields DEF CompleteIn, TablesOK
<1>8. /\ b[i].games = c[i].games + 1 /\ b[i].reports = c[i].reports
      /\ \A x \in Ids : x # i => b[x] = c[x]
  BY DEF Counts
<1>9. StoredIn(e, b)
  BY <1>2, <1>3, <1>5, <1>8 DEF StoredIn
<1> QED
  BY <1>3, <1>4, <1>5, <1>6, <1>7, <1>9 DEF TablesOK

\* What a request that writes carries.
LEMMA WriteFields ==
  ASSUME NEW j \in Jobs, j.op \in Writes
  PROVE  /\ j.op # "REPORT" => j.id \in Ids
         /\ j.op = "REPORT" /\ j.at \in {"count", "commit"} =>
              j.id \in Ids /\ j.token \in Tokens
         /\ j.op \in {"SIGNUP", "EDIT_NICK"} => j.nickname \in Names
         /\ j.op = "RESULT" => j.won \in BOOLEAN
  BY DEF Jobs, Writes, Idle, Stuck

\* Every write keeps the tables in order and stores what will be
\* acknowledged; only a login takes a token away, its account's own.
LEMMA DraftedKeeps ==
  ASSUME NEW d \in Tables, TablesOK(d), NEW c \in Counts, StoredIn(d, c),
         NEW j \in Jobs, j.op \in Writes, j.at = "commit",
         NeedsAccount(j) => HasAccount(d, j.id),
         NEW e, Drafted(j, d, e)
  PROVE  /\ e \in Tables /\ TablesOK(e) /\ StoredIn(e, Acknowledged(j, c))
         /\ \A s \in d.sessions :
              s \notin e.sessions => j.op = "ISSUE" /\ s.user_id = j.id
         /\ j.op = "SIGNUP" => HasAccount(e, j.id)
         /\ \A x \in Ids : HasAccount(d, x) => HasAccount(e, x)
<1>1. CASE j.op = "SIGNUP"
  BY <1>1, WriteFields, WithAccountKeeps DEF Drafted, Acknowledged
<1>2. CASE j.op = "ISSUE"
  BY <1>2, WriteFields, WithTokenKeeps DEF Drafted, Acknowledged, NeedsAccount
<1>3. CASE j.op = "EDIT_NICK"
  BY <1>3, WriteFields, WithNicknameKeeps
     DEF Drafted, Acknowledged, NeedsAccount
<1>4. CASE j.op = "REPORT"
  BY <1>4, WriteFields, WithReportKeeps DEF Drafted, Acknowledged, NeedsAccount
<1>5. CASE j.op = "RESULT"
  BY <1>5, WriteFields, WithResultKeeps DEF Drafted, Acknowledged, NeedsAccount
<1> QED
  BY <1>1, <1>2, <1>3, <1>4, <1>5 DEF Writes
----------------------------------------------------------------------------
(* The locks and the requests.                                             *)

\* Two searches that find what they look for.
LEMMA OwnerHasAccount ==
  ASSUME NEW d \in Tables, CompleteIn(d), NEW k, TokenTaken(d, k)
  PROVE  OwnerOf(d, k) \in Ids /\ HasAccount(d, OwnerOf(d, k))
<1>1. PICK s \in d.sessions : s.token = k
  BY DEF TokenTaken
<1> DEFINE r == CHOOSE r \in d.sessions : r.token = k
<1>2. r \in d.sessions
  BY <1>1
<1>3. OwnerOf(d, k) = r.user_id
  BY DEF OwnerOf
<1> HIDE DEF r
<1> QED
  BY <1>2, <1>3, TableFields DEF CompleteIn

\* Whoever holds a token has an account, in tables that are in order.
LEMMA HolderHasAccount ==
  ASSUME NEW d, NEW n, NameTaken(d, n)
  PROVE  HolderOf(d, n) \in Ids /\ HasAccount(d, HolderOf(d, n))
BY DEF NameTaken, HolderOf

\* The fields of requests, and the requests that the steps go on with.
LEMMA JobFields ==
  ASSUME NEW j \in Jobs
  PROVE  /\ j.op = "SIGNUP" => j.id \in Ids /\ j.nickname \in Names
         /\ j.op = "ISSUE" => j.id \in Ids
         /\ j.op = "EDIT_NICK" => j.id \in Ids /\ j.nickname \in Names
         /\ j.op = "TOKEN" => j.id \in Ids
         /\ j.op = "MATCHING" => j.token \in Tokens
         /\ j.op = "REPORT" /\ j.at = "target" =>
              j.nickname \in Names /\ j.token \in Tokens
         /\ j.op = "REPORT" /\ j.at \in {"count", "commit"} =>
              j.id \in Ids /\ j.token \in Tokens
         /\ j.op = "RESULT" => j.id \in Ids /\ j.won \in BOOLEAN
BY DEF Jobs, Idle, Stuck

\* The places in a request that the requests go through.
LEMMA NewJobs ==
  /\ Idle \in Jobs /\ Stuck \in Jobs
  /\ \A i \in Ids : Issue(i) \in Jobs
  /\ \A i \in Ids, n \in Names :
       [op |-> "SIGNUP", at |-> "insert", id |-> i, nickname |-> n] \in Jobs
  /\ \A i \in Ids, n \in Names :
       [op |-> "EDIT_NICK", at |-> "select", id |-> i, nickname |-> n] \in Jobs
  /\ \A i \in Ids : [op |-> "TOKEN", at |-> "profile", id |-> i] \in Jobs
  /\ \A k \in Tokens : [op |-> "MATCHING", token |-> k] \in Jobs
  /\ \A n \in Names, k \in Tokens :
       [op |-> "REPORT", at |-> "target", nickname |-> n, token |-> k] \in Jobs
  /\ \A i \in Ids, k \in Tokens :
       [op |-> "REPORT", at |-> "count", id |-> i, token |-> k] \in Jobs
  /\ \A i \in Ids, won \in BOOLEAN :
       [op |-> "RESULT", at |-> "upsert", won |-> won, id |-> i] \in Jobs
BY DEF Jobs, Issue

\* A request goes from its write to its COMMIT as it is.
LEMMA ToCommit ==
  ASSUME NEW j \in Jobs, j.op \in Writes,
         j.op = "REPORT" => j.at = "count",
         NEW e, e = [j EXCEPT !.at = "commit"]
  PROVE  /\ e \in Jobs /\ e.op = j.op /\ e.at = "commit"
         /\ j.op # "RESULT" \/ e.won = j.won
         /\ e.id = j.id
         /\ j.op \in {"SIGNUP", "EDIT_NICK"} => e.nickname = j.nickname
<1>1. CASE j.op = "SIGNUP"
  BY <1>1 DEF Jobs, Writes, Idle, Stuck
<1>2. CASE j.op = "ISSUE"
  BY <1>2 DEF Jobs, Writes, Idle, Stuck
<1>3. CASE j.op = "EDIT_NICK"
  BY <1>3 DEF Jobs, Writes, Idle, Stuck
<1>4. CASE j.op = "REPORT"
  BY <1>4 DEF Jobs, Writes, Idle, Stuck
<1>5. CASE j.op = "RESULT"
  BY <1>5 DEF Jobs, Writes, Idle, Stuck
<1> QED
  BY <1>1, <1>2, <1>3, <1>4, <1>5 DEF Writes
----------------------------------------------------------------------------
(* The invariant.                                                          *)

\* In the beginning there is no account and no request.
LEMMA AInit == Init => AInv
<1> SUFFICES ASSUME Init PROVE AInv
  OBVIOUS
<1>1. /\ \A i \in Ids : ~HasAccount(db, i) /\ db.game_stats[i] = None
      /\ db.sessions = {}
  BY DEF Init, HasAccount
<1>2. \A t \in Threads : job[t] = Idle
  BY DEF Init
<1>3. TypeOK
  <2>1. db \in Tables
    BY DEF Init, Tables
  <2>2. 0 \in Tokens
    BY AccountsAssumption DEF Tokens
  <2>3. job \in [Threads -> Jobs]
    BY NewJobs DEF Init
  <2> QED
    BY <2>1, <2>2, <2>3 DEF Init, TypeOK
<1>4. TablesOK(db)
  BY <1>1 DEF TablesOK, NicknamesUniqueIn, CompleteIn, SuspendedAtThreeIn,
              OneTokenEachIn
<1>5. StoredIn(db, counted)
  BY <1>1 DEF Init, StoredIn
<1>6. WriterOK /\ LocksOK
  BY DEF Init, WriterOK, LocksOK
<1>7. \A t \in Threads : JobOK(t)
  BY <1>2 DEF JobOK, NeedsAccount, Idle
<1> QED
  BY <1>3, <1>4, <1>5, <1>6, <1>7 DEF AInv

\* Of all locks, a step that does not write touches at most the thread's own
\* SHARED.
LEMMA QuietStep ==
  ASSUME AInv, NEW t \in Threads, t # writer,
         NEW j \in Jobs, Goto(t, j),
         UNCHANGED <<db, draft, writer, syncing, clock, counted>>,
         readers' \subseteq readers \cup {t}, readers \subseteq readers' \cup {t},
         syncing => readers' \subseteq readers,
         NeedsAccount(j) => HasAccount(db, j.id),
         j.op = "EDIT_NICK" /\ j.at = "update" =>
           t \in readers' /\ ~NameTaken(db, j.nickname)
  PROVE  AInv'
<1>1. /\ job \in [Threads -> Jobs] /\ readers \subseteq Threads
      /\ writer \in Threads \cup {None}
  BY DEF AInv, TypeOK
<1>2. /\ job'[t] = j
      /\ \A s \in Threads : s # t => job'[s] = job[s]
      /\ job' \in [Threads -> Jobs]
  BY <1>1 DEF Goto
<1>3. TypeOK'
  BY <1>1, <1>2 DEF AInv, TypeOK
<1>4. TablesOK(db)' /\ StoredIn(db, counted)'
  BY DEF AInv, TablesOK, NicknamesUniqueIn, CompleteIn, SuspendedAtThreeIn,
         OneTokenEachIn, StoredIn, HasAccount
<1>5. WriterOK'
  <2>1. writer # None => job'[writer] = job[writer]
    BY <1>1, <1>2
  <2>2. writer # None =>
          /\ job[writer].op \in Writes /\ job[writer].at = "commit"
          /\ Drafted(job[writer], db, draft)
    BY DEF AInv, WriterOK
  <2> QED
    BY <2>1, <2>2 DEF WriterOK
<1>6. LocksOK'
  BY DEF AInv, LocksOK
<1>7. ASSUME NEW s \in Threads PROVE JobOK(s)'
  <2>1. CASE s = t
    BY <2>1, <1>2 DEF JobOK, HasAccount, NameTaken
  <2>2. CASE s # t
    BY <2>2, <1>2 DEF AInv, JobOK, HasAccount, NameTaken
  <2> QED
    BY <2>1, <2>2
<1> QED
  BY <1>3, <1>4, <1>5, <1>6, <1>7 DEF AInv

\* A write takes RESERVED, when nobody has it.
LEMMA WriteStep ==
  ASSUME AInv, NEW t \in Threads, writer = None, NEW e, Write(t, e),
         job[t].op \in Writes, job[t].op = "REPORT" => job[t].at = "count",
         Drafted(job[t], db, e),
         NeedsAccount(job[t]) => HasAccount(db, job[t].id),
         UNCHANGED <<db, syncing, readers, clock, counted>>
  PROVE  AInv'
<1> DEFINE j == [job[t] EXCEPT !.at = "commit"]
<1>1. /\ job \in [Threads -> Jobs] /\ db \in Tables
      /\ counted \in Counts
      /\ TablesOK(db) /\ StoredIn(db, counted) /\ ~syncing
  BY DEF AInv, TypeOK, LocksOK, Counts
<1>2. job[t] \in Jobs /\ Goto(t, j)
  BY <1>1 DEF Write, Goto
<1>3. /\ j \in Jobs /\ j.op = job[t].op /\ j.at = "commit"
      /\ job[t].op # "RESULT" \/ j.won = job[t].won
      /\ j.id = job[t].id
      /\ job[t].op \in {"SIGNUP", "EDIT_NICK"} =>
           j.nickname = job[t].nickname
  BY <1>2, ToCommit
<1> HIDE DEF j
<1>4. /\ job'[t] = j
      /\ \A s \in Threads : s # t => job'[s] = job[s]
      /\ job' \in [Threads -> Jobs]
  BY <1>1, <1>2, <1>3 DEF Goto
<1>5. Drafted(j, db, e) /\ (NeedsAccount(j) => HasAccount(db, j.id))
  BY <1>3 DEF Drafted, NeedsAccount
<1>6. e \in Tables
  BY <1>1, <1>3, <1>5, DraftedKeeps
<1>7. TypeOK'
  BY <1>4, <1>6 DEF AInv, TypeOK, Write
<1>8. TablesOK(db)' /\ StoredIn(db, counted)'
  BY <1>1 DEF TablesOK, NicknamesUniqueIn, CompleteIn, SuspendedAtThreeIn,
              OneTokenEachIn, StoredIn, HasAccount
<1>9. WriterOK'
  <2>1. writer' = t /\ draft' = e /\ db' = db
    BY DEF Write
  <2>2. Drafted(job[writer], db, draft)'
    BY <1>4, <1>5, <2>1
  <2> QED
    BY <1>3, <1>4, <2>1, <2>2 DEF WriterOK
<1>10. LocksOK'
  BY <1>1 DEF LocksOK
<1>11. ASSUME NEW s \in Threads PROVE JobOK(s)'
  <2>1. CASE s = t
    BY <2>1, <1>3, <1>4, <1>5 DEF JobOK, HasAccount
  <2>2. CASE s # t
    BY <2>2, <1>4 DEF AInv, JobOK, HasAccount, NameTaken
  <2> QED
    BY <2>1, <2>2
<1> QED
  BY <1>7, <1>8, <1>9, <1>10, <1>11 DEF AInv
\* The file is being written when nobody else reads.
LEMMA CommitStep ==
  ASSUME AInv, NEW t \in Threads, Commit(t)
  PROVE  AInv'
<1>1. /\ UNCHANGED <<db, draft, writer, readers, clock, job, counted>>
      /\ syncing' = TRUE /\ writer = t /\ readers \subseteq {t}
  BY DEF Commit, AtCommit
<1>2. TypeOK' /\ LocksOK'
  BY <1>1, AccountsAssumption DEF AInv, TypeOK, LocksOK
<1>3. TablesOK(db)' /\ StoredIn(db, counted)' /\ WriterOK'
      /\ \A s \in Threads : JobOK(s)'
  BY <1>1 DEF AInv, TablesOK, NicknamesUniqueIn, CompleteIn,
              SuspendedAtThreeIn, OneTokenEachIn, StoredIn, WriterOK, Drafted,
              JobOK, HasAccount, NameTaken
<1> QED
  BY <1>2, <1>3 DEF AInv

\* A transaction that is rolled back has changed nothing.
LEMMA LoseTokenStep ==
  ASSUME AInv, NEW t \in Threads, LoseToken(t)
  PROVE  AInv'
<1>1. /\ UNCHANGED <<db, syncing, readers, clock, counted>>
      /\ writer' = None /\ draft' = db /\ Goto(t, Idle) /\ writer = t
      /\ ~syncing
  BY DEF LoseToken, AtCommit, Answer
<1>2. /\ job \in [Threads -> Jobs] /\ db \in Tables
  BY DEF AInv, TypeOK
<1>3. /\ job'[t] = Idle /\ job' \in [Threads -> Jobs]
      /\ \A s \in Threads : s # t => job'[s] = job[s]
  BY <1>1, <1>2, NewJobs DEF Goto
<1>4. TypeOK'
  BY <1>1, <1>2, <1>3 DEF AInv, TypeOK
<1>5. TablesOK(db)' /\ StoredIn(db, counted)'
  BY <1>1 DEF AInv, TablesOK, NicknamesUniqueIn, CompleteIn,
              SuspendedAtThreeIn, OneTokenEachIn, StoredIn, HasAccount
<1>6. WriterOK' /\ LocksOK'
  BY <1>1 DEF WriterOK, LocksOK
<1>7. ASSUME NEW s \in Threads PROVE JobOK(s)'
  <2>1. CASE s = t
    BY <2>1, <1>3 DEF JobOK, NeedsAccount, Idle
  <2>2. CASE s # t
    BY <2>2, <1>1, <1>3 DEF AInv, JobOK, HasAccount, NameTaken
  <2> QED
    BY <2>1, <2>2
<1> QED
  BY <1>4, <1>5, <1>6, <1>7 DEF AInv

\* What a COMMIT does to the tables and to the counts.
LEMMA SyncedTables ==
  ASSUME AInv, NEW t \in Threads, Synced(t)
  PROVE  /\ job[t].op \in Writes /\ job[t].at = "commit" /\ job[t] \in Jobs
         /\ counted' = Acknowledged(job[t], counted) /\ counted' \in Counts
         /\ db' \in Tables /\ TablesOK(db') /\ StoredIn(db', counted')
         /\ job[t].op = "SIGNUP" => HasAccount(db', job[t].id)
         /\ \A i \in Ids : HasAccount(db, i) => HasAccount(db', i)
         /\ \A s \in db.sessions :
              s \notin db'.sessions =>
                job[t].op = "ISSUE" /\ s.user_id = job[t].id
<1>1. /\ db' = draft /\ writer = t
  BY DEF Synced
<1>2. /\ db \in Tables /\ TablesOK(db)
      /\ counted \in Counts /\ StoredIn(db, counted)
      /\ job[t] \in Jobs
      /\ NeedsAccount(job[t]) => HasAccount(db, job[t].id)
  BY DEF AInv, TypeOK, Counts, JobOK
<1>3. /\ job[t].op \in Writes /\ job[t].at = "commit"
      /\ Drafted(job[t], db, db')
  BY <1>1, AccountsAssumption DEF AInv, WriterOK
<1>4. counted' = Acknowledged(job[t], counted)
  BY <1>3 DEF Synced, Acknowledged, Writes
<1>5. counted' \in Counts
  <2>1. CASE job[t].op = "REPORT"
    BY <2>1, <1>2, <1>3, <1>4, JobFields DEF Acknowledged, Counts
  <2>2. CASE job[t].op = "RESULT"
    BY <2>2, <1>2, <1>3, <1>4, JobFields DEF Acknowledged, Counts
  <2>3. CASE job[t].op \notin {"REPORT", "RESULT"}
    BY <2>3, <1>2, <1>4 DEF Acknowledged
  <2> QED
    BY <2>1, <2>2, <2>3
<1> QED
  BY <1>2, <1>3, <1>4, <1>5, DraftedKeeps

\* The COMMIT of one thread finds no other that has chosen a nickname and
\* not yet written it: that one would still hold SHARED.
LEMMA SyncedStep ==
  ASSUME AInv, NEW t \in Threads, Synced(t)
  PROVE  AInv'
<1>1. /\ db' = draft /\ writer = t /\ syncing
      /\ writer' = None /\ syncing' = FALSE /\ readers' = readers \ {t}
      /\ UNCHANGED <<draft, clock>>
  BY DEF Synced
<1>2. /\ job \in [Threads -> Jobs] /\ readers \subseteq {t}
      /\ draft \in Tables
  BY <1>1 DEF AInv, TypeOK, LocksOK
<1>3. PICK j \in Jobs :
        /\ Goto(t, j)
        /\ NeedsAccount(j) => HasAccount(db', j.id)
        /\ ~(j.op = "EDIT_NICK")
  <2>1. CASE job[t].op = "SIGNUP"
    <3>1. Goto(t, Issue(job[t].id))
      BY <2>1 DEF Synced
    <3>2. Issue(job[t].id) \in Jobs
      BY <2>1, SyncedTables, JobFields, NewJobs
    <3>3. Issue(job[t].id).op = "ISSUE" /\ Issue(job[t].id).id = job[t].id
      BY DEF Issue
    <3> QED
      BY <2>1, <3>1, <3>2, <3>3, SyncedTables DEF NeedsAccount
  <2>2. CASE job[t].op = "REPORT"
    <3> DEFINE m == [op |-> "MATCHING", token |-> job[t].token]
    <3>1. Goto(t, m)
      BY <2>2 DEF Synced
    <3>2. m \in Jobs
      BY <2>2, SyncedTables, JobFields, NewJobs
    <3>3. m.op = "MATCHING"
      OBVIOUS
    <3> HIDE DEF m
    <3> QED
      BY <3>1, <3>2, <3>3 DEF NeedsAccount
  <2>3. CASE job[t].op \notin {"SIGNUP", "REPORT"}
    <3>1. Goto(t, Idle)
      BY <2>3 DEF Synced, Answer
    <3> QED
      BY <3>1, NewJobs DEF NeedsAccount, Idle
  <2> QED
    BY <2>1, <2>2, <2>3
<1>4. /\ job'[t] = j /\ job' \in [Threads -> Jobs]
      /\ \A s \in Threads : s # t => job'[s] = job[s]
  BY <1>2, <1>3 DEF Goto
<1>5. TypeOK'
  BY <1>1, <1>2, <1>4, SyncedTables DEF AInv, TypeOK, Counts
<1>6. TablesOK(db)' /\ StoredIn(db, counted)'
  BY SyncedTables DEF TablesOK, NicknamesUniqueIn, CompleteIn,
     SuspendedAtThreeIn, OneTokenEachIn, StoredIn, HasAccount
<1>7. WriterOK' /\ LocksOK'
  BY <1>1 DEF WriterOK, LocksOK
<1>8. ASSUME NEW s \in Threads PROVE JobOK(s)'
  <2>1. CASE s = t
    BY <2>1, <1>3, <1>4 DEF JobOK, HasAccount
  <2>2. CASE s # t
    <3>1. job[s] \in Jobs /\ job'[s] = job[s] /\ s \notin readers
      BY <2>2, <1>2, <1>4
    <3>2. NeedsAccount(job[s]) => job[s].id \in Ids
      BY <3>1, JobFields DEF NeedsAccount
    <3>3. JobOK(s)
      BY DEF AInv
    <3> QED
      BY <3>1, <3>2, <3>3, SyncedTables DEF JobOK, HasAccount
  <2> QED
    BY <2>1, <2>2
<1> QED
  BY <1>5, <1>6, <1>7, <1>8 DEF AInv
\* A thread that is not at its COMMIT is not the writer.
LEMMA NotWriter ==
  ASSUME AInv, NEW t \in Threads,
         job[t].op \notin Writes \/ job[t].at # "commit"
  PROVE  t # writer
BY AccountsAssumption DEF AInv, WriterOK

\* A step that ends a request, or goes on with one that needs no account.
LEMMA PlainStep ==
  ASSUME AInv, NEW t \in Threads, t # writer,
         NEW j \in Jobs, ~NeedsAccount(j), Goto(t, j),
         UNCHANGED <<db, draft, writer, syncing, clock, counted>>,
         readers' = readers \/ readers' = readers \ {t}
  PROVE  AInv'
BY QuietStep DEF NeedsAccount

\* Requests as they begin.
LEMMA AskStep ==
  ASSUME AInv, NEW t \in Threads, Ask(t)
  PROVE  AInv'
<1>0. /\ db \in Tables /\ CompleteIn(db) /\ job \in [Threads -> Jobs]
      /\ Idle.op = "none" /\ "none" \notin Writes /\ "MATCHING" \notin Writes
      /\ ~NeedsAccount(Idle) /\ Idle \in Jobs
      /\ ~NeedsAccount(Stuck) /\ Stuck \in Jobs
  BY NewJobs DEF AInv, TypeOK, TablesOK, Writes, Idle, Stuck, NeedsAccount
<1>1. ASSUME NEW i \in Ids, CheckId(t, i) PROVE AInv'
  BY <1>0, <1>1, NotWriter, PlainStep DEF CheckId, Looked, Answer, lockVars
<1>2. ASSUME NEW n \in Names, CheckNickname(t, n) PROVE AInv'
  BY <1>0, <1>2, NotWriter, PlainStep DEF CheckNickname, Looked, Answer, lockVars
<1>3. ASSUME NEW i \in Ids, NEW n \in Names, Signup(t, i, n) PROVE AInv'
  <2> DEFINE j == [op |-> "SIGNUP", at |-> "insert", id |-> i, nickname |-> n]
  <2>1. j \in Jobs /\ j.op = "SIGNUP"
    BY NewJobs
  <2>2. Goto(t, Idle) \/ Goto(t, j)
    BY <1>3 DEF Signup, Answer
  <2> HIDE DEF j
  <2>3. ~NeedsAccount(j)
    BY <2>1 DEF NeedsAccount
  <2> QED
    BY <1>0, <1>3, <2>1, <2>2, <2>3, NotWriter, PlainStep
       DEF Signup, lockVars
<1>4. ASSUME NEW i \in Ids, NEW right \in BOOLEAN, Login(t, i, right)
      PROVE AInv'
  <2>1. Issue(i) \in Jobs /\ Issue(i).op = "ISSUE" /\ Issue(i).id = i
    BY NewJobs DEF Issue
  <2>2. \/ Goto(t, Idle)
        \/ Goto(t, Issue(i)) /\ HasAccount(db, i)
    BY <1>4 DEF Login, Answer
  <2>3. t # writer /\ UNCHANGED <<db, draft, lockVars, clock, counted>>
    BY <1>0, <1>4, NotWriter DEF Login
  <2> QED
    BY <1>0, <2>1, <2>2, <2>3, PlainStep, QuietStep DEF lockVars
<1>5. ASSUME NEW k \in Tokens, NEW n \in Names, EditNick(t, k, n) PROVE AInv'
  <2> DEFINE j == [op |-> "EDIT_NICK", at |-> "select",
                   id |-> OwnerOf(db, k), nickname |-> n]
  <2>1. \/ Goto(t, Idle)
        \/ Goto(t, j) /\ TokenTaken(db, k)
    BY <1>5 DEF EditNick, Answer
  <2>2. j.op = "EDIT_NICK" /\ j.at = "select" /\ j.id = OwnerOf(db, k)
    OBVIOUS
  <2>3. TokenTaken(db, k) => j \in Jobs /\ HasAccount(db, j.id)
    BY <1>0, NewJobs, OwnerHasAccount
  <2>4. t # writer /\ UNCHANGED <<db, draft, lockVars, clock, counted>>
    BY <1>0, <1>5, NotWriter DEF EditNick
  <2> HIDE DEF j
  <2> QED
    BY <1>0, <2>1, <2>2, <2>3, <2>4, PlainStep, QuietStep DEF lockVars
<1>6. ASSUME NEW k \in Tokens, Token(t, k) PROVE AInv'
  <2> DEFINE j == [op |-> "TOKEN", at |-> "profile", id |-> OwnerOf(db, k)]
  <2>1. \/ Goto(t, Idle)
        \/ Goto(t, j) /\ TokenTaken(db, k)
    BY <1>6 DEF Token, Answer
  <2>2. ~NeedsAccount(j)
    BY DEF NeedsAccount
  <2>3. TokenTaken(db, k) => j \in Jobs
    BY <1>0, NewJobs, OwnerHasAccount
  <2>4. t # writer /\ UNCHANGED <<db, draft, lockVars, clock, counted>>
    BY <1>0, <1>6, NotWriter DEF Token
  <2> HIDE DEF j
  <2> QED
    BY <1>0, <2>1, <2>2, <2>3, <2>4, PlainStep DEF lockVars
<1>7. ASSUME NEW k \in Tokens, QueryWait(t, k) PROVE AInv'
  <2> DEFINE j == [op |-> "MATCHING", token |-> k]
  <2>1. j \in Jobs /\ Goto(t, j)
    BY <1>7, NewJobs DEF QueryWait
  <2>2. ~NeedsAccount(j)
    BY DEF NeedsAccount
  <2> HIDE DEF j
  <2> QED
    BY <1>0, <1>7, <2>1, <2>2, NotWriter, PlainStep DEF QueryWait, lockVars
<1>8. ASSUME NEW n \in Names, Report(t, n) PROVE AInv'
  <2> DEFINE j == [op |-> "REPORT", at |-> "target", nickname |-> n,
                   token |-> job[t].token]
  <2>1. Goto(t, Stuck) \/ Goto(t, j)
    BY <1>8 DEF Report, RefuseReport
  <2>2. job[t].token \in Tokens
    BY <1>0, <1>8, JobFields DEF Report
  <2>3. j \in Jobs
    BY <2>2, NewJobs
  <2>4. ~NeedsAccount(j)
    BY DEF NeedsAccount
  <2>5. t # writer /\ UNCHANGED <<db, draft, lockVars, clock, counted>>
    BY <1>0, <1>8, NotWriter DEF Report
  <2> HIDE DEF j
  <2> QED
    BY <1>0, <2>1, <2>3, <2>4, <2>5, PlainStep DEF lockVars
<1>9. ASSUME NEW n \in Names, NEW won \in BOOLEAN, Result(t, n, won)
      PROVE AInv'
  <2> DEFINE j == [op |-> "RESULT", at |-> "upsert", won |-> won,
                   id |-> HolderOf(db, n)]
  <2>1. \/ Goto(t, Idle)
        \/ Goto(t, j) /\ NameTaken(db, n)
    BY <1>9 DEF Result, Answer
  <2>2. j.op = "RESULT" /\ j.id = HolderOf(db, n)
    OBVIOUS
  <2>3. NameTaken(db, n) => j \in Jobs /\ HasAccount(db, j.id)
    BY NewJobs, HolderHasAccount
  <2>4. t # writer /\ UNCHANGED <<db, draft, lockVars, clock, counted>>
    BY <1>0, <1>9, NotWriter DEF Result
  <2> HIDE DEF j
  <2> QED
    BY <1>0, <2>1, <2>2, <2>3, <2>4, PlainStep, QuietStep DEF lockVars
<1>10. ASSUME LeaveLoop(t) PROVE AInv'
  BY <1>0, <1>10, NotWriter, PlainStep DEF LeaveLoop, lockVars
<1> QED
  BY <1>1, <1>2, <1>3, <1>4, <1>5, <1>6, <1>7, <1>8, <1>9, <1>10 DEF Ask
\* Requests as they are served.
LEMMA ServeStep ==
  ASSUME AInv, NEW t \in Threads, Serve(t)
  PROVE  AInv'
<1>0. /\ db \in Tables /\ CompleteIn(db) /\ job \in [Threads -> Jobs]
      /\ job[t] \in Jobs /\ JobOK(t) /\ clock \in Tokens
      /\ readers \subseteq Threads
      /\ ~NeedsAccount(Idle) /\ Idle \in Jobs
      /\ ~NeedsAccount(Stuck) /\ Stuck \in Jobs
      /\ Writes = {"SIGNUP", "ISSUE", "EDIT_NICK", "REPORT", "RESULT"}
  BY NewJobs DEF AInv, TypeOK, TablesOK, Writes, Idle, Stuck, NeedsAccount
<1>1. CASE InsertAccount(t)
  <2>1. CASE Unique(db, job[t].id, job[t].nickname)
    <3>1. /\ writer = None
          /\ Write(t, WithAccount(db, job[t].id, job[t].nickname))
          /\ UNCHANGED <<db, syncing, readers, clock, counted>>
      BY <1>1, <2>1 DEF InsertAccount
    <3>2. Drafted(job[t], db, WithAccount(db, job[t].id, job[t].nickname))
      BY <1>1, <2>1 DEF InsertAccount, Drafted
    <3> QED
      BY <1>0, <1>1, <3>1, <3>2, WriteStep DEF InsertAccount, NeedsAccount
  <2>2. CASE ~Unique(db, job[t].id, job[t].nickname)
    BY <1>0, <1>1, <2>2, NotWriter, PlainStep DEF InsertAccount, Answer
  <2> QED
    BY <2>1, <2>2
<1>2. CASE StoreToken(t)
  <2> DEFINE fits == /\ writer = None /\ job[t].id \notin Quoted
                     /\ TokenFits(db, job[t].id, clock)
  <2>1. CASE fits
    <3>1. /\ writer = None
          /\ Write(t, WithToken(db, job[t].id, clock))
          /\ UNCHANGED <<db, syncing, readers, clock, counted>>
      BY <1>2, <2>1 DEF StoreToken
    <3>2. Drafted(job[t], db, WithToken(db, job[t].id, clock))
      BY <1>0, <1>2, <2>1 DEF StoreToken, Drafted
    <3> QED
      BY <1>0, <1>2, <3>1, <3>2, WriteStep DEF StoreToken, JobOK
  <2>2. CASE ~fits
    BY <1>0, <1>2, <2>2, NotWriter, PlainStep DEF StoreToken, Answer
  <2> QED
    BY <2>1, <2>2
<1>3. CASE SelectNickname(t)
  <2>1. t # writer
    BY <1>3, NotWriter DEF SelectNickname
  <2>2. CASE NameTaken(db, job[t].nickname)
    BY <1>0, <1>3, <2>1, <2>2, PlainStep DEF SelectNickname, Answer
  <2>3. CASE ~NameTaken(db, job[t].nickname)
    <3> DEFINE j == [job[t] EXCEPT !.at = "update"]
    <3>1. j \in Jobs
      <4>1. job[t].op = "EDIT_NICK"
        BY <1>3 DEF SelectNickname
      <4> QED
        BY <1>0, <4>1 DEF Jobs, Idle, Stuck
    <3>2. /\ j.op = job[t].op /\ j.id = job[t].id
          /\ j.nickname = job[t].nickname
      <4>1. job[t].op = "EDIT_NICK"
        BY <1>3 DEF SelectNickname
      <4> QED
        BY <1>0, <4>1 DEF Jobs, Idle, Stuck
    <3>3. Goto(t, j) /\ readers' = readers \cup {t}
      BY <1>3, <2>3 DEF SelectNickname, Goto
    <3>4. NeedsAccount(j) => HasAccount(db, j.id)
      BY <1>0, <1>3, <3>2 DEF SelectNickname, JobOK, NeedsAccount
    <3>5. ~syncing /\ UNCHANGED <<db, draft, writer, syncing, clock, counted>>
      BY <1>3 DEF SelectNickname
    <3> HIDE DEF j
    <3> QED
      BY <2>1, <2>3, <3>1, <3>2, <3>3, <3>4, <3>5, QuietStep
  <2> QED
    BY <2>2, <2>3
<1>4. CASE UpdateNickname(t)
  <2>1. CASE writer = None
    <3>1. /\ Write(t, WithNickname(db, job[t].id, job[t].nickname))
          /\ UNCHANGED <<db, syncing, readers, clock, counted>>
      BY <1>4, <2>1 DEF UpdateNickname
    <3>2. Drafted(job[t], db, WithNickname(db, job[t].id, job[t].nickname))
      BY <1>0, <1>4 DEF UpdateNickname, Drafted, JobOK
    <3> QED
      BY <1>0, <1>4, <2>1, <3>1, <3>2, WriteStep DEF UpdateNickname, JobOK
  <2>2. CASE writer # None
    BY <1>0, <1>4, <2>2, NotWriter, PlainStep DEF UpdateNickname, Answer
  <2> QED
    BY <2>1, <2>2
<1>5. CASE Profile(t)
  BY <1>0, <1>5, NotWriter, PlainStep DEF Profile, Answer, lockVars
<1>6. CASE ReportTarget(t)
  <2> DEFINE j == [op |-> "REPORT", at |-> "count",
                   id |-> HolderOf(db, job[t].nickname),
                   token |-> job[t].token]
  <2>1. \/ Goto(t, Stuck)
        \/ Goto(t, j) /\ NameTaken(db, job[t].nickname)
    BY <1>6 DEF ReportTarget, RefuseReport
  <2>2. j.op = "REPORT" /\ j.id = HolderOf(db, job[t].nickname)
    OBVIOUS
  <2>3. job[t].token \in Tokens
    BY <1>0, <1>6, JobFields DEF ReportTarget
  <2>4. NameTaken(db, job[t].nickname) => j \in Jobs /\ HasAccount(db, j.id)
    BY <2>3, NewJobs, HolderHasAccount
  <2>5. t # writer /\ UNCHANGED <<db, draft, lockVars, clock, counted>>
    BY <1>6, NotWriter DEF ReportTarget
  <2> HIDE DEF j
  <2> QED
    BY <1>0, <2>1, <2>2, <2>4, <2>5, PlainStep, QuietStep DEF lockVars
<1>7. CASE CountReport(t)
  <2>1. Drafted(job[t], db, WithReport(db, job[t].id))
    BY <1>7 DEF CountReport, Drafted
  <2> QED
    BY <1>0, <1>7, <2>1, WriteStep DEF CountReport, JobOK, NeedsAccount
<1>8. CASE SaveResult(t)
  <2>1. Drafted(job[t], db, WithResult(db, job[t].id, job[t].won))
    BY <1>8 DEF SaveResult, Drafted
  <2> QED
    BY <1>0, <1>8, <2>1, WriteStep DEF SaveResult, JobOK, NeedsAccount
<1>9. CASE Commit(t)
  BY <1>9, CommitStep
<1>10. CASE LoseToken(t)
  BY <1>10, LoseTokenStep
<1>11. CASE Synced(t)
  BY <1>11, SyncedStep
<1>12. CASE RepeatError(t)
  <2>1. t # writer
    BY <1>12, NotWriter DEF RepeatError, Stuck
  <2>2. Goto(t, Stuck)
    BY <1>0, <1>12 DEF RepeatError, Goto
  <2> QED
    BY <1>0, <1>12, <2>1, <2>2, PlainStep DEF RepeatError, lockVars
<1> QED
  BY <1>1, <1>2, <1>3, <1>4, <1>5, <1>6, <1>7, <1>8, <1>9, <1>10, <1>11,
     <1>12 DEF Serve

\* The clock, and steps that change nothing of this.
LEMMA IdleStep ==
  ASSUME AInv, UNCHANGED <<db, draft, lockVars, job, counted>>,
         clock' \in Tokens
  PROVE  AInv'
BY DEF AInv, TypeOK, TablesOK, NicknamesUniqueIn, CompleteIn,
       SuspendedAtThreeIn, OneTokenEachIn, StoredIn, WriterOK, Drafted,
       LocksOK, JobOK, HasAccount, NameTaken, lockVars

\* Every step keeps the invariant.
LEMMA ANext == AInv /\ [Next]_vars => AInv'
<1> SUFFICES ASSUME AInv, [Next]_vars PROVE AInv'
  OBVIOUS
<1>0. clock \in Tokens
  BY DEF AInv, TypeOK
<1>1. ASSUME NEW t \in Threads, Ask(t) PROVE AInv'
  BY <1>1, AskStep
<1>2. ASSUME NEW t \in Threads, Serve(t) PROVE AInv'
  BY <1>2, ServeStep
<1>3. CASE Tick
  <2>1. clock' \in Tokens
    BY <1>0, <1>3, AccountsAssumption DEF Tick, Tokens
  <2> QED
    BY <1>3, <2>1, IdleStep DEF Tick
<1>4. CASE UNCHANGED vars
  BY <1>0, <1>4, IdleStep DEF vars
<1> QED
  BY <1>1, <1>2, <1>3, <1>4 DEF Next

----------------------------------------------------------------------------
(* The theorems.                                                           *)

\* The tables keep their columns and every thread a request of Accounts, for
\* any interleaving of the server's threads.
THEOREM TypeCorrect == Spec => []TypeOK
<1>1. AInv => TypeOK
  BY DEF AInv
<1> QED
  BY <1>1, AInit, ANext, PTL DEF Spec

\* The invariant of the proof itself, for the theorems below.
THEOREM TablesCorrect == Spec => []AInv
  BY AInit, ANext, PTL DEF Spec

\* No two accounts ever have one nickname (the UNIQUE of handler.c:30 for
\* sign-up, the SHARED lock of user_auth.c:315 for a change).
THEOREM NicknamesUniqueCorrect == Spec => []NicknamesUnique
<1>1. AInv => NicknamesUnique
  BY DEF AInv, TablesOK, NicknamesUnique
<1> QED
  BY <1>1, TablesCorrect, PTL

\* Nobody ever finds an account without statistics or a token without an
\* account.
THEOREM AccountsCompleteCorrect == Spec => []AccountsComplete
<1>1. AInv => AccountsComplete
  BY DEF AInv, TablesOK, AccountsComplete
<1> QED
  BY <1>1, TablesCorrect, PTL

\* An account is suspended exactly from its third report on.
THEOREM SuspendedAtThreeCorrect == Spec => []SuspendedAtThree
<1>1. AInv => SuspendedAtThree
  BY DEF AInv, TablesOK, SuspendedAtThree
<1> QED
  BY <1>1, TablesCorrect, PTL

\* An account has at most one token and a token one account.
THEOREM OneTokenEachCorrect == Spec => []OneTokenEach
<1>1. AInv => OneTokenEach
  BY DEF AInv, TablesOK, OneTokenEach
<1> QED
  BY <1>1, TablesCorrect, PTL

\* No report and no result that was acknowledged is lost or counted twice.
THEOREM AcknowledgedIsStoredCorrect == Spec => []AcknowledgedIsStored
<1>1. AInv => AcknowledgedIsStored
  BY DEF AInv, StoredIn, AcknowledgedIsStored
<1> QED
  BY <1>1, TablesCorrect, PTL

\* Only a login to an account takes its token away, whatever other logins fail
\* at their lock, at an equal token, at an apostrophe in their id or at their
\* COMMIT.  It is a theorem about systems whose Ids are as Accounts has them:
\* an id that is SQL of its own once session.c:21 has spliced it in would break
\* it, and the code does not refuse such an id.
THEOREM OthersKeepTheirTokensCorrect == Spec => OthersKeepTheirTokens
<1> DEFINE Kept ==
      \A s \in db.sessions :
        s \notin db'.sessions =>
          \E t \in Threads : job[t].op = "ISSUE" /\ job[t].id = s.user_id
<1>1. AInv /\ [Next]_vars => [Kept]_vars
  <2> SUFFICES ASSUME AInv, Next, ~UNCHANGED db PROVE Kept
    OBVIOUS
  <2>1. PICK t \in Threads : Ask(t) \/ Serve(t)
    BY DEF Next, Tick
  <2>2. ~Ask(t)
    BY DEF Ask, CheckId, CheckNickname, Signup, Login, EditNick, Token,
           QueryWait, Report, Result, LeaveLoop
  <2>3. Synced(t)
    BY <2>1, <2>2
       DEF Serve, InsertAccount, StoreToken, SelectNickname, UpdateNickname,
           Profile, ReportTarget, CountReport, SaveResult, Commit, LoseToken,
           RepeatError
  <2> QED
    BY <2>3, SyncedTables
<1> QED
  BY <1>1, TablesCorrect, PTL DEF Spec, OthersKeepTheirTokens

----------------------------------------------------------------------------
(* Locks.                                                                  *)

\* Only the writer is at its COMMIT, and only a change of nickname reads on.
HoldsOK(t) ==
  /\ job[t].op \in Writes /\ job[t].at = "commit" => writer = t
  /\ t \in readers => job[t].op = "EDIT_NICK" /\ job[t].at \in {"update", "commit"}

AllHold == \A t \in Threads : HoldsOK(t)

\* A step of one thread leaves the others with the locks they hold.
LEMMA HoldStep ==
  ASSUME AllHold, NEW t \in Threads,
         \A s \in Threads : s # t => job'[s] = job[s],
         writer' = writer \/ writer \in {None, t},
         readers' \subseteq readers \cup {t},
         HoldsOK(t)'
  PROVE  AllHold'
BY AccountsAssumption DEF AllHold, HoldsOK

\* A request that begins, or goes on without a lock, holds none.
LEMMA GotoHolds ==
  ASSUME AInv, AllHold, NEW t \in Threads, NEW j, Goto(t, j),
         j.op \in Writes => j.at # "commit",
         writer' = writer \/ writer = t,
         readers' \subseteq readers, t \notin readers'
  PROVE  AllHold'
<1>1. job'[t] = j /\ \A s \in Threads : s # t => job'[s] = job[s]
  BY DEF Goto, AInv, TypeOK
<1> QED
  BY <1>1, HoldStep DEF HoldsOK

\* A first write is of a thread that has RESERVED from then on.
LEMMA WriteHolds ==
  ASSUME AInv, AllHold, NEW t \in Threads, NEW e, Write(t, e), writer = None,
         job[t].op \in Writes, UNCHANGED readers,
         t \in readers => job[t].op = "EDIT_NICK"
  PROVE  AllHold'
<1>1. /\ job[t] \in Jobs /\ job' = [job EXCEPT ![t].at = "commit"]
      /\ job \in [Threads -> Jobs] /\ writer' = t
  BY DEF Write, AInv, TypeOK
<1>2. job'[t] = [job[t] EXCEPT !.at = "commit"]
      /\ \A s \in Threads : s # t => job'[s] = job[s]
  BY <1>1
<1>3. job'[t].op = job[t].op /\ (t \in readers => job'[t].at = "commit")
  BY <1>1, <1>2 DEF Jobs, Idle, Stuck, Writes
<1>4. HoldsOK(t)'
  BY <1>1, <1>3 DEF HoldsOK
<1> QED
  BY <1>1, <1>2, <1>4, HoldStep

\* Requests begin without a lock.
LEMMA AskHolds ==
  ASSUME AInv, AllHold, NEW t \in Threads, Ask(t)
  PROVE  AllHold'
<1>1. job[t].op \in {"none", "MATCHING"}
  <2>1. job[t] = Idle \/ job[t].op = "MATCHING"
    BY DEF Ask, CheckId, CheckNickname, Signup, Login, EditNick, Token,
           QueryWait, Report, Result, LeaveLoop
  <2> QED
    BY <2>1 DEF Idle
<1>2. t \notin readers
  BY <1>1 DEF AllHold, HoldsOK
<1>3. UNCHANGED <<writer, readers>>
  BY DEF Ask, CheckId, CheckNickname, Signup, Login, EditNick, Token, QueryWait,
         Report, Result, LeaveLoop, lockVars
<1>4. PICK j : Goto(t, j) /\ (j.op \in Writes => j.at # "commit")
  <2>1. /\ Idle.op \notin Writes /\ Stuck.at # "commit"
        /\ \A i : Issue(i).at # "commit"
        /\ \A i, n : [op |-> "SIGNUP", at |-> "insert", id |-> i,
                      nickname |-> n].at # "commit"
        /\ \A i, n : [op |-> "EDIT_NICK", at |-> "select", id |-> i,
                      nickname |-> n].at # "commit"
        /\ \A i : [op |-> "TOKEN", at |-> "profile", id |-> i].at # "commit"
        /\ \A k : [op |-> "MATCHING", token |-> k].op \notin Writes
        /\ \A n, k : [op |-> "REPORT", at |-> "target", nickname |-> n,
                      token |-> k].at # "commit"
        /\ \A w, i : [op |-> "RESULT", at |-> "upsert", won |-> w,
                      id |-> i].at # "commit"
    BY DEF Idle, Stuck, Issue, Writes
  <2>2. CASE \/ \E i \in Ids : CheckId(t, i)
             \/ \E n \in Names : CheckNickname(t, n)
             \/ \E k \in Tokens : Token(t, k) \/ QueryWait(t, k)
             \/ LeaveLoop(t)
    BY <2>1, <2>2 DEF CheckId, CheckNickname, Token, QueryWait, LeaveLoop, Answer
  <2>3. CASE \E i \in Ids, n \in Names : Signup(t, i, n)
    BY <2>1, <2>3 DEF Signup, Answer
  <2>4. CASE \E i \in Ids, right \in BOOLEAN : Login(t, i, right)
    BY <2>1, <2>4 DEF Login, Answer
  <2>5. CASE \E k \in Tokens, n \in Names : EditNick(t, k, n)
    BY <2>1, <2>5 DEF EditNick, Answer
  <2>6. CASE \E n \in Names : Report(t, n)
    BY <2>1, <2>6 DEF Report, RefuseReport
  <2>7. CASE \E n \in Names, won \in BOOLEAN : Result(t, n, won)
    BY <2>1, <2>7 DEF Result, Answer
  <2> QED
    BY <2>2, <2>3, <2>4, <2>5, <2>6, <2>7 DEF Ask
<1> QED
  BY <1>2, <1>3, <1>4, GotoHolds

\* A lock is taken by the step that needs it, and given back by the one that
\* ends the transaction.
LEMMA ServeHolds ==
  ASSUME AInv, AllHold, NEW t \in Threads, Serve(t)
  PROVE  AllHold'
<1>0. /\ HoldsOK(t) /\ JobOK(t)
      /\ Idle.op \notin Writes /\ Stuck.at # "commit"
      /\ \A i : Issue(i).at # "commit"
      /\ {"SIGNUP", "ISSUE", "EDIT_NICK", "REPORT", "RESULT"} = Writes
  BY DEF AllHold, AInv, Idle, Stuck, Issue, Writes
<1>1. CASE InsertAccount(t)
  <2>1. job[t].op = "SIGNUP" /\ t \notin readers /\ writer = None
        /\ UNCHANGED readers
    BY <1>0, <1>1 DEF InsertAccount, HoldsOK
  <2>2. \/ \E e : Write(t, e)
        \/ Goto(t, Idle) /\ UNCHANGED writer
    BY <1>1 DEF InsertAccount, Answer
  <2> QED
    BY <1>0, <2>1, <2>2, GotoHolds, WriteHolds
<1>2. CASE StoreToken(t)
  <2>1. job[t].op = "ISSUE" /\ t \notin readers /\ UNCHANGED readers
    BY <1>0, <1>2 DEF StoreToken, HoldsOK
  <2>2. \/ writer = None /\ \E e : Write(t, e)
        \/ Goto(t, Idle) /\ UNCHANGED writer
    BY <1>2 DEF StoreToken, Answer
  <2> QED
    BY <1>0, <2>1, <2>2, GotoHolds, WriteHolds
<1>3. CASE SelectNickname(t)
  <2>1. job[t].op = "EDIT_NICK" /\ job[t].at = "select" /\ t \notin readers
        /\ UNCHANGED writer
    BY <1>0, <1>3 DEF SelectNickname, HoldsOK
  <2>2. CASE Goto(t, Idle) /\ UNCHANGED readers
    BY <1>0, <2>1, <2>2, GotoHolds
  <2>3. CASE job' = [job EXCEPT ![t].at = "update"] /\ readers' = readers \cup {t}
    <3>1. job \in [Threads -> Jobs] /\ job[t] \in Jobs
      BY DEF AInv, TypeOK
    <3>2. job'[t] = [job[t] EXCEPT !.at = "update"]
          /\ \A s \in Threads : s # t => job'[s] = job[s]
      BY <2>3, <3>1
    <3>3. job'[t].op = "EDIT_NICK" /\ job'[t].at = "update"
      BY <2>1, <3>1, <3>2 DEF Jobs, Idle, Stuck
    <3> QED
      BY <2>1, <2>3, <3>2, <3>3, HoldStep DEF HoldsOK
  <2> QED
    BY <1>3, <2>2, <2>3 DEF SelectNickname, Answer
<1>4. CASE UpdateNickname(t)
  <2>1. job[t].op = "EDIT_NICK"
    BY <1>4 DEF UpdateNickname
  <2>2. CASE writer = None
    <3>1. UNCHANGED readers /\ \E e : Write(t, e)
      BY <1>4, <2>2 DEF UpdateNickname
    <3> QED
      BY <1>0, <2>1, <2>2, <3>1, WriteHolds
  <2>3. CASE writer # None
    <3>1. Goto(t, Idle) /\ readers' = readers \ {t} /\ UNCHANGED writer
      BY <1>4, <2>3 DEF UpdateNickname, Answer
    <3> QED
      BY <1>0, <3>1, GotoHolds
  <2> QED
    BY <2>2, <2>3
<1>5. CASE Profile(t) \/ ReportTarget(t)
  <2>1. t \notin readers /\ UNCHANGED <<writer, readers>>
    BY <1>0, <1>5 DEF Profile, ReportTarget, HoldsOK, lockVars
  <2>2. \/ Goto(t, Idle) \/ Goto(t, Stuck)
        \/ \E i, k : Goto(t, [op |-> "REPORT", at |-> "count", id |-> i,
                             token |-> k])
    BY <1>5 DEF Profile, ReportTarget, Answer, RefuseReport
  <2>3. \A i, k : [op |-> "REPORT", at |-> "count", id |-> i,
                  token |-> k].at # "commit"
    OBVIOUS
  <2> QED
    BY <1>0, <2>1, <2>2, <2>3, GotoHolds
<1>6. CASE CountReport(t) \/ SaveResult(t)
  <2>1. /\ job[t].op \in {"REPORT", "RESULT"} /\ writer = None
        /\ UNCHANGED readers /\ \E e : Write(t, e)
    BY <1>6 DEF CountReport, SaveResult
  <2>2. t \notin readers
    BY <1>0, <2>1 DEF HoldsOK
  <2> QED
    BY <1>0, <2>1, <2>2, WriteHolds
<1>7. CASE Commit(t) \/ RepeatError(t)
  BY <1>7 DEF Commit, RepeatError, AllHold, HoldsOK, lockVars
<1>8. CASE LoseToken(t)
  <2>1. /\ job[t].op = "ISSUE" /\ writer = t /\ Goto(t, Idle)
        /\ UNCHANGED readers
    BY <1>8 DEF LoseToken, AtCommit, Answer
  <2>2. t \notin readers
    BY <1>0, <2>1 DEF HoldsOK
  <2> QED
    BY <1>0, <2>1, <2>2, GotoHolds
<1>9. CASE Synced(t)
  <2>1. writer = t /\ readers' = readers \ {t}
    BY <1>9 DEF Synced
  <2>2. \/ Goto(t, Idle) \/ \E i : Goto(t, Issue(i))
        \/ \E k : Goto(t, [op |-> "MATCHING", token |-> k])
    BY <1>9 DEF Synced, Answer
  <2>3. \A k : [op |-> "MATCHING", token |-> k].op \notin Writes
    BY DEF Writes
  <2> QED
    BY <1>0, <2>1, <2>2, <2>3, GotoHolds
<1> QED
  BY <1>1, <1>2, <1>3, <1>4, <1>5, <1>6, <1>7, <1>8, <1>9 DEF Serve

\* Whoever is at its COMMIT holds RESERVED, and only a change of nickname keeps
\* SHARED from one statement to the next (user_auth.c:315).
THEOREM LocksCorrect == Spec => []AllHold
<1>1. Init => AllHold
  BY DEF Init, AllHold, HoldsOK, Idle, Writes
<1>2. AInv /\ AllHold /\ [Next]_vars => AllHold'
  <2> SUFFICES ASSUME AInv, AllHold, [Next]_vars PROVE AllHold'
    OBVIOUS
  <2>1. CASE Tick \/ UNCHANGED vars
    BY <2>1 DEF Tick, vars, lockVars, AllHold, HoldsOK
  <2> QED
    BY <2>1, AskHolds, ServeHolds DEF Next
<1> QED
  BY <1>1, <1>2, TablesCorrect, PTL DEF Spec

\* Of the threads with a request under way one waits for no lock: the writer,
\* or a reader it waits for, who does not wait for it (user_auth.c:303-334).
THEOREM NotAllWaitCorrect == Spec => []NotAllWait
<1>1. AInv /\ AllHold => NotAllWait
  <2> SUFFICES ASSUME AInv, AllHold, NEW u \in Threads, Working(u)
               PROVE  \E t \in Threads : Working(t) /\ ~Waits(t)
    BY DEF NotAllWait
  <2>0. \A j : j.op \in Writes /\ j.at # "stuck" =>
          j # Idle /\ j # Stuck /\ j.op # "MATCHING"
    BY DEF Writes, Idle, Stuck
  <2>1. CASE writer = None
    <3>1. ~syncing
      BY <2>1 DEF AInv, LocksOK
    <3>2. ~Waits(u)
      <4>1. ~(job[u].op \in Writes /\ job[u].at = "commit")
        BY <2>1, AccountsAssumption DEF AllHold, HoldsOK
      <4>2. job[u] \in Jobs /\ job[u].op # "MATCHING" /\ job[u] # Idle
        BY DEF AInv, TypeOK, Working
      <4>3. job[u].at # "commit"
        BY <4>1, <4>2 DEF Jobs, Writes, Stuck
      <4> QED
        BY <2>1, <3>1, <4>3 DEF Waits
    <3> QED
      BY <3>2
  <2>2. CASE writer # None
    <3>1. /\ writer \in Threads /\ job[writer].op \in Writes
          /\ job[writer].at = "commit" /\ readers \subseteq Threads
      BY <2>2 DEF AInv, WriterOK, TypeOK
    <3>2. Working(writer)
      BY <2>0, <3>1 DEF Working
    <3>3. CASE syncing \/ readers \subseteq {writer}
      BY <3>1, <3>2, <3>3 DEF Waits
    <3>4. CASE ~syncing /\ ~(readers \subseteq {writer})
      <4>1. PICK t \in readers : t # writer
        BY <3>4
      <4>2. t \in Threads /\ job[t].op = "EDIT_NICK" /\ job[t].at = "update"
        BY <3>1, <4>1 DEF AllHold, HoldsOK, Writes
      <4>3. Working(t)
        BY <2>0, <4>2 DEF Working, Writes
      <4> QED
        BY <4>2, <4>3 DEF Waits
    <3> QED
      BY <3>3, <3>4
  <2> QED
    BY <2>1, <2>2
<1> QED
  BY <1>1, LocksCorrect, TablesCorrect, PTL

=============================================================================
