------------------------------ MODULE Accounts ------------------------------
(***************************************************************************)
(* The accounts: the tables users, game_stats and sessions (handler.c) and *)
(* every request that reads or changes them: sign-up, login and change of  *)
(* nickname over TLS (server.c, user_auth.c, session.c), the profile and   *)
(* the check of a nickname over TCP (user_info.c), reports                 *)
(* (room_manager.c, user_report.c) and the results of a game               *)
(* (game_result.c).                                                        *)
(*                                                                         *)
(* Every request is served by a thread that opens the SQLite file anew, so *)
(* threads meet in its locks alone: a writer holds RESERVED from its first *)
(* write to its COMMIT, which needs EXCLUSIVE and waits for the SHARED     *)
(* lock of a transaction that has read.  What a writer has written is seen *)
(* by nobody else before that, so the statements between BEGIN and COMMIT  *)
(* are one step here, except where one of them may find the lock taken.    *)
(* A handle from db_open waits for a lock (busy timeout 5 s, taken to be   *)
(* enough), one from plain sqlite3_open fails at once with SQLITE_BUSY,    *)
(* and so does a transaction that has read and now wants to write.         *)
(*                                                                         *)
(* Passwords are right or wrong, a token is the second whose clock seeded  *)
(* its generator.  An id is bound to every statement but the two of        *)
(* session.c, into which it is spliced between quotes.  An apostrophe in   *)
(* it makes the first of them a syntax error; Quoted are the ids that have *)
(* one.  An id whose text is read as SQL once more, so that the statement  *)
(* is another one, is not in Ids: nothing is said of a system that has     *)
(* one.  Nor are ids of 64 bytes and more, which the look-ups cut.         *)
(***************************************************************************)
EXTENDS Naturals, FiniteSets

CONSTANTS Ids,           \* none of them SQL of its own, see above
          Quoted,        \* the ids with an apostrophe
          Names, Threads,
          None,          \* no row, no thread
          LastSecond,    \* bound on the clock
          MostReports,   \* bound on report_count
          MostGames      \* bound on the games of an account

\* The rows of users and of game_stats.
Account == [nickname : Names, report_count : Nat, is_suspended : BOOLEAN]
Stats == [wins : Nat, losses : Nat]

ASSUME AccountsAssumption ==
  /\ Quoted \subseteq Ids
  /\ None \notin Account \cup Stats
  /\ None \notin Threads
  /\ LastSecond \in Nat
  /\ MostReports \in Nat
  /\ MostGames \in Nat

VARIABLES
  db,        \* the tables as they are committed
  draft,     \* the tables as the writer's transaction sees them
  writer,    \* the thread that holds RESERVED, or None
  syncing,   \* the writer holds EXCLUSIVE: its COMMIT is being written
  readers,   \* threads whose transaction holds SHARED between statements
  clock,     \* time(NULL)
  job,       \* what each server thread is doing
  answer,    \* the last answer that was sent
  counted    \* history: reports and results acknowledged, per account

lockVars == <<writer, syncing, readers>>
vars == <<db, draft, lockVars, clock, job, answer, counted>>

Tokens == 0 .. LastSecond

HasAccount(d, i) == d.users[i] # None
NameTaken(d, n) == \E i \in Ids : HasAccount(d, i) /\ d.users[i].nickname = n
TokenTaken(d, k) == \E s \in d.sessions : s.token = k

\* The account a token is stored for; sessions.token is a primary key.
OwnerOf(d, k) == (CHOOSE s \in d.sessions : s.token = k).user_id

HolderOf(d, n) ==
  CHOOSE i \in Ids : HasAccount(d, i) /\ d.users[i].nickname = n

Idle == [op |-> "none"]

Init ==
  /\ db = [users |-> [i \in Ids |-> None],
           game_stats |-> [i \in Ids |-> None],
           sessions |-> {}]
  /\ draft = db
  /\ writer = None
  /\ syncing = FALSE
  /\ readers = {}
  /\ clock = 0
  /\ job = [t \in Threads |-> Idle]
  /\ answer = [op |-> "none", says |-> "none"]
  /\ counted = [i \in Ids |-> [reports |-> 0, games |-> 0]]

----------------------------------------------------------------------------
(* What every request does with its thread and with the locks.             *)

Goto(t, j) == job' = [job EXCEPT ![t] = j]

Answer(t, op, says) ==
  /\ Goto(t, Idle)
  /\ answer' = [op |-> op, says |-> says]

\* The first write of a transaction: RESERVED, and the rows in its view.
Write(t, d) ==
  /\ writer' = t
  /\ draft' = d
  /\ job' = [job EXCEPT ![t].at = "commit"]

----------------------------------------------------------------------------
(* Requests of one statement.                                              *)

\* A handle that does not wait: with the file locked sqlite3_prepare_v2 cannot
\* read the schema, which is an error, and if the lock comes after it
\* sqlite3_step finds no row, which is as good as free.
Looked(taken) ==
  IF syncing THEN {"ERROR", "AVAILABLE"}
  ELSE IF taken THEN {"TAKEN"} ELSE {"AVAILABLE"}

CheckId(t, i) ==
  /\ job[t] = Idle
  /\ \E says \in Looked(HasAccount(db, i)) : Answer(t, "CHECK_ID", says)
  /\ UNCHANGED <<db, draft, lockVars, clock, counted>>

CheckNickname(t, n) ==
  /\ job[t] = Idle
  /\ \E says \in Looked(NameTaken(db, n)) : Answer(t, "CHECK_NICKNAME", says)
  /\ UNCHANGED <<db, draft, lockVars, clock, counted>>

----------------------------------------------------------------------------
(* SIGNUP and LOGIN: two transactions, the account and then its token.     *)

\* signup_user looks for the id and the nickname outside its transaction.
Signup(t, i, n) ==
  /\ job[t] = Idle
  /\ ~syncing
  /\ IF HasAccount(db, i) \/ NameTaken(db, n)
     THEN Answer(t, "SIGNUP", "ERROR")
     ELSE /\ Goto(t, [op |-> "SIGNUP", at |-> "insert", id |-> i,
                      nickname |-> n])
          /\ UNCHANGED answer
  /\ UNCHANGED <<db, draft, lockVars, clock, counted>>

\* Mutant: users.nickname is not UNIQUE.
UniqueId(d, i, n) == ~HasAccount(d, i)

\* users.id is the primary key and users.nickname is UNIQUE.
Unique(d, i, n) == ~HasAccount(d, i) /\ ~NameTaken(d, n)

\* Mutant: sign-up without its row of statistics.
WithNoStats(d, i, n) ==
  [d EXCEPT
     !.users[i] = [nickname |-> n, report_count |-> 0, is_suspended |-> FALSE]]

\* Mutant: a sign-up that writes no report_count, in a table without DEFAULT.
NoDefaults(d, i, n) ==
  [d EXCEPT
     !.users[i] = [nickname |-> n, report_count |-> None, is_suspended |-> FALSE],
     !.game_stats[i] = IF @ = None THEN [wins |-> 0, losses |-> 0] ELSE @]

\* INSERT OR IGNORE leaves the row of a statistic there is.
WithAccount(d, i, n) ==
  [d EXCEPT
     !.users[i] = [nickname |-> n, report_count |-> 0, is_suspended |-> FALSE],
     !.game_stats[i] = IF @ = None THEN [wins |-> 0, losses |-> 0] ELSE @]

InsertAccount(t) ==
  /\ job[t].op = "SIGNUP" /\ job[t].at = "insert"
  /\ writer = None
  /\ LET i == job[t].id
         n == job[t].nickname
     IN IF Unique(db, i, n)
        THEN /\ Write(t, WithAccount(db, i, n))
             /\ UNCHANGED answer
        ELSE /\ Answer(t, "SIGNUP", "ERROR")
             /\ UNCHANGED <<writer, draft>>
  /\ UNCHANGED <<db, syncing, readers, clock, counted>>

Issue(i) == [op |-> "ISSUE", at |-> "store", id |-> i]

\* login_user_db: a suspended account is told so whatever the password.
Login(t, i, right) ==
  /\ job[t] = Idle
  /\ ~syncing
  /\ IF HasAccount(db, i) /\ ~db.users[i].is_suspended /\ right
     THEN Goto(t, Issue(i)) /\ UNCHANGED answer
     ELSE Answer(t, "LOGIN",
                 IF ~HasAccount(db, i) THEN "NO_ACCOUNT"
                 ELSE IF db.users[i].is_suspended THEN "SUSPENDED"
                 ELSE "WRONG_PW")
  /\ UNCHANGED <<db, draft, lockVars, clock, counted>>

\* Mutant: no DELETE before the INSERT.
NoneRemoved(d, i) == d.sessions

\* Mutant: INSERT OR REPLACE, which takes the row of an equal token over.
Replaced(d, i) == {s \in d.sessions : s.user_id # i /\ s.token # clock}

\* DELETE the account's token and INSERT the new one, for an id whose text is
\* only an id between quotes; sessions.token is a primary key.
Tokenless(d, i) == {s \in d.sessions : s.user_id # i}

WithToken(d, i, k) ==
  [d EXCEPT !.sessions = Tokenless(d, i) \cup {[user_id |-> i, token |-> k]}]

TokenFits(d, i, k) == \A s \in Tokenless(d, i) : s.token # k

\* generate_token and add_token_to_db_after_removal, whose handle does not
\* wait and whose result nobody looks at: the client is told OK in any case.
\* With an apostrophe in the id the DELETE is a syntax error, which is rolled
\* back: the account never has a token.
StoreToken(t) ==
  /\ job[t].op = "ISSUE" /\ job[t].at = "store"
  /\ IF /\ writer = None
        /\ job[t].id \notin Quoted
        /\ TokenFits(db, job[t].id, clock)
     THEN /\ Write(t, WithToken(db, job[t].id, clock))
          /\ UNCHANGED answer
     ELSE /\ Answer(t, "ISSUE", "OK")
          /\ UNCHANGED <<writer, draft>>
  /\ UNCHANGED <<db, syncing, readers, clock, counted>>

----------------------------------------------------------------------------
(* EDIT_NICK.                                                              *)

\* get_user_id_by_token, on a handle that does not wait.
EditNick(t, k, n) ==
  /\ job[t] = Idle
  /\ IF ~syncing /\ TokenTaken(db, k)
     THEN /\ Goto(t, [op |-> "EDIT_NICK", at |-> "select",
                      id |-> OwnerOf(db, k), nickname |-> n])
          /\ UNCHANGED answer
     ELSE Answer(t, "EDIT_NICK", "INVALID_TOKEN")
  /\ UNCHANGED <<db, draft, lockVars, clock, counted>>

\* Mutant: a taken nickname returns before sqlite3_finalize, so that the
\* handle cannot be closed and keeps SHARED.
ForgottenRead(t) ==
  /\ job[t].op = "EDIT_NICK" /\ job[t].at = "select"
  /\ ~syncing
  /\ readers' = readers \cup {t}
  /\ IF NameTaken(db, job[t].nickname)
     THEN Answer(t, "EDIT_NICK", "DUPLICATE")
     ELSE job' = [job EXCEPT ![t].at = "update"] /\ UNCHANGED answer
  /\ UNCHANGED <<db, draft, writer, syncing, clock, counted>>

\* change_nickname: BEGIN, SELECT, which keeps SHARED.
SelectNickname(t) ==
  /\ job[t].op = "EDIT_NICK" /\ job[t].at = "select"
  /\ ~syncing
  /\ IF NameTaken(db, job[t].nickname)
     THEN /\ Answer(t, "EDIT_NICK", "DUPLICATE")
          /\ UNCHANGED readers
     ELSE /\ job' = [job EXCEPT ![t].at = "update"]
          /\ readers' = readers \cup {t}
          /\ UNCHANGED answer
  /\ UNCHANGED <<db, draft, writer, syncing, clock, counted>>

WithNickname(d, i, n) == [d EXCEPT !.users[i].nickname = n]

\* Mutant: the UPDATE waits for RESERVED although it holds SHARED.
PatientUpdate(t) ==
  /\ job[t].op = "EDIT_NICK" /\ job[t].at = "update"
  /\ writer = None
  /\ Write(t, WithNickname(db, job[t].id, job[t].nickname))
  /\ UNCHANGED <<db, syncing, readers, clock, answer, counted>>

\* UPDATE: to wait for RESERVED while it holds SHARED might be for ever, so
\* SQLite refuses at once.
UpdateNickname(t) ==
  /\ job[t].op = "EDIT_NICK" /\ job[t].at = "update"
  /\ IF writer = None
     THEN /\ Write(t, WithNickname(db, job[t].id, job[t].nickname))
          /\ UNCHANGED <<readers, answer>>
     ELSE /\ Answer(t, "EDIT_NICK", "ERROR")
          /\ readers' = readers \ {t}
          /\ UNCHANGED <<writer, draft>>
  /\ UNCHANGED <<db, syncing, clock, counted>>

----------------------------------------------------------------------------
(* A TCP connection: the profile, and the loop in which a client waits and *)
(* plays, where it may report a player.                                    *)

\* TOKEN: get_user_info_by_token.
Token(t, k) ==
  /\ job[t] = Idle
  /\ IF ~syncing /\ TokenTaken(db, k)
     THEN /\ Goto(t, [op |-> "TOKEN", at |-> "profile", id |-> OwnerOf(db, k)])
          /\ UNCHANGED answer
     ELSE Answer(t, "TOKEN", "INVALID_TOKEN")
  /\ UNCHANGED <<db, draft, lockVars, clock, counted>>

Profile(t) ==
  /\ job[t].op = "TOKEN"
  /\ ~syncing
  /\ Answer(t, "TOKEN", IF HasAccount(db, job[t].id) THEN "PROFILE"
                        ELSE "INVALID_TOKEN")
  /\ UNCHANGED <<db, draft, lockVars, clock, counted>>

\* CMD|QUERY_WAIT: the token goes to the waiting queue unread.
QueryWait(t, k) ==
  /\ job[t] = Idle
  /\ Goto(t, [op |-> "MATCHING", token |-> k])
  /\ UNCHANGED <<db, draft, lockVars, clock, answer, counted>>

LeaveLoop(t) ==
  /\ job[t].op = "MATCHING"
  /\ Goto(t, Idle)
  /\ UNCHANGED <<db, draft, lockVars, clock, answer, counted>>

\* A REPORT that fails goes on with the line it has just cut at its '|',
\* which is never a REPORT of two parts again: the thread answers for ever.
Stuck == [op |-> "REPORT", at |-> "stuck"]

RefuseReport(t) ==
  /\ Goto(t, Stuck)
  /\ answer' = [op |-> "REPORT", says |-> "ERROR"]

Reporting == {t \in Threads : job[t].op = "REPORT" /\ job[t] # Stuck}

\* get_user_id_by_token
Report(t, n) ==
  /\ job[t].op = "MATCHING"
  /\ \A i \in Ids :
       counted[i].reports + Cardinality(Reporting) < MostReports
  /\ IF ~syncing /\ TokenTaken(db, job[t].token)
     THEN /\ Goto(t, [op |-> "REPORT", at |-> "target", nickname |-> n,
                      token |-> job[t].token])
          /\ UNCHANGED answer
     ELSE RefuseReport(t)
  /\ UNCHANGED <<db, draft, lockVars, clock, counted>>

\* get_user_id_by_nickname
ReportTarget(t) ==
  /\ job[t].op = "REPORT" /\ job[t].at = "target"
  /\ IF ~syncing /\ NameTaken(db, job[t].nickname)
     THEN /\ Goto(t, [op |-> "REPORT", at |-> "count",
                      id |-> HolderOf(db, job[t].nickname),
                      token |-> job[t].token])
          /\ UNCHANGED answer
     ELSE RefuseReport(t)
  /\ UNCHANGED <<db, draft, lockVars, clock, counted>>

\* Mutant: the count is selected before the UPDATE.
CountedBefore(d, i) ==
  LET n == d.users[i].report_count IN
  [d EXCEPT !.users[i].report_count = n + 1,
            !.users[i].is_suspended = @ \/ n >= 3]

\* report_user: UPDATE, SELECT of the new count, and the suspension.
WithReport(d, i) ==
  LET n == d.users[i].report_count + 1 IN
  [d EXCEPT !.users[i].report_count = n,
            !.users[i].is_suspended = @ \/ n >= 3]

\* Mutant: a lock that is taken passes for success, as in StoreToken.
UncheckedCount(t) ==
  /\ job[t].op = "REPORT" /\ job[t].at = "count"
  /\ \/ /\ writer = None
        /\ Write(t, WithReport(db, job[t].id))
        /\ UNCHANGED <<answer, counted>>
     \/ /\ writer # None
        /\ Goto(t, [op |-> "MATCHING", token |-> job[t].token])
        /\ answer' = [op |-> "REPORT", says |-> "OK"]
        /\ counted' = [counted EXCEPT ![job[t].id].reports = @ + 1]
        /\ UNCHANGED <<writer, draft>>
  /\ UNCHANGED <<db, syncing, readers, clock>>

CountReport(t) ==
  /\ job[t].op = "REPORT" /\ job[t].at = "count"
  /\ writer = None
  /\ Write(t, WithReport(db, job[t].id))
  /\ UNCHANGED <<db, syncing, readers, clock, answer, counted>>

RepeatError(t) ==
  /\ job[t] = Stuck
  /\ answer' = [op |-> "REPORT", says |-> "ERROR"]
  /\ UNCHANGED <<db, draft, lockVars, clock, job, counted>>

----------------------------------------------------------------------------
(* The result of a game, for one nickname; the game thread goes on whether *)
(* it was saved or not.                                                    *)

Saving == {t \in Threads : job[t].op = "RESULT"}

\* get_user_id_by_nickname2
Result(t, n, won) ==
  /\ job[t] = Idle
  /\ \A i \in Ids : counted[i].games + Cardinality(Saving) < MostGames
  /\ ~syncing
  /\ IF NameTaken(db, n)
     THEN /\ Goto(t, [op |-> "RESULT", at |-> "upsert", won |-> won,
                      id |-> HolderOf(db, n)])
          /\ UNCHANGED answer
     ELSE Answer(t, "RESULT", "ERROR")
  /\ UNCHANGED <<db, draft, lockVars, clock, counted>>

WithResult(d, i, won) ==
  LET row == IF d.game_stats[i] = None THEN [wins |-> 0, losses |-> 0]
             ELSE d.game_stats[i]
  IN [d EXCEPT !.game_stats[i] =
        IF won THEN [row EXCEPT !.wins = @ + 1]
               ELSE [row EXCEPT !.losses = @ + 1]]

\* save_game_result_by_nickname
SaveResult(t) ==
  /\ job[t].op = "RESULT" /\ job[t].at = "upsert"
  /\ writer = None
  /\ Write(t, WithResult(db, job[t].id, job[t].won))
  /\ UNCHANGED <<db, syncing, readers, clock, answer, counted>>

----------------------------------------------------------------------------
(* COMMIT.                                                                 *)

AtCommit(t) == writer = t /\ ~syncing

Commit(t) ==
  /\ AtCommit(t)
  /\ readers \subseteq {t}
  /\ syncing' = TRUE
  /\ UNCHANGED <<db, draft, writer, readers, clock, job, answer, counted>>

\* The handle that stores a token does not wait for a reader, be it in the
\* middle of one SELECT; its COMMIT fails, sqlite3_close rolls back, and the
\* client is told OK.
LoseToken(t) ==
  /\ AtCommit(t)
  /\ job[t].op = "ISSUE"
  /\ Threads # {t}
  /\ writer' = None
  /\ draft' = db
  /\ Answer(t, "ISSUE", "OK")
  /\ UNCHANGED <<db, syncing, readers, clock, counted>>

\* The file is written: everybody sees the rows, and the request is done.
Synced(t) ==
  /\ writer = t /\ syncing
  /\ db' = draft
  /\ writer' = None
  /\ syncing' = FALSE
  /\ readers' = readers \ {t}
  /\ LET j == job[t] IN
     \/ /\ j.op = "SIGNUP"
        /\ Goto(t, Issue(j.id))
        /\ UNCHANGED <<answer, counted>>
     \/ /\ j.op = "REPORT"
        /\ Goto(t, [op |-> "MATCHING", token |-> j.token])
        /\ answer' = [op |-> "REPORT", says |-> "OK"]
        /\ counted' = [counted EXCEPT ![j.id].reports = @ + 1]
     \/ /\ j.op = "RESULT"
        /\ Answer(t, "RESULT", "OK")
        /\ counted' = [counted EXCEPT ![j.id].games = @ + 1]
     \/ /\ j.op \in {"ISSUE", "EDIT_NICK"}
        /\ Answer(t, j.op, "OK")
        /\ UNCHANGED counted
  /\ UNCHANGED <<draft, clock>>

Tick ==
  /\ clock < LastSecond
  /\ clock' = clock + 1
  /\ UNCHANGED <<db, draft, lockVars, job, answer, counted>>
----------------------------------------------------------------------------
Ask(t) ==
  \/ \E i \in Ids : CheckId(t, i)
  \/ \E n \in Names : CheckNickname(t, n)
  \/ \E i \in Ids, n \in Names : Signup(t, i, n)
  \/ \E i \in Ids, right \in BOOLEAN : Login(t, i, right)
  \/ \E k \in Tokens, n \in Names : EditNick(t, k, n)
  \/ \E k \in Tokens : Token(t, k)
  \/ \E k \in Tokens : QueryWait(t, k)
  \/ \E n \in Names : Report(t, n)
  \/ \E n \in Names, won \in BOOLEAN : Result(t, n, won)
  \/ LeaveLoop(t)

Serve(t) ==
  \/ InsertAccount(t)
  \/ StoreToken(t)
  \/ SelectNickname(t)
  \/ UpdateNickname(t)
  \/ Profile(t)
  \/ ReportTarget(t)
  \/ CountReport(t)
  \/ SaveResult(t)
  \/ Commit(t)
  \/ LoseToken(t)
  \/ Synced(t)
  \/ RepeatError(t)

Next == Tick \/ \E t \in Threads : Ask(t) \/ Serve(t)

Spec == Init /\ [][Next]_vars

----------------------------------------------------------------------------
(* What the tables are for.                                                *)

Tables == [users : [Ids -> Account \cup {None}],
           game_stats : [Ids -> Stats \cup {None}],
           sessions : SUBSET [user_id : Ids, token : Tokens]]

Jobs ==
  {Idle, Stuck}
  \cup [op : {"SIGNUP"}, at : {"insert", "commit"}, id : Ids,
        nickname : Names]
  \cup [op : {"ISSUE"}, at : {"store", "commit"}, id : Ids]
  \cup [op : {"EDIT_NICK"}, at : {"select", "update", "commit"}, id : Ids,
        nickname : Names]
  \cup [op : {"TOKEN"}, at : {"profile"}, id : Ids]
  \cup [op : {"MATCHING"}, token : Tokens]
  \cup [op : {"REPORT"}, at : {"target"}, nickname : Names, token : Tokens]
  \cup [op : {"REPORT"}, at : {"count", "commit"}, id : Ids, token : Tokens]
  \cup [op : {"RESULT"}, at : {"upsert", "commit"}, id : Ids, won : BOOLEAN]

\* Type invariant: the tables have the columns of handler.c, and only the
\* writer's transaction can be at its COMMIT.
TypeOK ==
  /\ db \in Tables
  /\ draft \in Tables
  /\ writer \in Threads \cup {None}
  /\ syncing \in BOOLEAN
  /\ readers \subseteq Threads
  /\ clock \in Tokens
  /\ job \in [Threads -> Jobs]
  /\ counted \in [Ids -> [reports : Nat, games : Nat]]

\* No two accounts have one nickname, however the check of one sign-up or
\* edit is interleaved with the write of another: reports, results and
\* GAME_INIT find a player by its nickname.
NicknamesUniqueIn(d) ==
  \A i, j \in Ids :
    /\ HasAccount(d, i) /\ HasAccount(d, j)
    /\ d.users[i].nickname = d.users[j].nickname
    => i = j

NicknamesUnique == NicknamesUniqueIn(db)

\* Readers never find half of a sign-up: an account has its statistics from
\* the moment it is there, and a statistic or a token is of an account.
CompleteIn(d) ==
  /\ \A i \in Ids : HasAccount(d, i) <=> d.game_stats[i] # None
  /\ \A s \in d.sessions : HasAccount(d, s.user_id)

AccountsComplete == CompleteIn(db)

\* An account is suspended exactly when it has been reported three times
\* (user_report.c:6), whatever reports of it run at the same time.
SuspendedAtThreeIn(d) ==
  \A i \in Ids :
    HasAccount(d, i) =>
      (d.users[i].is_suspended <=> d.users[i].report_count >= 3)

SuspendedAtThree == SuspendedAtThreeIn(db)

\* Two logins to one account at a time leave it one token, and no token
\* opens two accounts; said, like OthersKeepTheirTokens, of ids that are no
\* SQL of their own when session.c:21, 33 splices them in.
OneTokenEachIn(d) ==
  \A s, r \in d.sessions :
    s.user_id = r.user_id \/ s.token = r.token => s = r

OneTokenEach == OneTokenEachIn(db)

\* Every report and every result that was acknowledged is in the tables,
\* once, whatever other writer came between its lookup and its write.
AcknowledgedIsStored ==
  \A i \in Ids :
    HasAccount(db, i) =>
      /\ db.users[i].report_count = counted[i].reports
      /\ db.game_stats[i].wins + db.game_stats[i].losses = counted[i].games

\* The token of an account disappears only when a login to this account
\* replaces it: a login of another account that is given the same token, in
\* the same second, does not take it over, nor does one that fails half-way.
OthersKeepTheirTokens ==
  [][\A s \in db.sessions :
       s \notin db'.sessions =>
         \E t \in Threads : job[t].op = "ISSUE" /\ job[t].id = s.user_id]_vars

\* A thread waits where SQLite makes it: a first write for RESERVED, a read for
\* the end of another's COMMIT, and a COMMIT for the readers, unless it is that
\* of the handle which does not wait.
Waits(t) ==
  \/ job[t].at \in {"insert", "count", "upsert"} /\ writer # None
  \/ job[t].at \in {"select", "profile"} /\ syncing
  \/ /\ job[t].at = "commit" /\ job[t].op # "ISSUE"
     /\ ~syncing /\ ~(readers \subseteq {t})

Working(t) == job[t] # Idle /\ job[t] # Stuck /\ job[t].op # "MATCHING"

\* Threads never all wait for each other's locks, also when two changes of
\* a nickname have both read and now want to write.
NotAllWait ==
  (\E t \in Threads : Working(t)) => \E t \in Threads : Working(t) /\ ~Waits(t)

\* A request is held up by those locks only, so one of NotAllWait can go on.
WaitsForLocksOnly ==
  \A t \in Threads : Working(t) => (ENABLED Serve(t) <=> ~Waits(t))

\* "The user may not take part from the next game on" (codenames_screen.c:728
\* on REPORT_OK|n|SUSPENDED): a suspended account does not get to the
\* waiting queue.
SuspendedStaysOut ==
  [][\A t \in Threads :
       job[t] = Idle /\ job'[t].op = "MATCHING" =>
         \A s \in db.sessions :
           s.token = job'[t].token => ~db.users[s.user_id].is_suspended]_vars
=============================================================================
