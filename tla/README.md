# Verification of codenames

A TLA+ development for the online board game in `src/`: a C server with one
thread per connection, per room and per game, and an ncurses client. It models
the server's threads, the accounts in its database and the client's program with
its three threads, checks them with TLC on small instances, and proves the event
queue, the game session, the matchmaking, the accounts and the client's program with
TLAPS for every size.

Contents: 1 the system, 2 the modules, 3 the runs, 4 the disagreements found,
5 the proofs, 6 what is abstracted, 7 what is not modelled, 8 the plan.

## 1. The system

Six players log in over TLS and get a token, then ask for a random match over a
second, plain TCP connection. When six wait, a room deals seats, roles and
teams, and starts a game: 25 cards (9 red, 8 blue, 7 neutral, 1 assassin), in
turn a hint by a team's leader and answers by its members, until a colour is
complete or somebody turns the assassin.

| Component | State | Operations | Interacts with |
|---|---|---|---|
| Event queue (`room_manager.c:409-420, 699-715`) | ring of 64 events, front, rear, `event_lock` | enqueue, dequeue | connection threads put, the game thread gets |
| Game session (`room_manager.c:393-591`) | cards, scores, turn, phase, tries, `game_over` | hint, answer, chat, end of game | event queue, broadcast to all players, results database, registry |
| Matchmaking (`room_manager.c:30-109`) | waiting queue of six, `queue_mutex` | wait, cancel | connection threads, room threads |
| Rooms (`room_manager.c:248-357`) | two READY counters **shared by all rooms**, the players of each room | wait for phase 1, deal, wait for phase 2, register, start, reset | connection threads (READY_TO_GO), registry, game thread |
| Registry (`room_manager.c:658-697`) | ten slots for sessions | register, find by token, unregister | room, game and connection threads |
| Connection threads (`server.c:177-223`, `room_manager.c:112-245`) | local: session pointer, player index | outer loop: profile, wait; inner loop: cancel, ready, session, chat, hint, answer, quit, report | everything above |
| TLS requests (`server.c:51-174`) | - | sign up, log in, change nickname | accounts, tokens |
| Accept loop (`server.c:294-344`) | two listening sockets | accept on one, then on the other | starts connection threads |
| Accounts, tokens, reports, results (`src/src/*.c`) | SQLite tables `users`, `sessions`, `game_stats` and SQLite's locks on the file | sign up, log in, nickname, report, result | TLS requests, connection threads, game thread |
| Client: scenes (`client.c`, `gui/*.c`) | scene, two sockets, token, the fields of the screens | login, sign-up, lobby, waiting, game, result, invalid token | server |
| Client: matching (`lobby_screen.c:370-432`, `waiting_screen.c`) | progress, cancel allowed | ask, cancel, answer QUEUE_FULL / GAME_INIT / GAME_START | connection thread |
| Client: game screen (`codenames_screen.c`) | its copy of cards, turn, scores; input mode and buffer | listener thread, input thread, main loop | connection thread |

What is hard, and what makes each part correct:

* **Event queue**: a bounded ring written by six threads. Correct if it is a
  FIFO queue that refuses only when full.
* **Game session**: events wait while the state they were sent for goes by.
  Correct if every sequence of lines still plays the game's rules, the scores
  are the board's, and the end comes at the deciding card and is wound up.
* **Matchmaking and rooms**: three kinds of threads and the clients meet over
  lines that cross, and a barrier (the READY counters) that belongs to no room.
  Correct if a room starts when, and only when, its own players are there; if
  the queue never overflows and keeps no dead entries; if a cancelled client is
  out; and if no session is lost to the registry or found after its end.
* **Accounts and tokens**: each request is a few statements on a database file that
  other threads write, on handles some of which wait for a lock and some of which
  fail at once, with results that are mostly not looked at. Correct if nicknames are
  unique, an account has its statistics and at most one token, the third report
  suspends, nothing acknowledged is lost, and the locks get free.
* **The client**: three threads share a mode, a buffer and a view of the board that
  starts from a snapshot racing the updates; scenes follow each other over
  connections that keep what the scene before has left in them. Correct if the view
  settles to the server's state, nothing of one game shows in the next, and the
  player gets into the lobby, to his turn and to the result.

There are no tests in the repository. `PROJECT.json` lists the hazards line by
line, each with the properties that watch it.

## 2. The modules

| Module | What it is |
|---|---|
| `EventFifo` | what the event queue promises: a bounded FIFO queue |
| `EventRing` | the ring under `event_lock`, one action per step of enqueue and dequeue |
| `EventRing_proof` | its invariant and the refinement of `EventFifo`, proved |
| `CodenamesRules` | the game as the players see it: hints, guesses, winner |
| `GameSession` | a session and its thread, `run_game_session` |
| `GameSession_proof` | its invariants, the refinement of `CodenamesRules`, and its liveness from `WaitsForEventsOnly`, proved |
| `Matchmaking` | clients, connection threads, waiting queue, rooms, READY counters, registry |
| `RandomMatch` | what a match promises the players: a full room of those who asked starts at once |
| `Matchmaking_proof` | its types, queue, registry and connections in step, proved |
| `MatchTable_proof` | one room at a time and no cancelling: barriers, the queue, sessions let go, proved |
| `MatchRooms_proof` | any number of rooms and no cancelling: the refinement of `RandomMatch`, sessions found, the queue, proved |
| `Accounts` | the tables, SQLite's locks, and every request on them |
| `Accounts_proof` | what the tables keep and that nothing acknowledged is lost, proved |
| `GameScreen` | the game as one client sees it: broadcasts, listener, input thread, main loop |
| `ClientProgram` | that client's whole program: scenes, forms, connections, accept loop |
| `ClientProgram_proof` | its types, that the screen is of this game and that the view settles, proved |
| `MCEventRing`, `MCGameSession`, `MCMatchmaking`, `MCAccounts`, `MCClient` | instances for TLC |

They compose as follows. `EventRing` implements `EventFifo`, which is the queue
`GameSession` uses; `GameSession` implements `CodenamesRules`, which `GameScreen`
takes for the server's side of the game; `Matchmaking`, where nobody cancels,
implements `RandomMatch`; `ClientProgram` extends `GameScreen` by
everything around the game. `Matchmaking` is the stretch from QUERY_WAIT to
GAME_START that is one step in `ClientProgram`, and `Accounts` decides the answers
that are a choice there.

**EventRing.** `event_queue`, `event_front`, `event_rear` are the fields of
`GameSession`; `event_lock` is the set of the threads inside the mutex, so that
mutual exclusion is a fact about `Lock` and not built into the type. A call of
`enqueue_game_event` is `EnterEnqueue`, then `RefuseWhenFull`, or `Store` and
`Publish`; the head of the game loop is `EnterDequeue`, then `FindEmpty` or
`Take`. `Contents` reads the ring as a sequence, and under that mapping every
step is a `Put`, `Refuse` or `Get` of `EventFifo`, or invisible.

**GameSession.** The variables are the fields of the struct, and `pc`, `ev`,
`winner_team`, `saved` the game thread's place and locals. A connection
thread's `Enqueue` adds any event of any player, at any moment: the server looks
neither at the turn nor at `game_over` there. Each handler of the loop's body is one
action, since it runs under `game_lock` and nobody else writes these fields:
`HandleHint`, `HandleCard`, `HandleAssassin` (which skips the rest as the
`goto` does), `HandleUnknownWord` (which `continue`s past the score check) and
`HandleOther`. `LeaveLoop`, `AnnounceWinner`, `SaveResult` (six times, each may
fail) and `Cleanup` are the end. The queue here is a sequence of at most
`MaxEvents - 1` events, which is what `EventRing` is proved to implement.
`CodenamesRules` is instantiated with the turn's guesses as
`hint_count - remaining_tries` and the winner as soon as the game is over.

**Matchmaking.** A client is its token and its connection, a room its thread and
the session it makes. Lines travel in `inbox` (to the client) and `outbox` (to
the server), so a cancel may cross QUEUE_FULL. `program` is the client's
screen, `conn` the loop its connection thread is in (`"lobby"`: the outer loop of
`handle_tcp_client`, `"loop"`: `client_response_loop`, `"filling"`: inside
`handle_waiting_command` with the full queue). `FillRoom` and `AnnounceFull`
are two actions because the room's thread runs before QUEUE_FULL is sent.
`BindSession` is the look-up of SESSION_READY under `sessions_mutex`, `AckSession` what
follows without it; the game may end and be freed between the two.
`CountReady` is the shared counter; `PassPhase1`, `PassPhase2`, `Register`,
`StartGame`, `ResetReady` are the stretches of `run_match_room` between which
other threads can run, `FailCards` and `FailRegister` its two early returns.
Of the game thread only `AnnounceOver` (GAME_OVER) and `FreeSession` are here; the
results are written between the two. A line no loop knows would be ignored or
answered ERROR; no action says so, for `NoLineMisheard` shows that none comes.

**Accounts.** `db` is what is committed, `draft` what the writer's transaction sees.
The locks are SQLite's: `writer` holds RESERVED, `syncing` is EXCLUSIVE, `readers`
are the transactions that keep SHARED between their statements. A request is one
action where it has one statement that matters, and else goes through `job[t].at`:
the look-ups before a write, the write (`Write` takes RESERVED), `Commit`, `Synced`.
Statements between BEGIN and COMMIT that nobody can see are one step. What each
handle does with a taken lock is kept: `StoreToken` (plain `sqlite3_open`, results
ignored) answers OK although nothing was stored, and `LoseToken` is its COMMIT
failing; `UpdateNickname` is refused because it already reads; the others wait. A
token is the second its generator was seeded with, so two logins in a second
collide. The id is bound to every statement but the DELETE and the INSERT of a token,
into which it is spliced: `Quoted` are the ids with an apostrophe, for which the DELETE
fails. The checks of an id and a nickname (`Looked`) answer ERROR or AVAILABLE while the
file is locked, by whether the lock comes before or after the statement is prepared. `Stuck` is a refused REPORT, which the `continue` repeats.

**GameScreen.** The server side follows `CodenamesRules` and sends what the game
thread broadcasts: TURN_UPDATE, HINT, CARD_UPDATE, GAME_OVER in the code's order,
with the scores-only update (team 2). `CopyCards` and `SendCards` are the snapshot
of GET_ALL_CARDS, taken without `game_lock` in the connection thread, so cards may
be turned between the two (`missed`). `down` and `up` are the lines under way.
`ReadStart` is the end of the matching thread, which may lose what its buffer holds
behind GAME_START. `view` is what the screen knows; `RequestCards`, `HearAck`,
`HearAllCards`, `HearCard`, `HearTurn`, `HearHint`, `HearOver` are the listener,
`Tab`, `ChooseReport`, `EnterText` the input thread, `TakeInput`, `ActOnInput`,
`ShowResult` the main loop, which takes an input under the lock and acts on it
after.

**ClientProgram.** `scene` is the scene of `client.c` (and where a scene waits);
`tls` and `tcp` are the connections, in the backlog until `AcceptTls` or `AcceptTcp`
comes round, for the accept loop takes one of each kind in turn; `AcceptOther` is
another client's connection. Login, sign-up, lobby and result keep the fields that decide
what may be asked (`filled`, `login_scene`, `signup`, `renamed`). `ServeTcp` and
`ReadProfile` take any number of lines at once and look at the first, as the two
`recv`s do. `session` is the connection's session as this client meets it; `StartRoom`
stands for the whole of `Matchmaking`.

Each module also holds *mutants*: copies of a definition with a plausible
bug, each marked `Mutant:` and used by no specification. `PROJECT.json` pairs
every checked property with the mutant that breaks it.

## 3. The runs

| Run | Instance | What it shows |
|---|---|---|
| `ring` | 2 connection threads, 2 events, 4 slots | the ring is a FIFO queue; deadlock-free |
| `session` | 6 cards (2 red, 2 blue, 1 neutral, 1 assassin), 4 players, hints -1, 0, 2 or none, 2 slots | types, scores, end of the game, tries, results, assassin, the rules as a refinement; the thread waits for events only; the queue drains and a decided game is wound up |
| `table` | 3 clients, a room of 3, one room at a time, one client may leave | barriers are passed only by the room's own players; SESSION_READY finds its session; every game starts and binds its players unless one leaves; `RandomMatch` as a refinement; a freed session is held only until its client's GAME_QUIT or end is heard |
| `open` | 3 clients, rooms of 2, two rooms, 1 registry slot; one cancels and leaves, cards may fail | the queue keeps a place, the registry is exact, no line reaches the wrong loop |
| `accounts` | 3 ids, one with an apostrophe, 2 nicknames and so at most 2 accounts, 2 threads, 2 seconds, 3 reports, 1 result | types, unique nicknames, complete accounts, suspension, tokens, nothing acknowledged is lost; the locks get free; deadlock-free |
| `client` | one client, 3 words (1 or 2 red, or one the assassin; 1 blue), hints 0 or 2, two roles | types, no card and no winner of another game, the view settles; it gets in, to its turn and to the result |
| `two_rooms`, `late_cancel`, `bonus_guess`, `suspended_plays`, `lost_turn`, `role_of_another` | see section 4 | violations |

Why the bounds are enough. *ring*: with 4 slots and two producers the ring
fills, refuses and wraps at every position, and two calls contend for the lock;
more slots repeat the same cases, and the proof covers all sizes. *session*: the
board has every colour, each team can win by its last card, by the other team's
mistake and by the assassin, a hint allows less, exactly as many and more
guesses than there are cards, and one event can wait while another is handled; the
proof covers all boards. *table*: three players tell first, middle and last
apart; the name of the room is used again for game after game, so a counter
that is not reset shows. *open*: more clients than seats, so that a place, a
cancel and a new request meet in every order; one slot makes a full registry
reachable. `MaxReady` bounds `ready_phase2` above `RoomSize`, so that
overshooting the barrier is possible. `MaxStale` bounds the lines under
way when a client asks again; the constraint `FewLines` of `open` bounds them to
2 per client and 3 in all, enough for a cancel and a QUEUE_FULL to cross.
`OpenSymmetry` in `open` is sound: the rooms are interchangeable, and so are the two
clients that neither cancel nor leave, and the run has no liveness property.

*accounts*: two threads are the least that can interleave, and every property is about
one or two rows, so two accounts and two nicknames make every collision possible; the
second `LastSecond` lets tokens be equal or not; three reports reach the suspension.
The proof covers any number. `Same` is sound: accounts, nicknames and threads are
interchangeable, ids as long as those with an apostrophe stay among themselves
(`SameIds`), and the run has no liveness property. Two plain ids and two seconds make two
logins with one token; the third id is the one that never gets any. *client*: one more
line than `MaxLag` = 1 under way when another player moves, plus the up to three
lines of a move, is enough for lines to be read before, with and after each other;
with `MaxUp` = 1 an input never waits behind another one of the same client, which
`MayType` would not let it do anyway. Two deals are a
leader who begins and a member of the team that does not; the other two roles have
the same modes at other moments. Three words are one turned by the own team, one by
mistake, and one that ends the game; the games follow each other on one connection,
so what one leaves behind meets the next.

Two bounds of `client` are assumptions on the players, and properties may rest on
them: `MayType`, that a key comes after the screen has settled (a player is slower
than the main loop's 20 ms and the network), and `OthersMove`, that another player
does not move before this one's screen is there. Moves still race the key's
effect, but not every interleaving of the input thread and the main loop is there
(codenames_screen.c:1049).

`CHECK_DEADLOCK FALSE` in `session`, `client` and the matchmaking runs: a session is
freed and then does nothing; SCENE_ERROR ends the client's program; clients may all be
gone, or wait for players who do not come.

Fairness. `session` assumes weak fairness of the game thread: it runs, polls
every 50 ms, and takes no lock that is held for good. Nothing is assumed of the
players. `table` assumes weak fairness of every connection thread and room
thread (they poll or block in `recv`) and of a client's program reading what
has arrived; nobody has to press a key, and no game has to end. A poll for
exactly `RoomSize` is only weakly fair: if the counter could move past the value
before the poll looks, `RoomGetsGoing` would be violated, and the mutant of
`CountReady` shows that.

`client` (`FairSpec`) assumes weak fairness of the threads of server and client, which
poll or block in `recv`; that main, if it comes to the TCP accept again and again, takes
this client's connection in the end although others were first (strong fairness of
`AcceptTcp`: the backlog is a queue, and `AcceptOther` does not count its entries); and
that a player who again and again can press Tab in the chat, or out of it, does so in
the end. `TurnReachesPlayer` says that Tab then leads somewhere, not that he presses it.
Nobody else is assumed to connect, ever: main may stay in its TLS accept, and
`ProfileComes` says so. Its first half is that a TOKEN which is read next is answered
unless main is blocked there for good, its second that a client waits for its profile
for ever in that case and in one other only, when TOKEN was lost behind GAME_QUIT.
Neither case can be left out: TLC has found each property without one of them violated.

`table` has neither cancelling nor a second room on purpose: a late cancel leaves a
room waiting for ever, and a second room opens a barrier early, as section 4 says.

## 4. Disagreements found

* **`two_rooms`** (`room_manager.c:253`): the READY counters are shared by all
  rooms. A room filled while another room's players have just answered passes its
  barrier on their answers, and deals its game before its own players have seen
  QUEUE_FULL; the first room and the second then share what is left.
* **`late_cancel`** (`room_manager.c:153`): `res == WAIT_CANCELLED || WAIT_ERROR`
  is always true, so a client whose cancel crosses QUEUE_FULL is answered
  CANCEL_OK while the room keeps its seat and waits for its READY_TO_GO. The screen
  says "Press Q to cancel" until QUEUE_FULL has been read, and waiting_screen.h:40 that
  cancelling is possible as long as it does. The
  condition has one good side: leaving the inner loop in every case keeps the
  two ends in step (`NoLineMisheard`, whose mutant is the narrower condition).
* **`bonus_guess`** (`room_manager.c:435`): the code allows as many guesses as the
  hint's number; README.md:125 allows one more.
* **`lost_turn`** (`lobby_screen.c:424`): the matching thread leaves its loop at
  GAME_START with the rest of its buffer unread. The first TURN_UPDATE follows at
  once; when one `recv` brings both, the leader who begins is never asked for a hint
  and cannot get there with Tab, and nobody else may move. README.md:124 says he can.
* **`role_of_another`** (`lobby_screen.c:717`): GAME_INIT is searched for the nickname
  read when the lobby was entered. A player who has changed it there finds nobody,
  and plays with the index of his last game, or 0; README.md:122 gives him the role
  he was dealt.
* **`suspended_plays`** (`server.c:200`): only LOGIN looks at the suspension;
  codenames_screen.c:728 tells the reporter that the player may not take part from
  the next game on.

Met on the way, and in the models, though no line of the repository promises
otherwise:

* Nobody can sign up from the program: the screen checks the nickname with
  CHECK_NICKNAME over TLS, which `handle_ssl_client` does not know and answers ERROR, and
  the button asks for both checks to have succeeded (`TlsAnswers`, `MaySignup`).
* `q` on the login screen returns what the last key left in `scene_state`, which is
  the lobby after an earlier login (`QuitLogin`).
* A refused REPORT is answered for ever (`Stuck`, room_manager.c:206).
* A leader's second hint starts with the word of his first (`hintWord` is never
  cleared, codenames_screen.c:232): Tab goes to the number, and HINT goes out with it.
* A player has a seat in two registered sessions while the results of his last game are
  written: GAME_OVER is sent, he asks again, and the next room fills. His SESSION_READY
  is bound to the session in the lower slot (`FindSession`, room_manager.c:685), which
  may be the old one; it is freed, and his connection thread goes on with the pointer.
  With two rooms and two slots `FreedIsLetGo` is therefore false, without any cancel.
* Before QUEUE_FULL has been sent to all, the room's thread may have passed its barriers
  on another room's answers, and the game may be over: while `queue_mutex` is held for
  the sending, the queue names clients that have long left (`QueueOfLiveClients` holds
  of one room at a time, of more only while the mutex is free).
* GAME_QUIT drops the lines behind it in its buffer, the TOKEN of the next lobby among
  them (`ServeQuit`); the client then waits for its profile for ever (`Swallowed`).
* A client that opens its game connection again after INVALID_TOKEN waits until somebody
  else connects to the TLS socket (`Blocked`, server.c:294).
* After every cancel the client shows that cancelling has failed (lobby_screen.c:746),
  for it compares the server's line with `CANCEL_OK` without its newline
  (lobby_screen.c:741). It goes back to the lobby in either case, so the models do not
  tell the two apart.
* An account whose id has an apostrophe never gets a token: the DELETE of session.c:21,
  into which the id is spliced, is a syntax error at which nobody looks, and the login is
  told OK (`StoreToken`, `Quoted`). In `users` the same id is bound to its statement, so
  that sign-up and login succeed.
* Between finding a session and searching it for the client's seat a connection thread
  holds no lock (`BindSession` and `AckSession`, room_manager.c:135-138): it may be freed
  in between.

## 5. The proofs

`tlapm` checks the seven proof modules to the last leaf; the only assumptions are those on
the constants, which TLC evaluates in the runs, and the hypotheses that a theorem states.

*EventRing_proof*, from `RingAssumption` (at least one slot; the game thread is no
player; the empty event is no event). The inductive invariant `RingInv` is
`RingTypeOK`, `MutualExclusion` (a thread is inside a call exactly when it holds the
lock alone) and `LocalsOK`: a thread inside a call has an event to enqueue, and one
that has stored it has done so in the free slot at `event_rear`. The last part is
what makes `Store` invisible and `Publish` a `Put` of exactly the argument.
`SlotsOfContents` and `NextPosWraps` reduce the modulus to linear arithmetic.
Results: `RingInvariance`, `RingTypeCorrect`, `RingImplementsFifo`, and from the
refinement `WaitingSlotsAreFilled`: as every step puts a player's event or takes one
away, no slot that waits is empty.

*GameSession_proof*, from `BoardAssumption` (a finite board with the stated numbers
of red and blue cards and one assassin) and `SessionAssumption`. `GameInv` is
`TypeOK`, `ScoresMatchBoard`, `OverExactlyWhenDecided`, `TriesWithinHint`,
`OneEnd` (the two colours are not both complete, nor the assassin turned with a
colour complete) and `WindUpOK` (what `winner_team`, `saved` and `results` hold
at each place of the winding up). The score comparison `>= 9` is
equivalent to "the colour is complete" only because the scores count the used
cards and the board has that many (`CountTellsComplete`, from the cardinality
theorems of the library); `CountOneMore` is the step of one card.
`OneEnd` is needed because a second decision would change `WinnerTeam` after the
fact, which neither `AssassinLoses` nor the refinement would survive.
Liveness is proved from the fairness of the game thread up to one fact that the prover
cannot reach, that the thread is ENABLED when it has something to do. This is the
invariant `WaitsForEventsOnly`, which the run `session` checks and the two theorems have
as a hypothesis. A full queue takes no line (`StalledStays`), and the thread's next step
leaves the body of the loop or takes an event (`StalledGoesOn`). A decided game is at one
of the places that `WoundUp` counts, no other thread moves it, and every step of its own
takes it one further (`WindsUp`); the chain to the freed session has one link for each of
the six results and is proved for the room of six (`TeamSize = 3`) only, for any number
of players it would be an induction over a temporal formula.
Results: `GameInvariance`, `TypeCorrect`, `ScoresCorrect`, `OverCorrect`,
`TriesCorrect`, `ResultsCorrect`, `AssassinLosesCorrect`,
`SessionImplementsRules`; `QueueDrainsCorrect`, `DecidedGameIsWoundUpCorrect`.

*Matchmaking_proof*, from `MatchAssumption` (a room has at least one seat, the registry
at least one slot; `NoRoom` is no room; the bounds are numbers). `MInv` is
`TypeOK`, `QueueHasPlace`, `RegistryExact` and `AllInStep`. The last is what
`NoLineMisheard` needs: for every connection, the lines on the way to the server lead
its thread, one after the other, from the loop it is in to the loop that the client's
program counts on, and each is understood in the loop that the line before it leads
to (`InStep`, with `Needs` and `Leads` of a line). A line said keeps this
(`SayKeepsStep`) and so does one heard (`HearKeepsStep`); the rest of the proof is
that every action of either side is one of the two or touches neither.
`QueueHasPlace` needs that filling holds `queue_mutex`, so that nobody else enters the
full queue; `RegistryExact` that `FreeSession` and `Register` are the only writers of
a slot and the latter takes an empty one.
Results: `MatchInvariance`, `MatchTypeCorrect`, `QueueHasPlaceCorrect`,
`RegistryExactCorrect`, `NoLineMisheardCorrect`.

*MatchTable_proof*, from `MatchAssumption` and the hypothesis `OneTable` of each of its
theorems: there is one room at a time, nobody cancels and the cards can be read. Any
number of clients, seats and slots; anybody may leave at any moment. The hypothesis is
that of the run `table`, and none of it can go: a second room or a late cancel opens a
barrier early (section 4), and a room that fails leaves its counters to the next. `TInv`
has seven parts. `LinesOrdered`: what is under way in either direction is in the order
in which a match brings it (`Rank`), none of it twice but for the answers to
SESSION_READY, so that the lines can be taken for a set (`Told`, `Said`). `AllStand`: by
how far the room is, each client of the party is in one of a few stages (`Invited`,
`Dealt`, `Prepared`, `Plays`) of its screen, what it has been told and what it has said;
everybody else is `Elsewhere`, where at most the rest of the last game is under way; and
one that is gone is counted with those who have answered. `Queued`, `FillsAlone` and
`FullParty` are about the queue, the thread that fills a room, and the seats. `Counted`
carries the barriers: while a phase lasts its counter is at most the number of players
of the party who owe no answer (`Ready`), so that when the counter has reached
`RoomSize` they all have answered (`BarrierPassed`, from the cardinality theorems of the
library: a part of the party that is as large as the party is the party). A READY_TO_GO
that is heard adds one to both sides; only the step from one phase to the next, which
tells everybody to answer again, empties the right one, and begins with a counter at 0.
`Bound` says of a client with a session that the session is there, or that what makes
its thread let go is under way (`LetsGo`).
Results: `TableInvariance`, `QueueOfLiveClientsCorrect`, `FreedIsLetGoCorrect`,
`StartsTogetherCorrect`, `StartsInformedCorrect`.

*MatchRooms_proof*, from `MatchAssumption` and the hypothesis `NoCancels` of each of its
theorems: any number of rooms are made and played side by side, cards and registrations
may fail, anybody may leave. The barriers are of no use here (section 4), and the proof
does without them: a room whose barrier is opened by another room's answers makes its
game too early, but never for the wrong players. `RInv` has five parts. `LinesOrdered` is
as above, but only for the lines that start or end a game: QUEUE_FULL, GAME_INIT,
READY_TO_GO and the like (`Notices`) may be under way from a game long over. `AllStand`:
a client that plays (`Plays`), waits in a room or the queue (`Waits`), or does neither is
on a screen, and has lines under way, that fit (`Playing`, `Patient`, `Elsewhere`); one
that waits has said nothing that a new game would hear. `Apart`: nobody has seats in two
rooms that are made or played, which holds because QUERY_WAIT is said only by a client
that has neither seat nor place (`AskerIsFree`). `Queued` and `FullRooms`: the queue and
every room name different clients. TLC has checked `RInv` with three clients and two
rooms of two, failing cards and a client that leaves. The refinement follows: only
GAME_START moves more than one player, and it finds all of the room waiting or gone
(`StartMoves`). A refused SESSION_READY comes after the end: a client that still says it
plays, and then its session is registered, or has no seat any more
(`NotFoundOnlyAfterEndCorrect`). With a cancel all of it is false.
Results: `RoomsInvariance`, `FreeQueueOfLiveClients`, `NotFoundOnlyAfterEndCorrect`,
`RoomsImplementMatch`.

*Accounts_proof*, from `AccountsAssumption` (no thread and no row is `None`; the
ids with an apostrophe are ids; the bounds are numbers; and `Ids` are as section 6 has
them). `AInv` is `TypeOK`; `TablesOK(db)`, the four properties of the tables
together; `StoredIn`, the tables against the history of what was acknowledged;
`WriterOK`: the draft is the committed tables and the writer's one request, or equal to
them when nobody writes; `LocksOK`: while a COMMIT is written, only the writer may still
read; and `JobOK` of each thread: the account it has looked up is still there. `LocksOK`
is why an UPDATE that follows a SELECT may rely on it: no COMMIT has come between.
Uniqueness at the sign-up does not follow from its look-ups, which are outside its
transaction, but from the table's UNIQUE, and the proof says so: `WithAccountKeeps`
assumes `Unique`, which `InsertAccount` tests on the tables as they are then. `AllHold`
says beside it which locks a request holds at which of its steps: RESERVED at a COMMIT
(and, by `WriterOK`, only there), SHARED between two statements only in a change of
nickname. With `AInv` it gives `NotAllWait`: the writer waits for readers only, a reader
left at its UPDATE is refused at once instead of waiting, and without a writer nobody
waits.
Results: `TypeCorrect`, `TablesCorrect`, `NicknamesUniqueCorrect`,
`AccountsCompleteCorrect`, `SuspendedAtThreeCorrect`, `OneTokenEachCorrect`,
`AcknowledgedIsStoredCorrect`, `OthersKeepTheirTokensCorrect`, `LocksCorrect`,
`NotAllWaitCorrect`.

*ClientProgram_proof*, from `ScreenAssumption` (a finite board of which every deal is a
colouring; the bounds are numbers). `ViewSettles` and `ScreenOfThisGame` speak of one
moment; `CInv` says what leads there, in three parts besides `TypeOK`. `Tidy` is how far
every exchange with the server can be: on the screens outside a match nothing is under
way (`AtRest`), behind TOKEN nothing is sent and behind its answer nothing comes
(`TokenLast`, `ProfileLast`), the matching is in one of its four steps (`Matching`), and
a snapshot is taken for a session only (`CopyInGame`). `Fresh` is that whatever is known
of cards anywhere, on the screen, in a line under way, in the snapshot between its
copying and its sending, has been turned in this game: it is what `AtRest` keeps for the
next one. `Foreseen` is what `ViewSettles` becomes while lines are under way: heard one
after the other (`Heard`, `Leads`) they take the screen's picture to one that is true of
the server (`Agrees`), and cards that were asked for are there or coming
(`CardsToCome`). A line that is sent lengthens that chain at its end (`LeadsFurther`),
one that is heard shortens it at its beginning (`LeadsOn`), so each of the three
threads' steps is one of the two or leaves it alone. The snapshot is the hard case:
ALL_CARDS replaces what the screen knows and is sent some time after it was copied, so
the chain is true only up to `missed`, the cards that were turned between the two
(`Agrees`). `EInv` says the same of the end, on top of `CInv`: the winner is there from
the move that ends the session (`WinnerKnown`), a GAME_OVER under way to a client with a
session is that session's (`OverLines`; one left over from the game before meets the
next session nowhere, by `Matching`), and so is the winner shown (`EndShown`).
Results: `ClientInvariance`, `ClientTypeCorrect`, `ScreenOfThisGameCorrect`,
`ViewSettlesCorrect`; of `Spec`, hence also of `FairSpec`.

Only model-checked: the liveness properties `RoomGetsGoing`, `SummonedIsBound`, `ProfileComes`,
`OverShown` and `TurnReachesPlayer`; and `WaitsForEventsOnly` and `WaitsForLocksOnly`,
which speak of ENABLED, of which the prover knows nothing. Every other property of a
passing run is a theorem, `QueueDrains` and `DecidedGameIsWoundUp` from
`WaitsForEventsOnly`.

## 6. What is abstracted

* Texts: names, words, chat, formatting, WAIT_REPLY and its progress bar. A card is
  known by its word, for `words.txt` has 25 distinct ones.
* A line is received whole. In `Matchmaking` it is also received alone;
  `ClientProgram` joins lines where the code loses some of them (GAME_START, the answer
  to TOKEN, GAME_QUIT, `handle_tcp_client`).
* `recv` for the answer to a cancel takes any part of what has arrived, also
  nothing (a WAIT_REPLY). A cancel is pressed before QUEUE_FULL is read; the moment
  between the reading of QUEUE_FULL and `set_cancel_enabled(false)` is left out.
* A send to a client that is gone is lost; the SIGPIPE it may raise in the server,
  which does not handle it, is not modelled.
* In `table` the name of the one room is free again only when the session of its last
  game is freed; a room that fills while the results of the last game are still
  being written needs a second room, as `open` has.
* A socket descriptor is the client; one that is closed and used again for
  another connection is not modelled, nor is a client that reconnects.
* A game does not end before the last lines of its room's thread have run (a game
  takes minutes, they take microseconds).
* In `GameSession` a handler is atomic: it holds `game_lock`, and the one reader
  that does not take that lock, GET_ALL_CARDS, writes nothing.
* SQLite's five seconds of waiting (`db_open`) are taken to be enough; a plain
  `sqlite3_open` never waits. Passwords are right or wrong, and what no request
  reads is left out. A token is the second of its login; the characters made of it
  are not modelled.
* `ReportTarget`, `Result` take any nickname: rooms read it once and keep it, so it may be
  out of date. `AcknowledgedIsStored` counts by the account that is looked up: a result
  that goes to another account, which has taken the nickname over since the room was
  dealt, counts as stored.
* **Ids are no SQL.** `session.c:21, 33` put the id between quotes into their
  statements. `Accounts` has ids with an apostrophe at which the statement breaks
  (`Quoted`), but no id with which it becomes another statement: such an id is outside
  `Ids`, by assumption and not by anything in the code, which accepts it. What `accounts`
  checks and `Accounts_proof` proves of tokens (`OneTokenEach`, `OthersKeepTheirTokens`,
  the tokens in `AccountsComplete` and `TypeOK`) holds of systems without such ids only.
  Ids are also shorter than the 64 bytes at which the look-ups cut them.
* The comparison of the answer to a cancel, which decides on a message only.
* In `GameScreen` the other five players are one environment that makes any legal
  move. The answers of the server to login, sign-up, profile and edit are a choice
  among those it can give. Failing to connect ends the program and is left out.
* An out-of-range hint number is not modelled: `HintNumbers` are integers, and
  `remaining_tries - 1` does not reach the end of `int` but for INT_MIN.

## 7. What is not modelled

* Drawing, layout and colours; the focus of the keys on the screens; the chat log and
  its scrolling; the answers to REPORT on the screen; the progress bar of the waiting
  screen. They are a player's comfort and no state anybody else reads.
* Setting up sockets, TLS and the database file, and their failures, which end the
  program or the request.
* Malformed requests, answered ERROR without a change of state.
* `get_nickname_by_token`, which a room asks once and stores nothing.
* The functions nobody calls: `change_password`, `withdraw_user`, `suspend_user`,
  `is_account_suspended`, `get_report_count`, `add_token_to_db`, `is_valid_token_in_db`,
  `remove_token_from_db`; `connect_to_server.c` and `main_screen.c`, which are not built.
* Undefined behaviour beyond the point where it begins: what a connection thread does
  with a freed session (room_manager.c:138, 589; `FreedIsLetGo` says how long it holds it),
  `strtok`'s static position under two game
  threads (room_manager.c:429), the second close of the game socket after
  INVALID_TOKEN (lobby_screen.c:674 and `cleanup_game_socket`), SIGPIPE and
  descriptors that are used again (room_manager.c:645).
* READY counters after a failed room (room_manager.c:318), the player who leaves
  between the barriers (room_manager.c:289) and a token in two sessions
  (room_manager.c:685) are in the models' states, but the code makes no promise a
  property could state.

## 8. The plan

Done: `EventFifo` and `EventRing`, `CodenamesRules` and `GameSession`, `RandomMatch` and
`Matchmaking`, `Accounts`, `ClientProgram` on top of `GameScreen`, each with its proofs
(the game screen's within those of `ClientProgram`). The accept loop, the scenes and the
client's view are part of the last two.

Left, in this order:

1. The other `recv`s of `Matchmaking` with joined lines, as in `ClientProgram`.
2. `HintParsing`: two game threads and `strtok`'s one static position, as the choice of
   outcomes that glibc can produce.
