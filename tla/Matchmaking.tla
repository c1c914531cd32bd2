---------------------------- MODULE Matchmaking ----------------------------
(***************************************************************************)
(* From "start random match" to the running game: the waiting queue, the   *)
(* rooms, the READY counters and the registry of sessions                  *)
(* (room_manager.c), the connection thread of each client (server.c,       *)
(* room_manager.c) and the client's side of the exchange (lobby_screen.c,  *)
(* waiting_screen.c, codenames_screen.c).                                  *)
(*                                                                         *)
(* A client stands for its token and its TCP connection, a room for the    *)
(* thread that runs it and for the session it creates.  Both directions    *)
(* of a connection are queues of lines, so that what a client does may     *)
(* cross what the server has just sent.  WAIT_REPLY only moves a progress  *)
(* bar and is left out, as are the nicknames and the game itself.          *)
(***************************************************************************)
EXTENDS Integers, Sequences, SequencesExt

CONSTANTS Clients,
          RoomSize,     \* MAX_ROOM_PLAYERS (6)
          Rooms,        \* bound: the rooms there are at one time
          NoRoom,
          MaxSessions,  \* MAX_SESSIONS (10)
          Cancellers,   \* the clients that may cancel
          Leavers,      \* the clients that may disconnect
          CardsCanFail, \* words.txt may be missing or short
          MaxStale,     \* bound: lines under way when a client asks again
          MaxReady      \* bound on ready_phase2

ASSUME MatchAssumption ==
  /\ RoomSize \in Nat \ {0}
  /\ MaxSessions \in Nat \ {0}
  /\ NoRoom \notin Rooms
  /\ Cancellers \subseteq Clients
  /\ Leavers \subseteq Clients
  /\ CardsCanFail \in BOOLEAN
  /\ MaxStale \in Nat
  /\ MaxReady \in Nat /\ MaxReady >= RoomSize

VARIABLES
  waiting_queue,     \* the clients that wait, in order
  filling,           \* the room whose last seat was just taken, while
                     \* queue_mutex is held to send QUEUE_FULL
  ready_phase1,
  ready_phase2,
  ongoing_sessions,  \* the rooms whose sessions are registered, by slot
  roomPc,            \* where the thread of each room is
  seats,             \* MatchRoomArgs.players of each room
  conn,              \* which loop each connection thread is in
  session,           \* its local pointer in client_response_loop
  program,           \* the screen each client's program shows
  inbox,             \* lines on the way to the client
  outbox             \* lines on the way to the server

queueVars == <<waiting_queue, filling>>
readyVars == <<ready_phase1, ready_phase2>>
roomVars == <<ongoing_sessions, roomPc, seats>>
vars == <<queueVars, readyVars, roomVars, conn, session, program,
          inbox, outbox>>

Slots == 0 .. MaxSessions - 1

Init ==
  /\ waiting_queue = <<>>
  /\ filling = NoRoom
  /\ ready_phase1 = 0
  /\ ready_phase2 = 0
  /\ ongoing_sessions = [i \in Slots |-> NoRoom]
  /\ roomPc = [r \in Rooms |-> "unused"]
  /\ seats = [r \in Rooms |-> <<>>]
  /\ conn = [c \in Clients |-> "lobby"]
  /\ session = [c \in Clients |-> NoRoom]
  /\ program = [c \in Clients |-> "lobby"]
  /\ inbox = [c \in Clients |-> <<>>]
  /\ outbox = [c \in Clients |-> <<>>]

Players(r) == ToSet(seats[r])

\* send() to one client, and to every seat of a room; what is sent to a
\* connection that is gone is lost.
Deliver(boxes, c, line) ==
  IF program[c] = "gone" THEN boxes
  ELSE [boxes EXCEPT ![c] = Append(@, line)]

SendTo(c, line) == inbox' = Deliver(inbox, c, line)

SendAll(clients, line) ==
  inbox' = [c \in Clients |->
              IF c \in clients /\ program[c] # "gone"
              THEN Append(inbox[c], line) ELSE inbox[c]]

----------------------------------------------------------------------------
(* The client's program.                                                   *)

Say(c, line) == outbox' = [outbox EXCEPT ![c] = Append(@, line)]

Show(c, screen) == program' = [program EXCEPT ![c] = screen]

\* [Start random match]: wait_for_match_thread asks for a place.
PressMatch(c) ==
  /\ program[c] = "lobby"
  /\ Len(inbox[c]) + Len(outbox[c]) <= MaxStale
  /\ Show(c, "waiting")
  /\ Say(c, "QUERY_WAIT")
  /\ UNCHANGED <<queueVars, readyVars, roomVars, conn, session, inbox>>

\* The thread reads one line while the waiting screen is shown.
ReadWaiting(c) ==
  /\ program[c] \in {"waiting", "summoned"}
  /\ inbox[c] # <<>>
  /\ inbox' = [inbox EXCEPT ![c] = Tail(@)]
  /\ \/ /\ Head(inbox[c]) = "QUEUE_FULL"    \* set_cancel_enabled(false)
        /\ Show(c, "summoned")
        /\ Say(c, "READY_TO_GO")
     \/ /\ Head(inbox[c]) = "GAME_INIT"
        /\ Say(c, "READY_TO_GO")
        /\ UNCHANGED program
     \/ /\ Head(inbox[c]) = "GAME_START"
        /\ Show(c, "playing")
        /\ Say(c, "SESSION_READY")
     \/ /\ Head(inbox[c]) \notin {"QUEUE_FULL", "GAME_INIT", "GAME_START"}
        /\ UNCHANGED <<program, outbox>>
  /\ UNCHANGED <<queueVars, readyVars, roomVars, conn, session>>

\* Q on the waiting screen, while QUEUE_FULL has not been read.
PressCancel(c) ==
  /\ c \in Cancellers
  /\ program[c] = "waiting"
  /\ Show(c, "cancelling")
  /\ Say(c, "MATCHING_CANCEL")
  /\ UNCHANGED <<queueVars, readyVars, roomVars, conn, session, inbox>>

\* One recv for the answer: it takes whatever has arrived by then, perhaps a
\* WAIT_REPLY only (n = 0); whatever it takes, the lobby is shown again.
ReadCancelAnswer(c) ==
  /\ program[c] = "cancelling"
  /\ \E n \in 0 .. Len(inbox[c]) :
       inbox' = [inbox EXCEPT ![c] = SubSeq(@, n + 1, Len(@))]
  /\ Show(c, "lobby")
  /\ UNCHANGED <<queueVars, readyVars, roomVars, conn, session, outbox>>

\* The game screen: GAME_OVER makes it say GAME_QUIT and leave.
ReadPlaying(c) ==
  /\ program[c] = "playing"
  /\ inbox[c] # <<>>
  /\ inbox' = [inbox EXCEPT ![c] = Tail(@)]
  /\ IF Head(inbox[c]) = "GAME_OVER"
       THEN Show(c, "lobby") /\ Say(c, "GAME_QUIT")
       ELSE UNCHANGED <<program, outbox>>
  /\ UNCHANGED <<queueVars, readyVars, roomVars, conn, session>>

\* The program ends or the network fails: the server will read 0 bytes.
Disconnect(c) ==
  /\ c \in Leavers
  /\ program[c] # "gone"
  /\ Show(c, "gone")
  /\ Say(c, "EOF")
  /\ inbox' = [inbox EXCEPT ![c] = <<>>]
  /\ UNCHANGED <<queueVars, readyVars, roomVars, conn, session>>

Client(c) ==
  \/ PressMatch(c) \/ ReadWaiting(c)
  \/ PressCancel(c) \/ ReadCancelAnswer(c)
  \/ ReadPlaying(c) \/ Disconnect(c)

----------------------------------------------------------------------------
(* The connection thread of a client.  A line that its loop does not know  *)
(* would be ignored by the inner loop and answered ERROR by the outer one; *)
(* NoLineMisheard says that none ever comes.                               *)

\* The thread reads the line in the given loop.
Hears(c, loop, line) ==
  /\ conn[c] = loop
  /\ outbox[c] # <<>>
  /\ Head(outbox[c]) = line
  /\ outbox' = [outbox EXCEPT ![c] = Tail(@)]

Enter(c, loop) ==
  /\ conn' = [conn EXCEPT ![c] = loop]
  /\ session' = [session EXCEPT ![c] = NoRoom]

\* handle_waiting_command with a place left: the client waits.
Enqueue(c) ==
  /\ Hears(c, "lobby", "QUERY_WAIT")
  /\ filling = NoRoom
  /\ waiting_queue' = Append(waiting_queue, c)
  /\ Len(waiting_queue') < RoomSize
  /\ Enter(c, "loop")
  /\ UNCHANGED <<filling, readyVars, roomVars, program, inbox>>

\* A room's name stands for a new one once its threads have returned and no
\* connection thread points to its session.
Free(r) ==
  /\ roomPc[r] \in {"unused", "ended", "failed"}
  /\ \A c \in Clients : session[c] # r

\* The last place: the room's thread is created first, with a copy of the
\* queue, and runs from here on.
FillRoom(c, r) ==
  /\ Hears(c, "lobby", "QUERY_WAIT")
  /\ filling = NoRoom
  /\ waiting_queue' = Append(waiting_queue, c)
  /\ Len(waiting_queue') = RoomSize
  /\ Free(r)
  /\ roomPc' = [roomPc EXCEPT ![r] = "phase1"]
  /\ seats' = [seats EXCEPT ![r] = waiting_queue']
  /\ filling' = r
  /\ Enter(c, "filling")
  /\ UNCHANGED <<readyVars, ongoing_sessions, program, inbox>>

\* Mutant: waiting_count is not reset.
AnnounceOnly(c) ==
  /\ conn[c] = "filling"
  /\ SendAll(ToSet(waiting_queue), "QUEUE_FULL")
  /\ filling' = NoRoom
  /\ Enter(c, "loop")
  /\ UNCHANGED <<waiting_queue, readyVars, roomVars, program, outbox>>

\* Then everybody in the queue is told, and the queue is emptied.
AnnounceFull(c) ==
  /\ conn[c] = "filling"
  /\ SendAll(ToSet(waiting_queue), "QUEUE_FULL")
  /\ waiting_queue' = <<>>
  /\ filling' = NoRoom
  /\ Enter(c, "loop")
  /\ UNCHANGED <<readyVars, roomVars, program, outbox>>

\* Mutant: phase 1 takes one READY_TO_GO too many.
CountReadyTooOften(c) ==
  /\ Hears(c, "loop", "READY_TO_GO")
  /\ ready_phase2 < MaxReady
  /\ IF ready_phase1 <= RoomSize
       THEN ready_phase1' = ready_phase1 + 1 /\ UNCHANGED ready_phase2
       ELSE ready_phase2' = ready_phase2 + 1 /\ UNCHANGED ready_phase1
  /\ UNCHANGED <<queueVars, roomVars, conn, session, program, inbox>>

\* READY_TO_GO counts for phase 1 until that is full, then for phase 2.
CountReady(c) ==
  /\ Hears(c, "loop", "READY_TO_GO")
  /\ ready_phase2 < MaxReady
  /\ IF ready_phase1 < RoomSize
       THEN ready_phase1' = ready_phase1 + 1 /\ UNCHANGED ready_phase2
       ELSE ready_phase2' = ready_phase2 + 1 /\ UNCHANGED ready_phase1
  /\ UNCHANGED <<queueVars, roomVars, conn, session, program, inbox>>

\* find_session_by_token: the first slot that has the client in a seat.
SlotsOf(c) == {i \in Slots : /\ ongoing_sessions[i] # NoRoom
                             /\ c \in Players(ongoing_sessions[i])}

FindSession(c) ==
  IF SlotsOf(c) = {} THEN NoRoom
  ELSE ongoing_sessions[CHOOSE i \in SlotsOf(c) :
                          \A j \in SlotsOf(c) : i <= j]

\* SESSION_READY.  The look-up holds sessions_mutex, what follows does not: the
\* session that was found may end and be freed before the thread has searched
\* it for the client's seat (room_manager.c:138), which answers the same in any
\* outcome but a crash.  A thread is bound once in its loop, so that it has a
\* session at SESSION_READY exactly between its two steps.
BindSession(c) ==
  /\ conn[c] = "loop"
  /\ outbox[c] # <<>> /\ Head(outbox[c]) = "SESSION_READY"
  /\ session[c] = NoRoom
  /\ FindSession(c) # NoRoom
  /\ session' = [session EXCEPT ![c] = FindSession(c)]
  /\ UNCHANGED <<queueVars, readyVars, roomVars, conn, program, inbox, outbox>>

AckSession(c) ==
  /\ Hears(c, "loop", "SESSION_READY")
  /\ session[c] # NoRoom
  /\ SendTo(c, "SESSION_ACK")
  /\ UNCHANGED <<queueVars, readyVars, roomVars, conn, session, program>>

RefuseSession(c) ==
  /\ Hears(c, "loop", "SESSION_READY")
  /\ session[c] = NoRoom
  /\ FindSession(c) = NoRoom
  /\ SendTo(c, "SESSION_NOT_FOUND")
  /\ UNCHANGED <<queueVars, readyVars, roomVars, conn, session, program>>

\* cancel_waiting: the client's place is given up, if it still has one.
LeaveQueue(c) ==
  /\ filling = NoRoom
  /\ waiting_queue' = RemoveFirst(waiting_queue, c)

\* Mutant: the inner loop is left only when the client was in the queue.
CancelIfWaiting(c) ==
  /\ Hears(c, "loop", "MATCHING_CANCEL")
  /\ LeaveQueue(c)
  /\ SendTo(c, "CANCEL_OK")
  /\ IF Contains(waiting_queue, c) THEN Enter(c, "lobby")
     ELSE UNCHANGED <<conn, session>>
  /\ UNCHANGED <<filling, readyVars, roomVars, program>>

\* MATCHING_CANCEL: CANCEL_OK, and back to the outer loop, whether or not
\* cancel_waiting has found the client.
CancelMatch(c) ==
  /\ Hears(c, "loop", "MATCHING_CANCEL")
  /\ LeaveQueue(c)
  /\ SendTo(c, "CANCEL_OK")
  /\ Enter(c, "lobby")
  /\ UNCHANGED <<filling, readyVars, roomVars, program>>

QuitGame(c) ==
  /\ Hears(c, "loop", "GAME_QUIT")
  /\ Enter(c, "lobby")
  /\ UNCHANGED <<queueVars, readyVars, roomVars, program, inbox>>

\* Mutant: the inner loop ends without cancel_waiting.
LoseClientInQueue(c) ==
  /\ Hears(c, "loop", "EOF") \/ Hears(c, "lobby", "EOF")
  /\ Enter(c, "closed")
  /\ UNCHANGED <<queueVars, readyVars, roomVars, program, inbox>>

\* recv returns 0: the inner loop cancels, the outer one closes the socket.
LoseClient(c) ==
  /\ \/ Hears(c, "loop", "EOF") /\ LeaveQueue(c)
     \/ Hears(c, "lobby", "EOF") /\ UNCHANGED waiting_queue
  /\ Enter(c, "closed")
  /\ UNCHANGED <<filling, readyVars, roomVars, program, inbox>>

Connection(c) ==
  \/ Enqueue(c) \/ (\E r \in Rooms : FillRoom(c, r)) \/ AnnounceFull(c)
  \/ CountReady(c) \/ BindSession(c) \/ AckSession(c) \/ RefuseSession(c)
  \/ CancelMatch(c) \/ QuitGame(c) \/ LoseClient(c)

----------------------------------------------------------------------------
(* The thread of a room, run_match_room.                                   *)

Goes(r, from, to) ==
  /\ roomPc[r] = from
  /\ roomPc' = [roomPc EXCEPT ![r] = to]

\* It polls until the counter is full, then deals roles and teams.
PassPhase1(r) ==
  /\ Goes(r, "phase1", "phase2")
  /\ ready_phase1 = RoomSize
  /\ SendAll(Players(r), "GAME_INIT")
  /\ UNCHANGED <<queueVars, readyVars, ongoing_sessions, seats, conn,
                 session, program, outbox>>

\* Mutant: the players are told to start before the session exists.
PassPhase2Early(r) ==
  /\ Goes(r, "phase2", "create")
  /\ ready_phase2 = RoomSize
  /\ SendAll(Players(r), "GAME_START")
  /\ UNCHANGED <<queueVars, readyVars, ongoing_sessions, seats, conn,
                 session, program, outbox>>

PassPhase2(r) ==
  /\ Goes(r, "phase2", "create")
  /\ ready_phase2 = RoomSize
  /\ UNCHANGED <<queueVars, readyVars, ongoing_sessions, seats, conn,
                 session, program, inbox, outbox>>

\* assign_cards cannot read words.txt: GAME_FAILED, and the thread returns.
\* The client does not know that line.
FailCards(r) ==
  /\ Goes(r, "create", "failed")
  /\ CardsCanFail
  /\ SendAll(Players(r), "GAME_FAILED")
  /\ UNCHANGED <<queueVars, readyVars, ongoing_sessions, seats, conn,
                 session, program, outbox>>

FreeSlots == {i \in Slots : ongoing_sessions[i] = NoRoom}

Register(r) ==
  /\ Goes(r, "create", "registered")
  /\ FreeSlots # {}
  /\ ongoing_sessions' =
       [ongoing_sessions EXCEPT
          ![CHOOSE i \in FreeSlots : \A j \in FreeSlots : i <= j] = r]
  /\ UNCHANGED <<queueVars, readyVars, seats, conn, session, program,
                 inbox, outbox>>

\* No slot is free: the thread returns without a word to the players.
FailRegister(r) ==
  /\ Goes(r, "create", "failed")
  /\ FreeSlots = {}
  /\ UNCHANGED <<queueVars, readyVars, ongoing_sessions, seats, conn,
                 session, program, inbox, outbox>>

\* Mutant: the loop over the players starts at 1.
StartAllButFirst(r) ==
  /\ Goes(r, "registered", "started")
  /\ SendAll(ToSet(Tail(seats[r])), "GAME_START")
  /\ UNCHANGED <<queueVars, readyVars, ongoing_sessions, seats, conn,
                 session, program, outbox>>

\* GAME_START to everybody, then the game's own thread is created.
StartGame(r) ==
  /\ Goes(r, "registered", "started")
  /\ SendAll(Players(r), "GAME_START")
  /\ UNCHANGED <<queueVars, readyVars, ongoing_sessions, seats, conn,
                 session, program, outbox>>

\* Mutants: one of the two counters is not reset.
ResetPhase2Only(r) ==
  /\ Goes(r, "started", "playing")
  /\ ready_phase2' = 0
  /\ UNCHANGED <<queueVars, ready_phase1, ongoing_sessions, seats, conn,
                 session, program, inbox, outbox>>

ResetPhase1Only(r) ==
  /\ Goes(r, "started", "playing")
  /\ ready_phase1' = 0
  /\ UNCHANGED <<queueVars, ready_phase2, ongoing_sessions, seats, conn,
                 session, program, inbox, outbox>>

\* The counters are reset for the next room, and the thread returns.
ResetReady(r) ==
  /\ Goes(r, "started", "playing")
  /\ ready_phase1' = 0
  /\ ready_phase2' = 0
  /\ UNCHANGED <<queueVars, ongoing_sessions, seats, conn, session, program,
                 inbox, outbox>>

\* Mutant: the loop of broadcast_to_all starts at 1.
AnnounceOverButFirst(r) ==
  /\ Goes(r, "playing", "over")
  /\ SendAll(ToSet(Tail(seats[r])), "GAME_OVER")
  /\ UNCHANGED <<queueVars, readyVars, ongoing_sessions, seats, conn, session,
                 program, outbox>>

\* The game thread ends: GAME_OVER first.  A game is long: it does not end
\* before the room's thread has run its last lines.
AnnounceOver(r) ==
  /\ Goes(r, "playing", "over")
  /\ SendAll(Players(r), "GAME_OVER")
  /\ UNCHANGED <<queueVars, readyVars, ongoing_sessions, seats, conn, session,
                 program, outbox>>

\* Mutant: the session is freed but stays in its slot.
FreeSessionOnly(r) ==
  /\ Goes(r, "over", "ended")
  /\ UNCHANGED <<queueVars, readyVars, ongoing_sessions, seats, conn, session,
                 program, inbox, outbox>>

\* Then, when the results are saved, unregister_session and free.
FreeSession(r) ==
  /\ Goes(r, "over", "ended")
  /\ ongoing_sessions' = [i \in Slots |-> IF ongoing_sessions[i] = r
                                          THEN NoRoom
                                          ELSE ongoing_sessions[i]]
  /\ UNCHANGED <<queueVars, readyVars, seats, conn, session, program,
                 inbox, outbox>>

RoomThread(r) ==
  \/ PassPhase1(r) \/ PassPhase2(r)
  \/ FailCards(r) \/ Register(r) \/ FailRegister(r)
  \/ StartGame(r) \/ ResetReady(r)

Next ==
  \/ \E c \in Clients : Client(c) \/ Connection(c)
  \/ \E r \in Rooms : RoomThread(r) \/ AnnounceOver(r) \/ FreeSession(r)

\* Threads run and poll; a client's program reads what has arrived.  Nobody
\* owes a click, and no game owes an end.
Fairness ==
  /\ \A c \in Clients :
       /\ WF_vars(Connection(c))
       /\ WF_vars(ReadWaiting(c) \/ ReadCancelAnswer(c) \/ ReadPlaying(c))
  /\ \A r \in Rooms : WF_vars(RoomThread(r))

Spec == Init /\ [][Next]_vars /\ Fairness

----------------------------------------------------------------------------
(* Properties.                                                             *)

ServerLines == {"QUEUE_FULL", "GAME_INIT", "GAME_START", "GAME_FAILED",
                "GAME_OVER", "SESSION_ACK", "SESSION_NOT_FOUND", "CANCEL_OK"}
ClientLines == {"QUERY_WAIT", "MATCHING_CANCEL", "READY_TO_GO",
                "SESSION_READY", "GAME_QUIT", "EOF"}
RoomStates == {"unused", "phase1", "phase2", "create", "registered",
               "started", "playing", "over", "ended", "failed"}

\* Types of the server's and the clients' state.
TypeOK ==
  /\ waiting_queue \in Seq(Clients)
  /\ filling \in Rooms \cup {NoRoom}
  /\ ready_phase1 \in 0 .. RoomSize
  /\ ready_phase2 \in 0 .. MaxReady
  /\ ongoing_sessions \in [Slots -> Rooms \cup {NoRoom}]
  /\ roomPc \in [Rooms -> RoomStates]
  /\ seats \in [Rooms -> Seq(Clients)]
  /\ conn \in [Clients -> {"lobby", "filling", "loop", "closed"}]
  /\ session \in [Clients -> Rooms \cup {NoRoom}]
  /\ program \in [Clients -> {"lobby", "waiting", "summoned", "cancelling",
                              "playing", "gone"}]
  /\ inbox \in [Clients -> Seq(ServerLines)]
  /\ outbox \in [Clients -> Seq(ClientLines)]

\* waiting_queue never overflows: between two requests a place is left, and
\* it is full only while the one thread that filled it empties it again,
\* whatever cancels and disconnects come in between (room_manager.c:30-74).
QueueHasPlace ==
  /\ Len(waiting_queue) < RoomSize \/ filling # NoRoom
  /\ filling # NoRoom => waiting_queue = seats[filling]

\* The registry has every session that is announced or played in exactly one
\* slot, and no session that has ended: find_session_by_token never returns
\* freed memory, and no slot is lost (room_manager.c:332, 586, 658-681).
RegistryExact ==
  \A r \in Rooms :
    LET slots == {i \in Slots : ongoing_sessions[i] = r}
    IN  IF roomPc[r] \in {"registered", "started", "playing", "over"}
        THEN \E i \in Slots : slots = {i}
        ELSE slots = {}

\* Nobody waits twice, and whoever waits has a connection thread that will
\* hear of its cancel or its end: the queue keeps no dead entries.
QueueOfLiveClients ==
  /\ IsInjective(waiting_queue)
  /\ \A c \in ToSet(waiting_queue) : conn[c] \in {"loop", "filling"}

\* The two loops of the connection thread stay in step with the screens of
\* the client's program, however lines cross: no line reaches the loop that
\* does not know it (server.c:177-223, room_manager.c:112-245).
NoLineMisheard ==
  \A c \in Clients : outbox[c] # <<>> =>
    LET line == Head(outbox[c])
    IN  /\ conn[c] = "lobby" => line \in {"QUERY_WAIT", "EOF"}
        /\ conn[c] = "loop" => line # "QUERY_WAIT"

\* A room deals its game only when every player it waits for has seen
\* QUEUE_FULL and answered READY_TO_GO: "READY" synchronises the players of a
\* room (room_manager.c:24, lobby_screen.c:406 "all users getting ready").
Answered(c) == /\ program[c] \in {"summoned", "gone"}
               /\ ~ Contains(inbox[c], "QUEUE_FULL")
               /\ ~ Contains(outbox[c], "READY_TO_GO")

StartsTogether ==
  [][\A r \in Rooms :
       roomPc[r] = "phase1" /\ roomPc'[r] = "phase2"
         => \A c \in Players(r) : Answered(c)]_vars

\* The game starts only when every player has seen its role and confirmed it.
StartsInformed ==
  [][\A r \in Rooms :
       roomPc[r] = "phase2" /\ roomPc'[r] = "create"
         => \A c \in Players(r) :
              Answered(c) /\ ~ Contains(inbox[c], "GAME_INIT")]_vars

\* GAME_START is not sent before the session can be found: SESSION_READY is
\* answered SESSION_NOT_FOUND only after the game has ended.
Gets(c, line) == inbox'[c] = Append(inbox[c], line)

NotFoundOnlyAfterEnd ==
  [][\A c \in Clients :
       Gets(c, "SESSION_NOT_FOUND")
         => \A r \in Rooms : c \in Players(r) => roomPc[r] = "ended"]_vars

\* As long as the waiting screen offers "Press Q to cancel" (waiting_screen.c:33)
\* cancelling is possible (waiting_screen.h:40): a cancel that the server answers
\* with CANCEL_OK takes the client out of the matching, so that no room that is
\* getting ready has a seat for it.
CancelledIsOut ==
  [][\A c \in Clients :
       Gets(c, "CANCEL_OK")
         => \A r \in Rooms : c \in Players(r)
              => roomPc[r] \notin {"phase1", "phase2", "create", "registered"}]_vars

\* A room whose players all stay gets going, for game after game: no READY
\* is lost between the two phases or to the reset of the counters.
RoomGetsGoing ==
  \A r \in Rooms :
    roomPc[r] = "phase1"
      ~> (roomPc[r] = "playing" \/ \E c \in Players(r) : program[c] = "gone")

\* Whoever has been summoned is bound to a session, unless a player leaves or
\* the game is over before its SESSION_READY arrives.
SummonedIsBound ==
  \A c \in Clients :
    program[c] = "summoned"
      ~> \/ session[c] # NoRoom
         \/ Contains(inbox[c], "SESSION_NOT_FOUND")
         \/ \E o \in Clients : program[o] = "gone"

\* A connection thread holds the pointer of a freed session
\* (room_manager.c:589) only until it hears that its client quits or is gone:
\* whoever is bound has been sent GAME_OVER before the free, and what makes
\* the thread leave its inner loop is under way.
FreedIsLetGo ==
  \A c \in Clients : session[c] # NoRoom /\ roomPc[session[c]] = "ended" =>
    \/ Contains(inbox[c], "GAME_OVER")
    \/ \E line \in {"GAME_QUIT", "EOF"} : Contains(outbox[c], line)

\* Matching as the players see it: a game starts when GAME_START is sent.
PlaceOf(c) ==
  IF program[c] \in {"waiting", "summoned"}
  THEN IF Contains(inbox[c], "GAME_START") THEN "game" ELSE "waiting"
  ELSE IF program[c] = "playing" THEN "game" ELSE program[c]

Places == [c \in Clients |-> PlaceOf(c)]

Match == INSTANCE RandomMatch WITH place <- Places

\* A game starts for a full room of different players at once, all of whom
\* have asked and none of whom is elsewhere, for game after game.
ImplementsMatch == Match!MatchSpec
=============================================================================
