---------------------------- MODULE GameSession ----------------------------
(***************************************************************************)
(* One game: the GameSession of room_manager.h and the thread that plays   *)
(* it, run_game_session of room_manager.c, from the moment run_match_room  *)
(* has registered the session and started the thread until the session is  *)
(* freed.                                                                  *)
(*                                                                         *)
(* The connection threads of the players enqueue lines at any moment; the  *)
(* game thread dequeues an event under event_lock, lets go of that lock,   *)
(* and handles the event under game_lock.  The queue is the bounded FIFO   *)
(* queue that EventRing implements.  Words of the board are distinct       *)
(* (words.txt), so a card is known by its word.                            *)
(***************************************************************************)
EXTENDS Integers, Sequences, FiniteSets

CONSTANTS Word,         \* the words on the cards (MAX_CARDS = 25)
          Layouts,      \* the boards assign_cards can shuffle
          NumRed,       \* red cards, and the red score that wins (9)
          NumBlue,      \* blue cards, and the blue score that wins (8)
          TeamSize,     \* players of a team (3)
          HintNumbers,  \* what atoi can make of the number of a hint
          NoNumber,     \* a hint line without a number
          OffBoard,     \* an answer that is no word of the board
          MaxEvents     \* MAX_EVENTS (64)

Colours == {"red", "blue", "neutral", "assassin"}

\* The words of one colour.
Of(layout, colour) == {w \in Word : layout[w] = colour}

ASSUME BoardAssumption ==
  /\ IsFiniteSet(Word)
  /\ OffBoard \notin Word
  /\ NumRed \in Nat \ {0}
  /\ NumBlue \in Nat \ {0}
  /\ Layouts \subseteq [Word -> Colours]
  /\ \A layout \in Layouts :
       /\ Cardinality(Of(layout, "red")) = NumRed
       /\ Cardinality(Of(layout, "blue")) = NumBlue
       /\ Cardinality(Of(layout, "assassin")) = 1

ASSUME SessionAssumption ==
  /\ TeamSize \in Nat \ {0}
  /\ HintNumbers \subseteq Int
  /\ NoNumber \notin Int
  /\ MaxEvents \in Nat \ {0, 1}

NumPlayers == 2 * TeamSize              \* MAX_ROOM_PLAYERS
Players == 0 .. NumPlayers - 1

\* PlayerEntry.team and .is_leader, as run_match_room deals them by seat.
TeamOf(p) == IF p < TeamSize THEN 0 ELSE 1
IsLeader(p) == p = 0 \/ p = TeamSize

Events == [type : {"CHAT"}, player : Players]
            \cup [type : {"HINT"}, player : Players,
                  number : HintNumbers \cup {NoNumber}]
            \cup [type : {"ANSWER"}, player : Players,
                  word : Word \cup {OffBoard}]

NoEvent == [type |-> "NONE"]
NoTeam == -1

VARIABLES cards,            \* the colour of every card
          used,             \* the words whose isUsed is 1
          redScore,
          blueScore,
          turn_team,        \* 0: red, 1: blue
          phase,            \* 0: the leader's hint, 1: the members' answers
          hint_count,
          remaining_tries,
          game_over,
          events,           \* the event queue
          pc,               \* where the game thread is
          ev,               \* its local ev, NoEvent outside the loop's body
          winner_team,      \* its local, NoTeam until computed
          saved,            \* how many results it has passed to the database
          results           \* results[p]: what the database holds for p

boardVars == <<cards, used, redScore, blueScore>>
turnVars == <<turn_team, phase, hint_count, remaining_tries>>
endVars == <<winner_team, saved, results>>
vars == <<boardVars, turnVars, game_over, events, pc, ev, endVars>>

Init ==
  /\ cards \in Layouts
  /\ used = {}
  /\ redScore = 0
  /\ blueScore = 0
  /\ turn_team = 0
  /\ phase = 0
  /\ hint_count = 0
  /\ remaining_tries = 0
  /\ game_over = FALSE
  /\ events = <<>>
  /\ pc = "loop"
  /\ ev = NoEvent
  /\ winner_team = NoTeam
  /\ saved = 0
  /\ results = [p \in Players |-> "none"]

----------------------------------------------------------------------------
(* The connection threads.                                                 *)

\* Mutant: the slot that has to stay empty is filled too.
EnqueueOneTooMany(e) ==
  /\ pc # "freed"
  /\ Len(events) < MaxEvents
  /\ events' = Append(events, e)
  /\ UNCHANGED <<boardVars, turnVars, game_over, pc, ev, endVars>>

\* client_response_loop enqueues a CHAT, HINT or ANSWER line of a player it
\* has bound to the session.  It looks neither at the turn nor at game_over.
\* On a full queue it answers EVENT_QUEUE_FULL and changes nothing.
Enqueue(e) ==
  /\ pc # "freed"
  /\ Len(events) < MaxEvents - 1
  /\ events' = Append(events, e)
  /\ UNCHANGED <<boardVars, turnVars, game_over, pc, ev, endVars>>

----------------------------------------------------------------------------
(* The game thread.                                                        *)

\* Mutant: event_front stays where it is.
DequeueNothing ==
  /\ pc = "loop"
  /\ ~ game_over
  /\ events # <<>>
  /\ ev' = Head(events)
  /\ pc' = "handle"
  /\ UNCHANGED <<boardVars, turnVars, game_over, events, endVars>>

Dequeue ==
  /\ pc = "loop"
  /\ ~ game_over
  /\ events # <<>>
  /\ ev' = Head(events)
  /\ events' = Tail(events)
  /\ pc' = "handle"
  /\ UNCHANGED <<boardVars, turnVars, game_over, endVars>>

OnTurn(p) == TeamOf(p) = turn_team

MayHint(e) ==
  e.type = "HINT" /\ phase = 0 /\ IsLeader(e.player) /\ OnTurn(e.player)

MayAnswer(e) ==
  e.type = "ANSWER" /\ phase = 1 /\ ~ IsLeader(e.player) /\ OnTurn(e.player)

\* The loop's body is left: ev goes out of scope.
LeaveBody(next) ==
  /\ pc' = next
  /\ ev' = NoEvent
  /\ UNCHANGED <<events, endVars>>

\* Mutant: one card more than the goal is needed.
CheckScoresBeyond ==
  game_over' = (game_over \/ redScore' > NumRed \/ blueScore' > NumBlue)

\* The check of the scores at the end of the body.
CheckScores ==
  game_over' = (game_over \/ redScore' >= NumRed \/ blueScore' >= NumBlue)

\* A hint by the leader on turn that has a word and a number.
HandleHint ==
  /\ pc = "handle" /\ MayHint(ev) /\ ev.number # NoNumber
  /\ hint_count' = ev.number
  /\ remaining_tries' = ev.number
  /\ phase' = 1
  /\ UNCHANGED <<boardVars, turn_team>>
  /\ CheckScores
  /\ LeaveBody("loop")

\* CHAT is only broadcast; a hint or an answer by the wrong player, in the
\* wrong phase or out of turn, or a hint without a number, is dropped.
HandleOther ==
  /\ pc = "handle"
  /\ ~ (MayHint(ev) /\ ev.number # NoNumber)
  /\ ~ MayAnswer(ev)
  /\ UNCHANGED <<boardVars, turnVars>>
  /\ CheckScores
  /\ LeaveBody("loop")

\* No unused card has the word: only the sender is told, and `continue'
\* skips the check of the scores.
HandleUnknownWord ==
  /\ pc = "handle" /\ MayAnswer(ev)
  /\ ev.word \notin Word \ used
  /\ UNCHANGED <<boardVars, turnVars, game_over>>
  /\ LeaveBody("loop")

\* Mutant: only the team on turn can score.
ScoreOwnCard(colour) ==
  /\ redScore' = IF colour = "red" /\ turn_team = 0
                 THEN redScore + 1 ELSE redScore
  /\ blueScore' = IF colour = "blue" /\ turn_team = 1
                  THEN blueScore + 1 ELSE blueScore

\* The colour decides who scores, whoever turned the card.
ScoreCard(colour) ==
  /\ redScore' = IF colour = "red" THEN redScore + 1 ELSE redScore
  /\ blueScore' = IF colour = "blue" THEN blueScore + 1 ELSE blueScore

OwnColour == IF turn_team = 0 THEN "red" ELSE "blue"

\* Mutant: a card that is not one's own costs a try, not the turn.
TriesKept(colour) == remaining_tries - 1

\* remaining_tries after the card: any card but one's own zeroes it first.
TriesAfter(colour) == (IF colour = OwnColour THEN remaining_tries ELSE 0) - 1

\* Mutant: the turn passes one try late.
SpendTryLate(colour) ==
  /\ remaining_tries' = TriesAfter(colour)
  /\ IF TriesAfter(colour) < 0
       THEN turn_team' = 1 - turn_team /\ phase' = 0
       ELSE UNCHANGED <<turn_team, phase>>
  /\ UNCHANGED hint_count

SpendTry(colour) ==
  /\ remaining_tries' = TriesAfter(colour)
  /\ IF TriesAfter(colour) <= 0
       THEN turn_team' = 1 - turn_team /\ phase' = 0
       ELSE UNCHANGED <<turn_team, phase>>
  /\ UNCHANGED hint_count

\* An answer that turns a red, blue or neutral card.
HandleCard ==
  /\ pc = "handle" /\ MayAnswer(ev)
  /\ ev.word \in Word \ used
  /\ cards[ev.word] # "assassin"
  /\ used' = used \cup {ev.word}
  /\ ScoreCard(cards[ev.word])
  /\ SpendTry(cards[ev.word])
  /\ UNCHANGED cards
  /\ CheckScores
  /\ LeaveBody("loop")

\* Mutant: the assassin is spent like any other card before the game ends.
HandleAssassinAsCard ==
  /\ pc = "handle" /\ MayAnswer(ev)
  /\ ev.word \in Word \ used
  /\ cards[ev.word] = "assassin"
  /\ used' = used \cup {ev.word}
  /\ game_over' = TRUE
  /\ SpendTry("assassin")
  /\ UNCHANGED <<cards, redScore, blueScore>>
  /\ LeaveBody("gameover")

\* The assassin: game_over, and `goto event_gameover' skips the rest.
HandleAssassin ==
  /\ pc = "handle" /\ MayAnswer(ev)
  /\ ev.word \in Word \ used
  /\ cards[ev.word] = "assassin"
  /\ used' = used \cup {ev.word}
  /\ game_over' = TRUE
  /\ UNCHANGED <<cards, redScore, blueScore, turnVars>>
  /\ LeaveBody("gameover")

\* Mutant: the thread would empty its queue before it leaves.
LeaveLoopEmpty ==
  /\ pc = "loop"
  /\ game_over
  /\ events = <<>>
  /\ pc' = "gameover"
  /\ UNCHANGED <<boardVars, turnVars, game_over, events, ev, endVars>>

\* while (!session->game_over)
LeaveLoop ==
  /\ pc = "loop"
  /\ game_over
  /\ pc' = "gameover"
  /\ UNCHANGED <<boardVars, turnVars, game_over, events, ev, endVars>>

\* Mutant: the team on turn has lost, whatever ended the game.
WinnerOffTurn == 1 - turn_team

WinnerTeam == IF redScore >= NumRed THEN 0
              ELSE IF blueScore >= NumBlue THEN 1
              ELSE 1 - turn_team

\* event_gameover: GAME_OVER|winner_team is broadcast.
AnnounceWinner ==
  /\ pc = "gameover"
  /\ winner_team' = WinnerTeam
  /\ pc' = "save"
  /\ UNCHANGED <<boardVars, turnVars, game_over, events, ev, saved, results>>

\* save_game_result_by_nickname for the next player.  It may fail (a locked
\* or missing database, an unknown nickname); the game thread does not look.
SaveResult ==
  /\ pc = "save"
  /\ saved < NumPlayers
  /\ \E result \in {IF TeamOf(saved) = winner_team THEN "WIN" ELSE "LOSS",
                    "failed"} :
       results' = [results EXCEPT ![saved] = result]
  /\ saved' = saved + 1
  /\ UNCHANGED <<boardVars, turnVars, game_over, events, pc, ev, winner_team>>

\* unregister_session, then the session is freed.
Cleanup ==
  /\ pc = "save"
  /\ saved = NumPlayers
  /\ pc' = "freed"
  /\ UNCHANGED <<boardVars, turnVars, game_over, events, ev, endVars>>

GameThread ==
  \/ Dequeue
  \/ HandleHint \/ HandleOther \/ HandleUnknownWord
  \/ HandleCard \/ HandleAssassin
  \/ LeaveLoop \/ AnnounceWinner \/ SaveResult \/ Cleanup

Next == GameThread \/ \E e \in Events : Enqueue(e)

\* The game thread runs, polls and is never blocked for good; the players
\* owe nothing.
Spec == Init /\ [][Next]_vars /\ WF_vars(GameThread)

----------------------------------------------------------------------------
(* Properties.                                                             *)

\* Types of the session's fields and of the game thread's locals.
TypeOK ==
  /\ cards \in Layouts
  /\ used \in SUBSET Word
  /\ redScore \in Nat
  /\ blueScore \in Nat
  /\ turn_team \in {0, 1}
  /\ phase \in {0, 1}
  /\ hint_count \in HintNumbers \cup {0}
  /\ remaining_tries \in Int
  /\ game_over \in BOOLEAN
  /\ events \in Seq(Events) /\ Len(events) < MaxEvents
  /\ pc \in {"loop", "handle", "gameover", "save", "freed"}
  /\ ev \in Events \cup {NoEvent} /\ (pc = "handle" <=> ev \in Events)
  /\ winner_team \in {0, 1, NoTeam}
  /\ saved \in 0 .. NumPlayers
  /\ results \in [Players -> {"none", "WIN", "LOSS", "failed"}]

\* The scores are the numbers of used red and blue cards, whichever team
\* turned them and in whatever order answers and hints were handled: no card
\* is counted twice and none is missed (room_manager.c:453-489).
ScoresMatchBoard ==
  /\ redScore = Cardinality(used \cap Of(cards, "red"))
  /\ blueScore = Cardinality(used \cap Of(cards, "blue"))

\* What ends a game on the board: a colour complete, or the assassin.
Decided ==
  \/ Of(cards, "red") \subseteq used
  \/ Of(cards, "blue") \subseteq used
  \/ Of(cards, "assassin") \subseteq used

\* The game thread handles events exactly as long as the board is undecided:
\* no event is handled after the deciding card, and the thread leaves its
\* loop only for a decided board (room_manager.c:409, 496-502, 556-558).
OverExactlyWhenDecided ==
  /\ game_over <=> Decided
  /\ pc = "handle" => ~ Decided
  /\ pc \in {"gameover", "save", "freed"} => Decided

\* During the answers of a turn the tries that are left lie between one and
\* the number of the hint, or the hint promised none and the one guess a
\* turn always has is still to come (room_manager.c:434-436, 522-527).
TriesWithinHint ==
  phase = 1 => \/ remaining_tries \in 1 .. hint_count
               \/ hint_count < 1 /\ remaining_tries = hint_count

\* What the database gets agrees with the board: a team whose colour is
\* complete never records a loss, and as the game decides for one team only,
\* a win of one team excludes a win of the other (room_manager.c:566-583).
ResultsMatchBoard ==
  \A p \in Players :
    /\ results[p] = "LOSS" =>
         ~ (Of(cards, IF TeamOf(p) = 0 THEN "red" ELSE "blue") \subseteq used)
    /\ results[p] = "WIN" =>
         \A o \in Players : TeamOf(o) # TeamOf(p) => results[o] # "WIN"
    /\ pc = "freed" => results[p] # "none"

\* The team that turns the assassin is the one that loses: the event behind
\* the card was sent by a player of the team the game is then decided
\* against, however long it had waited in the queue.
AssassinLoses ==
  [][\A w \in used' \ used :
       cards[w] = "assassin" => WinnerTeam' = 1 - TeamOf(ev.player)]_vars

\* The game as the rules tell it.  A guess is made when its card is turned,
\* the winner is known when the deciding card is.
HintAllows == IF hint_count < 1 THEN 1 ELSE hint_count

Rules == INSTANCE CodenamesRules
           WITH layout <- cards,
                revealed <- used,
                turn <- turn_team,
                allowance <- IF phase = 1 THEN HintAllows ELSE 0,
                guesses <- IF phase = 1 THEN hint_count - remaining_tries
                                        ELSE 0,
                winner <- IF game_over THEN WinnerTeam ELSE NoTeam

ImplementsRules == Rules!RulesSpec

\* The game thread waits for an event and for nothing else: whatever line it
\* has taken, from whatever player in whatever phase, some branch goes on
\* with it, and in a decided game it goes on whatever still waits
\* (room_manager.c:409-590).
WaitsForEventsOnly ==
  (ENABLED <<GameThread>>_vars)
    <=> pc # "freed" /\ (pc = "loop" => game_over \/ events # <<>>)

\* A full queue does not stay full: the game thread makes room, or the game
\* is over and nothing needs it any more.
QueueDrains == []<>(Len(events) < MaxEvents - 1 \/ game_over)

\* A decided game is wound up: the result of every player is passed to the
\* database and the session is freed.
DecidedGameIsWoundUp == Decided ~> (pc = "freed" /\ saved = NumPlayers)

\* README.md:125 lets a team make one guess more than the number of its hint
\* ("the most that can be guessed is the leader's number +1"): a turn that
\* ends although its last card was the team's own has used that guess too.
GuessesMade == hint_count - remaining_tries

BonusGuess ==
  [][\A w \in used' \ used :
       cards[w] = OwnColour /\ turn_team' # turn_team /\ ~ game_over'
         => GuessesMade' = hint_count + 1]_vars
=============================================================================
