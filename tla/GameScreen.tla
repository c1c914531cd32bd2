----------------------------- MODULE GameScreen -----------------------------
(***************************************************************************)
(* The game as one client sees and plays it: codenames_screen.c with its   *)
(* three threads (listener, input, main loop), the end of the matching     *)
(* thread in lobby_screen.c, and the connection between it and the server. *)
(*                                                                         *)
(* On the server the game follows CodenamesRules, which the game thread    *)
(* implements (GameSession); here it also broadcasts.  The other players   *)
(* move when they may; what this client sends is handled in the order it   *)
(* was sent.  Lines that only move the chat log, REPORT and its answers    *)
(* (Accounts) are left out, and so is needs_redraw, which is set together  *)
(* with whatever there is to draw.                                         *)
(*                                                                         *)
(***************************************************************************)
EXTENDS CodenamesRules, FiniteSets, Sequences

CONSTANTS Deals,    \* the roles this client may be dealt
          Texts,    \* what is entered: words of the board, numbers, nothing
          Empty,    \* the text of no character
          NoText,   \* nothing was entered
          MaxLag,   \* bound: lines under way when another player moves
          MaxUp     \* bound: lines to the server when one more is sent

Roles == [team : Team, is_leader : BOOLEAN]

ASSUME ScreenAssumption ==
  /\ Deals \subseteq Roles
  /\ IsFiniteSet(Word)
  /\ HintNumbers \subseteq Int /\ 0 \in HintNumbers
  /\ Empty \notin Word \cup HintNumbers
  /\ NoText \notin Word \cup HintNumbers \cup {Empty}
  /\ Texts \subseteq Word \cup HintNumbers \cup {Empty}
  /\ Empty \in Texts
  /\ MaxLag \in Nat
  /\ MaxUp \in Nat

VARIABLES
  session,   \* on the server: "none", "queued", "registered", "open", "over"
  dealt,     \* the role the server has given this client
  copy,      \* the cards used when its snapshot was begun, or NoCopy
  missed,    \* history: cards that were turned while the last one was taken
  down,      \* lines on the way to the client
  up,        \* lines on the way to the server, its event queue included
  scene,     \* the screen that is shown
  me,        \* the role that myPlayerIndex stands for
  view,      \* what the screen knows of the game
  mode,      \* shared_input.mode
  slot,      \* shared_input.input_buf when ready, NoText otherwise
  taken,     \* the input the main loop has taken and not yet acted on
  hintWord   \* whether hintWord holds a word

serverVars == <<rulesVars, session, dealt, copy, missed>>
inputVars == <<mode, slot, taken, hintWord>>
clientVars == <<scene, me, view, inputVars>>
screenVars == <<serverVars, down, up, clientVars>>

NoCopy == {NoText}
NoInput == [text |-> NoText, mode |-> "NONE"]

Atoi(text) == IF text \in HintNumbers THEN text ELSE 0

Score(team, words) == Cardinality({w \in words : layout[w] = Colour(team)})
Phase == IF allowance = 0 THEN 0 ELSE 1

----------------------------------------------------------------------------
(* The server.                                                             *)

\* What is left when one recv has taken n lines.
After(lines, n) == SubSeq(lines, n + 1, Len(lines))

Broadcast(lines) == down' = down \o lines

\* The value 2 for the team means: scores only.
TurnUpdate(team) ==
  [line |-> "TURN_UPDATE", team |-> team, phase |-> Phase',
   red |-> Score(Red, revealed'), blue |-> Score(Blue, revealed')]

\* The game thread begins: whose turn it is, right behind GAME_START.
OpenGame ==
  /\ session = "registered"
  /\ session' = "open"
  /\ UNCHANGED <<rulesVars, dealt, copy, missed, up, clientVars>>
  /\ Broadcast(<<TurnUpdate(turn)>>)

Hint(n) ==
  /\ session = "open"
  /\ GiveHint(n)
  /\ Broadcast(<<[line |-> "HINT", team |-> turn], TurnUpdate(turn)>>)
  /\ UNCHANGED <<session, dealt, copy, missed, clientVars>>

\* CARD_UPDATE; the turn, or the scores alone when it does not pass, which
\* the assassin skips; GAME_OVER.
Turned(w) ==
  <<[line |-> "CARD_UPDATE", word |-> w]>>
    \o (IF layout[w] = "assassin" THEN <<>>
        ELSE <<TurnUpdate(IF allowance' = 0 THEN turn' ELSE 2)>>)
    \o (IF winner' = NoTeam THEN <<>>
        ELSE <<[line |-> "GAME_OVER", team |-> winner']>>)

Answer(w) ==
  /\ session = "open"
  /\ Guess(w)
  /\ Broadcast(Turned(w))
  /\ session' = IF winner' = NoTeam THEN "open" ELSE "over"
  /\ UNCHANGED <<dealt, copy, missed, clientVars>>

\* A team has two members: one of them at least is somebody else.
\* bound: a move takes a player longer than this client needs for its screen.
OthersMove ==
  /\ scene = "game"
  /\ view.last_card_request # 0
  /\ \A i \in DOMAIN up : up[i].line # "SESSION_READY"
  /\ Len(down) <= MaxLag
  /\ \/ dealt # [team |-> turn, is_leader |-> TRUE]
        /\ \E n \in HintNumbers : Hint(n)
     \/ \E w \in Word : Answer(w)
  /\ UNCHANGED up

\* client_response_loop goes on to the next line; it is not in the middle of
\* GET_ALL_CARDS.
Receive(line) ==
  /\ session # "none"
  /\ copy = NoCopy
  /\ up # <<>>
  /\ Head(up).line = line
  /\ up' = Tail(up)

MayHint(e) ==
  /\ session = "open"
  /\ dealt = [team |-> turn, is_leader |-> TRUE]
  /\ Phase = 0
  /\ e.word      \* strtok finds two parts

\* This client's hint reaches the game thread; out of turn it is dropped.
OwnHint ==
  /\ Receive("HINT")
  /\ IF MayHint(Head(up)) THEN Hint(Head(up).number)
     ELSE UNCHANGED <<serverVars, down, clientVars>>

MayAnswer(e) ==
  /\ session = "open"
  /\ dealt = [team |-> turn, is_leader |-> FALSE]
  /\ Phase = 1
  /\ e.text \in Word \ revealed

OwnAnswer ==
  /\ Receive("ANSWER")
  /\ IF MayAnswer(Head(up)) THEN Answer(Head(up).text)
     ELSE UNCHANGED <<serverVars, down, clientVars>>

AckSession ==
  /\ Receive("SESSION_READY")
  /\ Broadcast(<<[line |-> "SESSION_ACK"]>>)
  /\ UNCHANGED <<serverVars, clientVars>>

\* GET_ALL_CARDS: the connection thread reads card after card without
\* game_lock, while the game thread may turn some of them, and then sends.
CopyCards ==
  /\ Receive("GET_ALL_CARDS")
  /\ copy' = revealed
  /\ UNCHANGED <<rulesVars, session, dealt, missed, down, clientVars>>

SendCards ==
  /\ copy # NoCopy
  /\ \E used \in SUBSET revealed :
       /\ copy \subseteq used
       /\ Broadcast(<<[line |-> "ALL_CARDS", used |-> used]>>)
       /\ missed' = revealed \ used
  /\ copy' = NoCopy
  /\ UNCHANGED <<rulesVars, session, dealt, up, clientVars>>

Server ==
  OpenGame \/ OwnHint \/ OwnAnswer \/ AckSession \/ CopyCards \/ SendCards

----------------------------------------------------------------------------
(* The beginning of the screen.                                            *)

\* The matching thread leaves at GAME_START, and whatever its recv has
\* taken behind that line is gone.
ReadStart ==
  /\ scene = "waiting"
  /\ down # <<>> /\ Head(down).line = "GAME_START"
  /\ \E n \in 1 .. Len(down) : down' = After(down, n)
  /\ up' = Append(up, [line |-> "SESSION_READY"])
  /\ scene' = "starting"
  /\ UNCHANGED <<serverVars, me, view, inputVars>>

Unknown == -1

BlankView ==
  [used |-> {}, cards_initialized |-> FALSE, last_card_request |-> 0,
   turn_team |-> Unknown, phase |-> Unknown, red |-> 0, blue |-> 0,
   winner_team |-> NoTeam]

NoInputYet ==
  /\ mode' = "NONE"
  /\ slot' = NoText
  /\ taken' = NoInput
  /\ hintWord' = FALSE

\* Mutant: the cards of the game before stay as they are.
KeepCards ==
  /\ scene = "starting"
  /\ scene' = "game"
  /\ view' = [BlankView EXCEPT !.used = view.used]
  /\ NoInputYet
  /\ UNCHANGED <<serverVars, down, up, me>>

\* reset_game_state, and the threads are created.
OpenScreen ==
  /\ scene = "starting"
  /\ scene' = "game"
  /\ view' = BlankView
  /\ NoInputYet
  /\ UNCHANGED <<serverVars, down, up, me>>

----------------------------------------------------------------------------
(* listener_thread, line by line.                                          *)

gameOver == view.winner_team # NoTeam

\* The listener asks for the cards before it listens, since no request was
\* ever made.  bound: an answer takes less than three seconds, after which it
\* would ask again.
RequestCards ==
  /\ scene = "game"
  /\ view.last_card_request = 0
  /\ view' = [view EXCEPT !.last_card_request = 1]
  /\ up' = Append(up, [line |-> "GET_ALL_CARDS"])
  /\ UNCHANGED <<serverVars, down, scene, me, inputVars>>

Hear(line) ==
  /\ scene = "game"
  /\ view.last_card_request # 0
  /\ ~ gameOver
  /\ down # <<>>
  /\ Head(down).line = line
  /\ down' = Tail(down)
  /\ UNCHANGED <<serverVars, scene, me, slot, taken>>

HearAck ==
  /\ Hear("SESSION_ACK")
  /\ up' = Append(up, [line |-> "GET_ALL_CARDS"])
  /\ UNCHANGED <<view, mode, hintWord>>

HearAllCards ==
  /\ Hear("ALL_CARDS")
  /\ view' = [view EXCEPT !.used = Head(down).used,
                          !.cards_initialized = TRUE]
  /\ UNCHANGED <<up, mode, hintWord>>

HearCard ==
  /\ Hear("CARD_UPDATE")
  /\ view' = [view EXCEPT !.used = @ \cup {Head(down).word}]
  /\ UNCHANGED <<up, mode, hintWord>>

\* The mode a turn calls for.
ModeOfTurn(v) ==
  IF me.team # v.turn_team THEN "NONE"
  ELSE IF me.is_leader /\ v.phase = 0 THEN "HINT"
  ELSE IF ~ me.is_leader /\ v.phase = 1 THEN "ANSWER"
  ELSE "NONE"

\* Mutant: the line that brings scores alone is taken for a turn.
NoScoreLine ==
  /\ Hear("TURN_UPDATE")
  /\ view' = [view EXCEPT !.turn_team = Head(down).team, !.red = Head(down).red,
                          !.phase = Head(down).phase, !.blue = Head(down).blue]
  /\ mode' = ModeOfTurn(view')
  /\ UNCHANGED <<up, hintWord>>

\* Mutant: the line that brings scores alone is skipped.
SkipScores ==
  /\ Hear("TURN_UPDATE")
  /\ IF Head(down).team = 2 THEN UNCHANGED <<view, mode>>
     ELSE /\ view' = [view EXCEPT !.red = Head(down).red,
                                  !.blue = Head(down).blue,
                                  !.turn_team = Head(down).team,
                                  !.phase = Head(down).phase]
          /\ mode' = ModeOfTurn(view')
  /\ UNCHANGED <<up, hintWord>>

HearTurn ==
  /\ Hear("TURN_UPDATE")
  /\ LET t == Head(down)
         scored == [view EXCEPT !.red = t.red, !.blue = t.blue]
     IN IF t.team = 2
        THEN view' = scored /\ UNCHANGED mode
        ELSE /\ view' = [scored EXCEPT !.turn_team = t.team,
                                       !.phase = t.phase]
             /\ mode' = ModeOfTurn(view')
  /\ UNCHANGED <<up, hintWord>>

HearHint ==
  /\ Hear("HINT")
  /\ view' = [view EXCEPT !.turn_team = Head(down).team]
  /\ hintWord' = TRUE
  /\ UNCHANGED <<up, mode>>

\* Mutant: the winner is read off the scores.
WinnerOfScores ==
  /\ Hear("GAME_OVER")
  /\ view' = [view EXCEPT !.winner_team = IF view.red >= view.blue THEN Red
                                          ELSE Blue]
  /\ up' = Append(up, [line |-> "GAME_QUIT"])
  /\ UNCHANGED <<mode, hintWord>>

HearOver ==
  /\ Hear("GAME_OVER")
  /\ view' = [view EXCEPT !.winner_team = Head(down).team]
  /\ up' = Append(up, [line |-> "GAME_QUIT"])
  /\ UNCHANGED <<mode, hintWord>>

Listener ==
  \/ RequestCards \/ HearAck \/ HearAllCards \/ HearCard \/ HearTurn \/ HearHint
  \/ HearOver

----------------------------------------------------------------------------
(* input_thread_func.                                                      *)

\* The modes in which a turn is played.
Asked == {"HINT", "LINK", "ANSWER"}

\* bound: a player is slower than the main loop, which takes an input every
\* 20 ms, and than the network both ways; what the others do between a key
\* and its effect may still come first.
MayType ==
  /\ scene = "game"
  /\ view.last_card_request # 0
  /\ ~ gameOver
  /\ down = <<>> /\ up = <<>>
  /\ slot = NoText
  /\ taken = NoInput

\* Mutant: from the chat Tab goes back to nothing.
TabToNone ==
  /\ MayType
  /\ mode' = IF mode # "CHAT" THEN "CHAT" ELSE "NONE"
  /\ UNCHANGED <<serverVars, down, up, scene, me, view, slot, taken, hintWord>>

\* Tab: between the chat and what the turn calls for.
Tab ==
  /\ MayType
  /\ mode' = IF mode # "CHAT" THEN "CHAT"
             ELSE IF ModeOfTurn(view) = "HINT" /\ hintWord THEN "LINK"
             ELSE ModeOfTurn(view)
  /\ UNCHANGED <<serverVars, down, up, scene, me, view, slot, taken, hintWord>>

\* Ctrl+A
ChooseReport ==
  /\ MayType
  /\ mode' = "REPORT"
  /\ UNCHANGED <<serverVars, down, up, scene, me, view, slot, taken, hintWord>>

\* A text and Enter.
EnterText(text) ==
  /\ MayType
  /\ slot' = text
  /\ UNCHANGED <<serverVars, down, up, scene, me, view, mode, taken, hintWord>>

----------------------------------------------------------------------------
(* The main loop of codenames_screen.                                      *)

\* An input is taken under the lock, with the mode of this moment; without
\* one to act in, it is chat or nothing.
TakeInput ==
  /\ scene = "game"
  /\ slot # NoText
  /\ taken' = IF mode \in {"CHAT", "NONE"} THEN NoInput
              ELSE [text |-> slot, mode |-> mode]
  /\ slot' = NoText
  /\ UNCHANGED <<serverVars, down, up, scene, me, view, mode, hintWord>>

Send(line) ==
  /\ Len(up) < MaxUp
  /\ up' = Append(up, line)

\* And acted on after the lock was let go: shared_input.mode is written
\* whatever it has become.
ActOnInput ==
  /\ scene = "game"
  /\ taken # NoInput
  /\ taken' = NoInput
  /\ \/ /\ taken.mode = "HINT"
        /\ hintWord' = (taken.text # Empty)
        /\ mode' = "LINK"
        /\ UNCHANGED up
     \/ /\ taken.mode = "LINK"
        /\ Send([line |-> "HINT", word |-> hintWord,
                 number |-> Atoi(taken.text)])
        /\ mode' = "NONE"
        /\ UNCHANGED hintWord
     \/ /\ taken.mode = "ANSWER"
        /\ Send([line |-> "ANSWER", text |-> taken.text])
        /\ UNCHANGED <<mode, hintWord>>
     \/ /\ taken.mode = "REPORT"
        /\ mode' = "CHAT"
        /\ UNCHANGED <<up, hintWord>>
  /\ UNCHANGED <<serverVars, down, scene, me, view, slot>>

\* screen_redraw sees gameOver and ends the loop.  The listener reads on to
\* the end of its buffer; nothing of that is shown any more.
ShowResult ==
  /\ scene = "game"
  /\ gameOver
  /\ slot = NoText /\ taken = NoInput
  /\ scene' = "result"
  /\ \E n \in 0 .. Len(down) : down' = After(down, n)
  /\ NoInputYet
  /\ UNCHANGED <<serverVars, up, me, view>>

MainLoop == TakeInput \/ ActOnInput \/ ShowResult

Keys == Tab \/ ChooseReport \/ \E text \in Texts : EnterText(text)

Screen ==
  ReadStart \/ OpenScreen \/ Listener \/ MainLoop \/ Keys
=============================================================================
