--------------------------- MODULE ClientProgram ---------------------------
(***************************************************************************)
(* One client's program from its start: the scenes of client.c, its two    *)
(* connections, the screens for login, sign-up, lobby and result, and the  *)
(* game of GameScreen; with the accept loop of server.c, which decides     *)
(* when a connection gets its thread.                                      *)
(*                                                                         *)
(* What the server answers depends on the accounts (module Accounts) and   *)
(* is a choice here, except where it depends on the request alone.  The    *)
(* exchange from QUERY_WAIT to GAME_START, with cancelling, is module      *)
(* Matchmaking's; here it is one step.                                     *)
(***************************************************************************)
EXTENDS GameScreen

VARIABLES
  accepting,     \* the socket on which main of server.c accepts next
  tls,           \* the TLS connection: "backlog" or "served"
  tcp,           \* the game connection: "none", "backlog" or "served"
  filled,        \* whether ID and PW of the login screen hold text
  login_scene,   \* scene_state of login_screen.c
  signup,        \* the fields of the sign-up screen
  renamed        \* info.nickname, which lives as long as the lobby is shown,
                 \* is not the nickname any more

connectionVars == <<accepting, tls, tcp>>
formVars == <<filled, login_scene, signup, renamed>>
vars == <<screenVars, connectionVars, formVars>>

Fields == {"id", "pw"}

Init ==
  /\ RulesInit
  /\ session = "none"
  /\ dealt \in Deals
  /\ copy = NoCopy
  /\ missed = {}
  /\ down = <<>>
  /\ up = <<>>
  /\ scene = "connect"
  /\ me = [team |-> Red, is_leader |-> TRUE]      \* player 0
  /\ view = BlankView
  /\ mode = "NONE"
  /\ slot = NoText
  /\ taken = NoInput
  /\ hintWord = FALSE
  /\ accepting = "tls"
  /\ tls = "backlog"
  /\ tcp = "none"
  /\ filled = {}
  /\ login_scene = "login"
  /\ signup = [id_available |-> "NOT_CHECKED",
               nickname_available |-> "NOT_CHECKED", pw |-> FALSE]
  /\ renamed = FALSE

Show(screen) == scene' = screen
SameGame == UNCHANGED <<serverVars, me, view, inputVars>>

----------------------------------------------------------------------------
(* The accept loop: one TLS connection, one TCP connection, in turn.       *)

OtherSocket == IF accepting = "tls" THEN "tcp" ELSE "tls"

AcceptTls ==
  /\ accepting = "tls"
  /\ tls = "backlog"
  /\ tls' = "served"
  /\ accepting' = OtherSocket
  /\ UNCHANGED <<screenVars, tcp, formVars>>

AcceptTcp ==
  /\ accepting = "tcp"
  /\ tcp = "backlog"
  /\ tcp' = "served"
  /\ accepting' = OtherSocket
  /\ UNCHANGED <<screenVars, tls, formVars>>

\* Another client was first in the backlog, which matters to this one only
\* while it waits.
AcceptOther ==
  /\ tls = "backlog" \/ tcp # "served"
  /\ accepting' = OtherSocket
  /\ UNCHANGED <<screenVars, tls, tcp, formVars>>

----------------------------------------------------------------------------
(* Login and sign-up, over TLS.                                            *)

\* SSL_connect returns when a thread has served the handshake.
Connected ==
  /\ scene = "connect"
  /\ tls = "served"
  /\ Show("login")
  /\ SameGame
  /\ UNCHANGED <<down, up, connectionVars, formVars>>

\* Typing into or erasing a field.
EditLogin ==
  /\ scene = "login"
  /\ \E f \in Fields : filled' \in {filled \cup {f}, filled \ {f}}
  /\ login_scene' = "login"
  /\ SameGame
  /\ UNCHANGED <<scene, down, up, connectionVars, signup, renamed>>

LoginAnswers == {"LOGIN_OK", "LOGIN_NO_ACCOUNT", "LOGIN_WRONG_PW",
                 "LOGIN_SUSPENDED", "LOGIN_ERROR"}

\* [Login]: without both fields nothing is asked.
PressLogin ==
  /\ scene = "login"
  /\ \E answer \in LoginAnswers :
       LET next == IF filled = Fields /\ answer = "LOGIN_OK" THEN "main"
                   ELSE "login"
       IN Show(next) /\ login_scene' = next
  /\ SameGame
  /\ UNCHANGED <<down, up, connectionVars, filled, signup, renamed>>

\* The key q, in a field too: login_screen returns what the last key has
\* left in scene_state, which is the lobby when that was the [Login] of an
\* earlier visit.
QuitLogin ==
  /\ scene = "login"
  /\ Show(login_scene)
  /\ SameGame
  /\ UNCHANGED <<down, up, connectionVars, formVars>>

\* [Sign in]
OpenSignup ==
  /\ scene = "login"
  /\ Show("signup")
  /\ login_scene' = "signup"
  /\ SameGame
  /\ UNCHANGED <<down, up, connectionVars, filled, signup, renamed>>

\* What handle_ssl_client can answer to a check; it knows no CHECK_NICKNAME.
TlsAnswers(request) ==
  IF request = "CHECK_ID" THEN {"AVAILABLE", "DUPLICATED", "ERROR"}
  ELSE {"ERROR"}

\* Typing a password, [Check Availability] twice, and [Sign up], which asks
\* only for what was found available.  What was checked may be edited
\* afterwards.  The key q shows the screen again.
EditSignup ==
  /\ \/ \E pw \in BOOLEAN : signup' = [signup EXCEPT !.pw = pw]
     \/ \E a \in TlsAnswers("CHECK_ID") :
          signup' = [signup EXCEPT !.id_available = a]
     \/ \E a \in TlsAnswers("CHECK_NICKNAME") :
          signup' = [signup EXCEPT !.nickname_available = a]
  /\ UNCHANGED scene

MaySignup ==
  /\ signup.id_available = "AVAILABLE"
  /\ signup.nickname_available = "AVAILABLE"
  /\ signup.pw

PressSignup ==
  /\ \E answer \in {"SIGNUP_OK", "SIGNUP_ERROR"} :
       Show(IF MaySignup /\ answer = "SIGNUP_OK" THEN "main" ELSE "signup")
  /\ UNCHANGED signup

Signup ==
  /\ scene = "signup"
  /\ EditSignup \/ PressSignup
  /\ SameGame
  /\ UNCHANGED <<down, up, connectionVars, filled, login_scene, renamed>>

----------------------------------------------------------------------------
(* The lobby.                                                              *)

\* SCENE_MAIN: the game connection, unless there is one, and TOKEN.
EnterMain ==
  /\ scene = "main"
  /\ Show("asking")
  /\ tcp' = IF tcp = "none" THEN "backlog" ELSE tcp
  /\ up' = Append(up, [line |-> "TOKEN"])
  /\ SameGame
  /\ UNCHANGED <<down, accepting, tls, formVars>>

\* handle_tcp_client answers what one recv has brought by its first line:
\* TOKEN with the profile, if get_user_info_by_token finds the account,
\* QUERY_WAIT by going to client_response_loop, CHECK_NICKNAME below, and
\* anything else, left over from a game, with ERROR.
TcpAnswers(line) ==
  IF line = "TOKEN" THEN {"PROFILE", "INVALID_TOKEN"} ELSE {"ERROR"}

ServeTcp ==
  /\ session = "none"
  /\ tcp = "served"
  /\ \E n \in 1 .. Len(up) :
       /\ up' = After(up, n)
       /\ \/ /\ Head(up).line = "QUERY_WAIT"
             /\ session' = "queued"
             /\ UNCHANGED down
          \/ /\ Head(up).line # "QUERY_WAIT"
             /\ \E answer \in TcpAnswers(Head(up).line) :
                  down' = Append(down, [line |-> answer])
             /\ UNCHANGED session
  /\ UNCHANGED <<rulesVars, dealt, copy, missed, clientVars, connectionVars,
                 formVars>>

\* Mutant: GAME_QUIT does not end the loop, which knows no TOKEN.
StayInLoop ==
  /\ session # "none" /\ copy = NoCopy
  /\ up # <<>> /\ Head(up).line = "GAME_QUIT"
  /\ up' = Tail(up)
  /\ UNCHANGED <<serverVars, down, clientVars, connectionVars, formVars>>

\* GAME_QUIT ends client_response_loop, and what its recv has brought behind
\* that line is lost; the game thread frees the session.
ServeQuit ==
  /\ session # "none" /\ copy = NoCopy
  /\ \E n \in 1 .. Len(up) : up' = After(up, n)
  /\ Head(up).line = "GAME_QUIT"
  /\ session' = "none"
  /\ revealed' = {}
  /\ turn' = Red
  /\ allowance' = 0
  /\ guesses' = 0
  /\ winner' = NoTeam
  /\ missed' = {}
  /\ UNCHANGED <<layout, dealt, copy, down, clientVars, connectionVars,
                 formVars>>

\* One recv: what has arrived is taken for the answer, also what a game has
\* left behind.
ReadProfile ==
  /\ scene = "asking"
  /\ \E n \in 1 .. Len(down) :
       /\ down' = After(down, n)
       /\ Show(IF Head(down).line = "PROFILE" THEN "lobby"
               ELSE IF Head(down).line = "INVALID_TOKEN" /\ n = 1
                    THEN "invalid" ELSE "error")
  /\ renamed' = FALSE
  /\ SameGame
  /\ UNCHANGED <<up, connectionVars, filled, login_scene, signup>>

\* q in the lobby, and Enter or q on the result screen.
BackToMain ==
  /\ scene \in {"lobby", "result"}
  /\ Show("main")
  /\ SameGame
  /\ UNCHANGED <<down, up, connectionVars, formVars>>

\* The check of the nickname over TCP, then EDIT_NICK over TLS: any other
\* failure than a taken nickname at the check ends the program.
CheckAnswers == {"NICKNAME_AVAILABLE", "NICKNAME_TAKEN", "ERROR"}
EditAnswers == {"NICKNAME_EDIT_OK", "INVALID_TOKEN", "NICK_DUPLICATE",
                "NICKNAME_EDIT_ERROR"}

Changed == <<"NICKNAME_AVAILABLE", "NICKNAME_EDIT_OK">>

EditNickname ==
  /\ scene = "lobby"
  /\ \E check \in CheckAnswers, edit \in EditAnswers :
       /\ Show(IF check = "NICKNAME_TAKEN" THEN "lobby"
               ELSE IF check = "ERROR" THEN "error"
               ELSE IF edit = "NICKNAME_EDIT_OK" THEN "lobby"
               ELSE IF edit = "INVALID_TOKEN" THEN "invalid" ELSE "error")
       /\ renamed' = (renamed \/ <<check, edit>> = Changed)
  /\ SameGame
  /\ UNCHANGED <<down, up, connectionVars, filled, login_scene, signup>>

\* [Start random match]
PressMatch ==
  /\ scene = "lobby"
  /\ Show("waiting")
  /\ up' = Append(up, [line |-> "QUERY_WAIT"])
  /\ SameGame
  /\ UNCHANGED <<down, connectionVars, formVars>>

\* parse_game_init looks for the nickname the lobby has shown; if it finds
\* none, myPlayerIndex stays what it was.
Recognised(role) == IF renamed THEN me ELSE role

\* A room: GAME_INIT deals the roles, and after the last READY_TO_GO comes
\* GAME_START; info goes with the lobby.
StartRoom ==
  /\ session = "queued"
  /\ scene = "waiting"
  /\ session' = "registered"
  /\ dealt' \in Deals
  /\ me' = Recognised(dealt')
  /\ layout' \in Layouts
  /\ renamed' = FALSE
  /\ down' = Append(down, [line |-> "GAME_START"])
  /\ UNCHANGED <<revealed, turn, allowance, guesses, winner, copy, missed, up,
                 scene, view, inputVars, connectionVars, filled, login_scene,
                 signup>>

\* The invalid-token screen: the game connection is closed.
CloseGame ==
  /\ scene = "invalid"
  /\ Show("login")
  /\ tcp' = "none"
  /\ down' = <<>>
  /\ up' = <<>>
  /\ SameGame
  /\ UNCHANGED <<accepting, tls, formVars>>

----------------------------------------------------------------------------
InGame(step) == step /\ UNCHANGED <<connectionVars, formVars>>

Accept == AcceptTls \/ AcceptTcp \/ AcceptOther

ServerStep ==
  \/ InGame(Server)
  \/ ServeTcp \/ ServeQuit \/ StartRoom

Program ==
  \/ Connected \/ EnterMain \/ ReadProfile \/ CloseGame
  \/ InGame(ReadStart) \/ InGame(OpenScreen)
  \/ InGame(Listener) \/ InGame(MainLoop)

User ==
  \/ EditLogin \/ PressLogin \/ QuitLogin \/ OpenSignup \/ Signup
  \/ BackToMain \/ EditNickname \/ PressMatch
  \/ InGame(Keys)

Next ==
  \/ Accept \/ ServerStep \/ Program \/ User
  \/ InGame(OthersMove)

Spec == Init /\ [][Next]_vars

\* The threads of client and server run on.  Nobody else need ever connect.
\* The backlog is a queue: if main comes to the TCP accept again and again, it
\* takes this connection in the end.  And a player who can, in the chat or out
\* of it, again and again press Tab does so in the end.
FairSpec ==
  /\ Spec
  /\ WF_vars(ServerStep)
  /\ WF_vars(Program)
  /\ SF_vars(AcceptTcp)
  /\ SF_vars(InGame(Tab) /\ mode = "CHAT")
  /\ SF_vars(InGame(Tab) /\ mode \in {"NONE", "REPORT"})

----------------------------------------------------------------------------
(* Properties.                                                             *)

\* Nothing is under way between the two.
Quiet == copy = NoCopy /\ up = <<>> /\ down = <<>>

\* The lines of the server and the lines of the client.
DownLines ==
  [line : {"PROFILE", "INVALID_TOKEN", "ERROR", "GAME_START", "SESSION_ACK"}]
  \cup [line : {"HINT", "GAME_OVER"}, team : Team]
  \cup [line : {"TURN_UPDATE"}, team : Team \cup {2}, phase : {0, 1},
        red : Nat, blue : Nat]
  \cup [line : {"CARD_UPDATE"}, word : Word]
  \cup [line : {"ALL_CARDS"}, used : SUBSET Word]

UpLines ==
  [line : {"TOKEN", "QUERY_WAIT", "SESSION_READY", "GET_ALL_CARDS",
           "GAME_QUIT"}]
  \cup [line : {"HINT"}, word : BOOLEAN, number : HintNumbers]
  \cup [line : {"ANSWER"}, text : Texts]

Screens == {"connect", "login", "signup", "main", "asking", "lobby",
            "waiting", "starting", "game", "result", "invalid", "error"}

Modes == {"NONE", "CHAT", "HINT", "LINK", "ANSWER", "REPORT"}

Views == [used : SUBSET Word, cards_initialized : BOOLEAN,
          last_card_request : {0, 1}, turn_team : Team \cup {Unknown},
          phase : {0, 1, Unknown}, red : Nat, blue : Nat,
          winner_team : Team \cup {NoTeam}]

\* The types of the game, of what is under way, and of the program.
TypeOK ==
  /\ layout \in Layouts /\ revealed \subseteq Word
  /\ turn \in Team /\ allowance \in Nat /\ winner \in Team \cup {NoTeam}
  /\ session \in {"none", "queued", "registered", "open", "over"}
  /\ dealt \in Deals /\ me \in Roles
  /\ copy = NoCopy \/ copy \subseteq Word
  /\ missed \subseteq Word
  /\ down \in Seq(DownLines)
  /\ up \in Seq(UpLines)
  /\ scene \in Screens
  /\ view \in Views
  /\ mode \in Modes
  /\ slot \in Texts \cup {NoText}
  /\ taken \in [text : Texts, mode : Modes] \cup {NoInput}
  /\ hintWord \in BOOLEAN
  /\ accepting \in {"tls", "tcp"}
  /\ tls \in {"backlog", "served"} /\ tcp \in {"none", "backlog", "served"}
  /\ filled \subseteq Fields
  /\ login_scene \in {"login", "main", "signup"}
  /\ renamed \in BOOLEAN

\* A card that the screen shows as turned has been turned in this very game, a
\* winner it shows is this game's, and the result comes when this game is over:
\* nothing of an earlier game, neither a line under way nor the state the
\* screen was left in, shows in the next one.
ScreenOfThisGame ==
  session \in {"registered", "open", "over"} =>
    /\ scene = "game" =>
         view.used \subseteq revealed /\ view.winner_team \in {NoTeam, winner}
    /\ scene = "result" => session = "over" /\ view.winner_team = winner

\* When nothing is under way, the screen agrees with the server: on the turn,
\* if it has heard of one, the scores, and the cards, but for those that were
\* turned while the snapshot was being taken (room_manager.c:189).
ViewSettles ==
  scene = "game" /\ session = "open" /\ Quiet
    /\ view.last_card_request # 0 /\ view.turn_team # Unknown =>
    /\ <<view.turn_team, view.phase>> = <<turn, Phase>>
    /\ view.red = Score(Red, revealed)
    /\ view.blue = Score(Blue, revealed)
    /\ view.cards_initialized /\ view.used = revealed \ missed

\* The connection is in the backlog of the TCP socket while main waits for
\* somebody else at the TLS socket (server.c:294).
Blocked == tcp = "backlog" /\ accepting = "tls"

\* TOKEN has been read and nothing is on its way to the client.
Swallowed == tcp = "served" /\ up = <<>> /\ down = <<>>

\* There are two ways, and no third, to wait in the lobby's "asking" for ever: main
\* never leaves its TLS accept, or TOKEN was behind GAME_QUIT in one recv
\* (room_manager.c:237).  A TOKEN that is read next is answered, on the first
\* connection, on one opened after INVALID_TOKEN and after any game.
TokenNext == scene = "asking" /\ up # <<>> /\ Head(up).line = "TOKEN"

ProfileComes ==
  /\ TokenNext ~> (scene # "asking" \/ []Blocked)
  /\ scene = "asking" ~> (scene # "asking" \/ []Blocked \/ []Swallowed)

\* GAME_OVER on the way to a client in its game brings the result screen, with
\* that winner, whatever the three threads are doing.
OverUnderWay(team) ==
  /\ scene = "game"
  /\ \E i \in DOMAIN down : down[i] = [line |-> "GAME_OVER", team |-> team]

OverShown ==
  \A team \in Team :
    OverUnderWay(team) ~> scene = "result" /\ view.winner_team = team

\* It is for this player to enter something, and the client knows his role.
MyTurn ==
  /\ scene = "game"
  /\ session = "open"
  /\ me = dealt
  /\ dealt = [team |-> turn, is_leader |-> Phase = 0]

\* Who is to play and has heard of a turn is asked for his hint or answer or
\* can get there with Tab, whatever mode he was in: the listener, the input
\* thread and the main loop all write the mode.
TurnReachesPlayer ==
  (MyTurn /\ view.turn_team # Unknown) ~> (mode \in Asked \/ ~ MyTurn)

\* README.md:124: the leader can give a hint when his turn has come.
LeaderMayHint ==
  (MyTurn /\ dealt.is_leader) ~> (mode \in {"HINT", "LINK"} \/ ~ MyTurn)

\* README.md:122-124: each player has the role that he was dealt.
RoleIsDealt == scene = "game" => me = dealt
=============================================================================
