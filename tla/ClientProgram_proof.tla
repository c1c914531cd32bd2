-------------------------- MODULE ClientProgram_proof --------------------------
(***************************************************************************)
(* Theorems about ClientProgram, for any board, any hints and any amount   *)
(* of lines under way: its type invariant, that no card shows that was not *)
(* turned in this game and no winner but its own, and that the screen      *)
(* agrees with the server when nothing is under way.                       *)
(***************************************************************************)
EXTENDS ClientProgram, SequenceTheorems, FiniteSetTheorems, TLAPS

----------------------------------------------------------------------------
(* The inductive invariant.                                                *)

\* A snapshot is taken for a session.
CopyInGame == copy # NoCopy => session # "none"

\* On these screens the server has nothing to do for this client, and nothing
\* is under way to or from it.
AtRest ==
  scene \in {"connect", "login", "signup", "lobby", "invalid"} =>
    session = "none" /\ up = <<>> /\ down = <<>>

\* Behind TOKEN the client sends nothing before it has an answer.
TokenLast ==
  \A i \in DOMAIN up :
    /\ up[i].line = "TOKEN" => scene \in {"asking", "error"} /\ i = Len(up)
    /\ up[i].line = "QUERY_WAIT" => scene = "waiting"

\* The answers to TOKEN.
Profiles == {"PROFILE", "INVALID_TOKEN"}

NoProfile(lines) == \A i \in DOMAIN lines : lines[i].line \notin Profiles

\* Nor does the server behind that answer.
ProfileLast ==
  \A i \in DOMAIN down :
    down[i].line \in Profiles =>
      /\ scene \in {"asking", "error"} /\ i = Len(down)
      /\ session = "none" /\ up = <<>>

Start == [line |-> "GAME_START"]
FirstTurn == [line |-> "TURN_UPDATE", team |-> Red, phase |-> 0,
              red |-> Score(Red, {}), blue |-> Score(Blue, {})]

\* How far the matching can be while the client waits for it.
Matching ==
  /\ scene = "waiting" =>
       /\ copy = NoCopy
       /\ \/ session = "none" /\ up = <<[line |-> "QUERY_WAIT"]>> /\ down = <<>>
          \/ session = "queued" /\ up = <<>> /\ down = <<>>
          \/ session = "registered" /\ up = <<>> /\ down = <<Start>>
          \/ session = "open" /\ up = <<>> /\ down = <<Start, FirstTurn>>
  /\ session = "queued" => scene = "waiting"

\* Before the first move the board is covered, and Red is to give a hint.
AtStart ==
  session \in {"none", "queued", "registered"} \/ scene = "waiting" =>
    revealed = {} /\ missed = {} /\ turn = Red /\ allowance = 0

\* The cards a line brings.
CardsOf(l) ==
  IF l.line = "CARD_UPDATE" THEN {l.word}
  ELSE IF l.line = "ALL_CARDS" THEN l.used ELSE {}

\* The lines bring none but these cards.
Within(lines, cards) ==
  \A i \in DOMAIN lines : CardsOf(lines[i]) \subseteq cards

\* What is known of cards anywhere has been turned in this game.
Fresh ==
  session # "none" =>
    /\ missed \subseteq revealed
    /\ copy # NoCopy => copy \subseteq revealed
    /\ Within(down, revealed)
    /\ scene = "game" => view.used \subseteq revealed

\* What the lines change of the view, the winner apart.
Pictures == [used : SUBSET Word, cards : BOOLEAN, turn : Team \cup {Unknown},
             phase : {0, 1, Unknown}, red : Nat, blue : Nat]

Shown(v) ==
  [used |-> v.used, cards |-> v.cards_initialized, turn |-> v.turn_team,
   phase |-> v.phase, red |-> v.red, blue |-> v.blue]

\* The picture x after line l.
Heard(x, l) ==
  [used |-> IF l.line = "ALL_CARDS" THEN l.used ELSE x.used \cup CardsOf(l),
   cards |-> x.cards \/ l.line = "ALL_CARDS",
   turn |-> IF l.line = "HINT" \/ (l.line = "TURN_UPDATE" /\ l.team # 2)
            THEN l.team ELSE x.turn,
   phase |-> IF l.line = "TURN_UPDATE" /\ l.team # 2 THEN l.phase ELSE x.phase,
   red |-> IF l.line = "TURN_UPDATE" THEN l.red ELSE x.red,
   blue |-> IF l.line = "TURN_UPDATE" THEN l.blue ELSE x.blue]

\* The lines, heard one after the other, take the picture first to last.
Leads(first, lines, last) ==
  \E p \in Seq(Pictures) :
    /\ Len(p) = Len(lines) + 1
    /\ p[1] = first
    /\ p[Len(p)] = last
    /\ \A k \in 1 .. Len(lines) : p[k + 1] = Heard(p[k], lines[k])

\* A picture that is true of the game on the server.
Agrees(x) ==
  /\ x.turn = Unknown \/ (x.turn = turn /\ x.phase = Phase)
  /\ x.red = Score(Red, revealed)
  /\ x.blue = Score(Blue, revealed)
  /\ x.cards => x.used = revealed \ missed

\* The screen begins with nothing.
Picture == IF scene = "game" THEN Shown(view) ELSE Shown(BlankView)

CardsAsked == \E i \in DOMAIN up : up[i].line = "GET_ALL_CARDS"

\* A client that has asked for the cards has them, or its request or the
\* snapshot is under way.
CardsToCome(x) ==
  scene = "game" /\ view.last_card_request # 0 =>
    \/ x.cards
    \/ copy # NoCopy
    \/ CardsAsked

\* What is under way makes the picture of a game that is on a true one.
Foreseen ==
  session \in {"registered", "open"} /\ scene \in {"starting", "game"} =>
    \E x \in Pictures : Leads(Picture, down, x) /\ Agrees(x) /\ CardsToCome(x)

Tidy == CopyInGame /\ AtRest /\ TokenLast /\ ProfileLast /\ Matching /\ AtStart

CInv == TypeOK /\ Tidy /\ Fresh /\ Foreseen

----------------------------------------------------------------------------
(* Sequences, lines and pictures.                                          *)

\* What one recv leaves.
LEMMA AfterProperties ==
  ASSUME NEW S, NEW s \in Seq(S), NEW n \in 0 .. Len(s)
  PROVE  /\ After(s, n) \in Seq(S)
         /\ Len(After(s, n)) = Len(s) - n
         /\ \A i \in 1 .. Len(s) - n : After(s, n)[i] = s[i + n]
<1>1. Len(s) \in Nat
  BY LenProperties
<1>2. \A i \in n + 1 .. Len(s) : s[i] \in S
  BY <1>1, ElementOfSeq
<1> QED
  BY <1>1, <1>2, SubSeqProperties DEF After

\* A sequence of no element, and one of a single element.
LEMMA Singles ==
  ASSUME NEW S, NEW s \in Seq(S)
  PROVE  /\ Len(s) = 0 <=> s = <<>>
         /\ s # <<>> => 1 \in DOMAIN s /\ Head(s) = s[1]
         /\ After(s, Len(s)) = <<>>
         /\ \A e \in S : s \o <<e>> = Append(s, e)
         /\ \A e, f \in S : s \o <<e, f>> = Append(Append(s, e), f)
         /\ \A e, f, g \in S :
              s \o <<e, f, g>> = Append(Append(Append(s, e), f), g)
<1>1. Len(s) \in Nat /\ DOMAIN s = 1 .. Len(s)
  BY LenProperties
<1>2. Len(s) = 0 <=> s = <<>>
  BY EmptySeq
<1>3. s # <<>> => 1 \in DOMAIN s /\ Head(s) = s[1]
  BY <1>1, <1>2
<1>4. After(s, Len(s)) = <<>>
  BY <1>1, SubSeqEmpty DEF After
<1>5. \A e \in S : s \o <<e>> = Append(s, e)
  BY AppendIsConcat
<1>6. ASSUME NEW e \in S, NEW f \in S
      PROVE  s \o <<e, f>> = Append(Append(s, e), f)
  OBVIOUS
<1>7. ASSUME NEW e \in S, NEW f \in S, NEW g \in S
      PROVE  s \o <<e, f, g>> = Append(Append(Append(s, e), f), g)
  OBVIOUS
<1> QED
  BY <1>2, <1>3, <1>4, <1>5, <1>6, <1>7

\* Tuples, element by element.
LEMMA Tuples ==
  ASSUME NEW a, NEW b, NEW c
  PROVE  /\ Append(<<a>>, b) = <<a, b>>
         /\ Append(<<a, b>>, c) = <<a, b, c>>
<1> DEFINE S == {a, b, c}
<1>1. /\ <<>> \in Seq(S) /\ <<a>> \in Seq(S) /\ <<a, b>> \in Seq(S)
      /\ <<a, b, c>> \in Seq(S)
      /\ a \in S /\ b \in S /\ c \in S
  OBVIOUS
<1> HIDE DEF S
<1>2. /\ <<>> \o <<a>> = <<a>> /\ <<>> \o <<a, b>> = <<a, b>>
      /\ <<>> \o <<a, b, c>> = <<a, b, c>>
  BY <1>1, ConcatEmptySeq
<1>3. /\ <<>> \o <<a>> = Append(<<>>, a)
      /\ <<>> \o <<a, b>> = Append(Append(<<>>, a), b)
      /\ <<>> \o <<a, b, c>> = Append(Append(Append(<<>>, a), b), c)
  BY <1>1, Singles
<1> QED
  BY <1>2, <1>3

\* A recv that brings something.
LEMMA Taking ==
  ASSUME NEW S, NEW s \in Seq(S), NEW n \in 1 .. Len(s)
  PROVE  /\ s # <<>> /\ 1 \in DOMAIN s /\ Head(s) = s[1]
         /\ n \in Nat /\ Len(s) \in Nat /\ Len(After(s, n)) = Len(s) - n
         /\ After(s, n) \in Seq(S)
         /\ \A i \in DOMAIN After(s, n) :
              i + n \in DOMAIN s /\ After(s, n)[i] = s[i + n] /\ i \in Nat \ {0}
         /\ n = Len(s) => After(s, n) = <<>>
<1>1. Len(s) \in Nat /\ DOMAIN s = 1 .. Len(s)
  BY LenProperties
<1>2. /\ After(s, n) \in Seq(S)
      /\ Len(After(s, n)) = Len(s) - n
      /\ \A i \in 1 .. Len(s) - n : After(s, n)[i] = s[i + n]
  <2>1. n \in 0 .. Len(s)
    BY <1>1
  <2> QED
    BY <2>1, AfterProperties
<1>3. DOMAIN After(s, n) = 1 .. Len(s) - n
  BY <1>2, LenProperties
<1>4. \A i \in DOMAIN After(s, n) :
        i + n \in DOMAIN s /\ After(s, n)[i] = s[i + n] /\ i \in Nat \ {0}
  BY <1>1, <1>2, <1>3
<1>5. s # <<>>
  BY <1>1, EmptySeq
<1>6. 1 \in DOMAIN s /\ Head(s) = s[1]
  BY <1>5, Singles
<1>7. n = Len(s) => After(s, n) = <<>>
  BY Singles
<1>8. n \in Nat
  BY <1>1
<1> QED
  BY <1>1, <1>2, <1>4, <1>5, <1>6, <1>7, <1>8

\* One line taken.
LEMMA TakingOne ==
  ASSUME NEW S, NEW s \in Seq(S), s # <<>>
  PROVE  /\ 1 \in DOMAIN s /\ Head(s) = s[1] /\ Head(s) \in S
         /\ Tail(s) \in Seq(S) /\ Len(s) \in Nat /\ Len(Tail(s)) = Len(s) - 1
         /\ \A i \in DOMAIN Tail(s) :
              i + 1 \in DOMAIN s /\ Tail(s)[i] = s[i + 1] /\ i \in Nat \ {0}
         /\ \A i \in DOMAIN s :
              i = 1 \/ (i - 1 \in DOMAIN Tail(s) /\ s[i] = Tail(s)[i - 1])
<1>1. Len(s) \in Nat /\ DOMAIN s = 1 .. Len(s) /\ Len(s) # 0
  BY LenProperties, EmptySeq
<1>2. /\ Head(s) \in S /\ Tail(s) \in Seq(S)
      /\ Len(Tail(s)) = Len(s) - 1
      /\ \A i \in 1 .. Len(Tail(s)) : Tail(s)[i] = s[i + 1]
  BY HeadTailProperties
<1>3. DOMAIN Tail(s) = 1 .. Len(s) - 1
  BY <1>2, LenProperties
<1> QED
  BY <1>1, <1>2, <1>3, Singles

\* One line sent.
LEMMA Sending ==
  ASSUME NEW S, NEW s \in Seq(S), NEW e \in S
  PROVE  /\ Append(s, e) \in Seq(S) /\ Append(s, e) # <<>>
         /\ Len(s) \in Nat /\ Len(Append(s, e)) = Len(s) + 1
         /\ \A i \in DOMAIN Append(s, e) :
              \/ i \in DOMAIN s /\ Append(s, e)[i] = s[i]
              \/ i = Len(s) + 1 /\ Append(s, e)[i] = e
         /\ Len(s) + 1 \in DOMAIN Append(s, e)
         /\ Append(s, e)[Len(s) + 1] = e
         /\ \A i \in DOMAIN s : i \in DOMAIN Append(s, e) /\ Append(s, e)[i] = s[i]
<1>1. Len(s) \in Nat /\ DOMAIN s = 1 .. Len(s)
  BY LenProperties
<1>2. /\ Append(s, e) \in Seq(S) /\ Append(s, e) # <<>>
      /\ Len(Append(s, e)) = Len(s) + 1
      /\ \A i \in 1 .. Len(s) : Append(s, e)[i] = s[i]
      /\ Append(s, e)[Len(s) + 1] = e
  BY AppendProperties
<1>3. DOMAIN Append(s, e) = 1 .. Len(s) + 1
  BY <1>2, LenProperties
<1> QED
  BY <1>1, <1>2, <1>3

\* What the fields of a line are.
LEMMA LineFields ==
  ASSUME NEW l \in DownLines
  PROVE  /\ l.line = "HINT" => l.team \in Team
         /\ l.line = "GAME_OVER" => l.team \in Team
         /\ l.line = "TURN_UPDATE" =>
              /\ l.team \in Team \cup {2} /\ l.phase \in {0, 1}
              /\ l.red \in Nat /\ l.blue \in Nat
         /\ l.line = "CARD_UPDATE" => l.word \in Word
         /\ l.line = "ALL_CARDS" => l.used \subseteq Word
         /\ CardsOf(l) \subseteq Word
BY DEF DownLines, CardsOf

\* A line makes a picture of a picture.
LEMMA HeardType ==
  ASSUME NEW x \in Pictures, NEW l \in DownLines
  PROVE  Heard(x, l) \in Pictures
<1> USE LineFields
<1>1. x.used \cup CardsOf(l) \subseteq Word
  BY DEF Pictures
<1> QED
  BY <1>1 DEF Pictures, Heard, Team

\* No line leads a picture to itself.
LEMMA LeadsNowhere ==
  ASSUME NEW x \in Pictures
  PROVE  /\ Leads(x, <<>>, x)
         /\ \A y : Leads(x, <<>>, y) => y = x
<1>1. Leads(x, <<>>, x)
  <2> USE DEF Leads
  <2>1. <<x>> \in Seq(Pictures) /\ Len(<<x>>) = 1 /\ <<x>>[1] = x
    OBVIOUS
  <2>2. Len(<<>>) = 0 /\ 1 .. 0 = {}
    OBVIOUS
  <2> WITNESS <<x>> \in Seq(Pictures)
  <2> QED
    BY <2>1, <2>2
<1>2. ASSUME NEW y, Leads(x, <<>>, y)
      PROVE  y = x
  BY <1>2 DEF Leads
<1> QED
  BY <1>1, <1>2

\* One line more at the end.
LEMMA LeadsFurther ==
  ASSUME NEW first, NEW lines \in Seq(DownLines), NEW x \in Pictures,
         NEW l \in DownLines, Leads(first, lines, x)
  PROVE  Leads(first, Append(lines, l), Heard(x, l))
<1>1. PICK p \in Seq(Pictures) :
        /\ Len(p) = Len(lines) + 1
        /\ p[1] = first
        /\ p[Len(p)] = x
        /\ \A k \in 1 .. Len(lines) : p[k + 1] = Heard(p[k], lines[k])
  BY DEF Leads
<1> DEFINE q == Append(p, Heard(x, l))
           more == Append(lines, l)
<1>2. Len(lines) \in Nat /\ Len(p) \in Nat
  BY LenProperties
<1>3. /\ q \in Seq(Pictures)
      /\ Len(q) = Len(p) + 1
      /\ \A i \in 1 .. Len(p) : q[i] = p[i]
      /\ q[Len(p) + 1] = Heard(x, l)
  BY HeardType, AppendProperties
<1>4. /\ Len(more) = Len(lines) + 1
      /\ \A i \in 1 .. Len(lines) : more[i] = lines[i]
      /\ more[Len(lines) + 1] = l
  BY AppendProperties
<1> HIDE DEF q, more
<1>5. Len(q) = Len(more) + 1 /\ q[1] = first /\ q[Len(q)] = Heard(x, l)
  BY <1>1, <1>2, <1>3, <1>4
<1>6. ASSUME NEW k \in 1 .. Len(more)
      PROVE  q[k + 1] = Heard(q[k], more[k])
  <2>1. CASE k \in 1 .. Len(lines)
    <3>1. k \in 1 .. Len(p) /\ k + 1 \in 1 .. Len(p)
      BY <1>1, <1>2, <2>1
    <3> QED
      BY <1>1, <1>3, <1>4, <2>1, <3>1
  <2>2. CASE k = Len(lines) + 1
    <3>1. k = Len(p) /\ k \in 1 .. Len(p)
      BY <1>1, <1>2, <2>2
    <3> QED
      BY <1>1, <1>3, <1>4, <2>2, <3>1
  <2> QED
    BY <1>2, <1>4, <2>1, <2>2
<1> QED
  BY <1>3, <1>5, <1>6 DEF Leads, more

\* One line less at the beginning.
LEMMA LeadsOn ==
  ASSUME NEW first, NEW lines \in Seq(DownLines), NEW x,
         lines # <<>>, Leads(first, lines, x)
  PROVE  Leads(Heard(first, Head(lines)), Tail(lines), x)
<1>1. PICK p \in Seq(Pictures) :
        /\ Len(p) = Len(lines) + 1
        /\ p[1] = first
        /\ p[Len(p)] = x
        /\ \A k \in 1 .. Len(lines) : p[k + 1] = Heard(p[k], lines[k])
  BY DEF Leads
<1> DEFINE q == Tail(p)
           rest == Tail(lines)
<1>2. Len(lines) \in Nat \ {0} /\ Len(p) \in Nat /\ p # <<>>
  BY <1>1, LenProperties, EmptySeq
<1>3. /\ q \in Seq(Pictures)
      /\ Len(q) = Len(p) - 1
      /\ \A i \in 1 .. Len(q) : q[i] = p[i + 1]
  BY <1>2, HeadTailProperties
<1>4. /\ Len(rest) = Len(lines) - 1
      /\ \A i \in 1 .. Len(rest) : rest[i] = lines[i + 1]
      /\ Head(lines) = lines[1]
  BY <1>2, HeadTailProperties
<1> HIDE DEF q, rest
<1>5. Len(q) = Len(rest) + 1 /\ q[Len(q)] = x
  BY <1>1, <1>2, <1>3, <1>4
<1>6. q[1] = Heard(first, Head(lines))
  BY <1>1, <1>2, <1>3, <1>4
<1>7. ASSUME NEW k \in 1 .. Len(rest)
      PROVE  q[k + 1] = Heard(q[k], rest[k])
  <2>1. k + 1 \in 1 .. Len(lines) /\ k \in 1 .. Len(q) /\ k + 1 \in 1 .. Len(q)
    BY <1>1, <1>2, <1>3, <1>4
  <2> QED
    BY <1>1, <1>3, <1>4, <2>1
<1> QED
  BY <1>3, <1>5, <1>6, <1>7 DEF Leads, rest

\* Scores count cards.
LEMMA ScoreNat ==
  ASSUME NEW team, NEW words \in SUBSET Word
  PROVE  Score(team, words) \in Nat
<1>1. {w \in words : layout[w] = Colour(team)} \subseteq Word
  OBVIOUS
<1>2. IsFiniteSet({w \in words : layout[w] = Colour(team)})
  BY <1>1, ScreenAssumption, FS_Subset
<1> QED
  BY <1>2, FS_CardinalityType DEF Score

----------------------------------------------------------------------------
(* The start, and the steps away from the game.                            *)

\* The program starts in the invariant.
LEMMA CInvInit == Init => CInv
<1> SUFFICES ASSUME Init
             PROVE  CInv
  OBVIOUS
<1>1. TypeOK
  <2>1. BlankView \in Views
    BY DEF BlankView, Views, NoTeam
  <2>2. me \in Roles
    BY DEF Init, Roles, Team
  <2>3. down \in Seq(DownLines) /\ up \in Seq(UpLines)
    BY EmptySeq DEF Init
  <2> QED
    BY <2>1, <2>2, <2>3
    DEF Init, RulesInit, TypeOK, Team, Screens, Modes, NoInput
<1>2. Tidy
  BY DEF Init, RulesInit, Tidy, CopyInGame, AtRest, TokenLast, ProfileLast,
         Matching, AtStart
<1>3. Fresh /\ Foreseen
  BY DEF Init, Fresh, Foreseen
<1> QED
  BY <1>1, <1>2, <1>3 DEF CInv

\* A step of the accept loop or of a form.
LEMMA FormStep ==
  ASSUME CInv, UNCHANGED screenVars,
         accepting' \in {"tls", "tcp"},
         tls' \in {"backlog", "served"}, tcp' \in {"none", "backlog", "served"},
         filled' \subseteq Fields, login_scene' \in {"login", "main", "signup"},
         renamed' \in BOOLEAN
  PROVE  CInv'
<1> USE DEF CInv, screenVars, serverVars, rulesVars, clientVars, inputVars
<1>1. TypeOK'
  BY DEF TypeOK
<1>2. Tidy'
  BY DEF Tidy, CopyInGame, AtRest, TokenLast, ProfileLast, Matching, AtStart,
         Score, FirstTurn
<1>3. Fresh'
  BY DEF Fresh
<1>4. Foreseen'
  BY DEF Foreseen, Agrees, CardsToCome, CardsAsked, Picture, Score, Phase
<1> QED
  BY <1>1, <1>2, <1>3, <1>4

\* A step from one screen to another, away from the game.
LEMMA ScreenStep ==
  ASSUME CInv, SameGame, UNCHANGED <<down, up, connectionVars>>,
         scene \notin {"asking", "error", "waiting"},
         scene' \in Screens \ {"waiting", "starting", "game"},
         scene' \in {"connect", "login", "signup", "lobby", "invalid"} =>
           scene \in {"connect", "login", "signup", "lobby", "invalid"},
         filled' \subseteq Fields, login_scene' \in {"login", "main", "signup"},
         renamed' \in BOOLEAN
  PROVE  CInv'
<1> USE DEF CInv, SameGame, serverVars, rulesVars, inputVars, connectionVars
<1>1. TypeOK'
  BY DEF TypeOK
<1>2. Tidy'
  BY DEF Tidy, CopyInGame, AtRest, TokenLast, ProfileLast, Matching, AtStart
<1>3. Fresh' /\ Foreseen'
  BY DEF Fresh, Foreseen
<1> QED
  BY <1>1, <1>2, <1>3

\* TOKEN is sent from a screen on which none was on the way.
LEMMA EnterMainStep == CInv /\ EnterMain => CInv'
<1> SUFFICES ASSUME CInv, EnterMain
             PROVE  CInv'
  OBVIOUS
<1> USE DEF CInv, EnterMain, Show, SameGame, serverVars, rulesVars, inputVars,
            formVars
<1> DEFINE token == [line |-> "TOKEN"]
<1>1. token \in UpLines /\ up \in Seq(UpLines)
  BY DEF UpLines, TypeOK
<1>2. /\ up' \in Seq(UpLines) /\ Len(up) \in Nat /\ Len(up') = Len(up) + 1
      /\ \A i \in DOMAIN up' : \/ i \in DOMAIN up /\ up'[i] = up[i]
                               \/ i = Len(up) + 1 /\ up'[i] = token
  BY <1>1, Sending
<1>3. TypeOK'
  BY <1>2 DEF TypeOK, Screens
<1>4. TokenLast'
  BY <1>2 DEF TokenLast, Tidy
<1>5. ProfileLast'
  BY DEF ProfileLast, Tidy
<1>6. Tidy'
  BY <1>4, <1>5 DEF Tidy, CopyInGame, AtRest, Matching, AtStart
<1>7. Fresh' /\ Foreseen'
  BY DEF Fresh, Foreseen
<1> QED
  BY <1>3, <1>6, <1>7

\* QUERY_WAIT is sent from the lobby, where nothing was under way.
LEMMA PressMatchStep == CInv /\ PressMatch => CInv'
<1> SUFFICES ASSUME CInv, PressMatch
             PROVE  CInv'
  OBVIOUS
<1> USE DEF CInv, PressMatch, Show, SameGame, serverVars, rulesVars, inputVars,
            formVars, connectionVars
<1>1. session = "none" /\ copy = NoCopy /\ up = <<>> /\ down = <<>>
  BY DEF Tidy, AtRest, CopyInGame
<1>2. up' = <<[line |-> "QUERY_WAIT"]>>
  BY <1>1
<1>3. up' \in Seq(UpLines)
  <2>1. [line |-> "QUERY_WAIT"] \in UpLines
    BY DEF UpLines
  <2>2. up \in Seq(UpLines)
    BY DEF TypeOK
  <2> QED
    BY <2>1, <2>2, Sending
<1>4. TypeOK'
  BY <1>3 DEF TypeOK, Screens
<1>5. Tidy'
  BY <1>1, <1>2
  DEF Tidy, CopyInGame, AtRest, TokenLast, ProfileLast, Matching, AtStart
<1>6. Fresh' /\ Foreseen'
  BY DEF Fresh, Foreseen
<1> QED
  BY <1>4, <1>5, <1>6

\* What is taken for the answer is the last line under way, if it is one.
LEMMA ReadProfileStep == CInv /\ ReadProfile => CInv'
<1> SUFFICES ASSUME CInv, ReadProfile
             PROVE  CInv'
  OBVIOUS
<1> USE DEF CInv, Show, SameGame, serverVars, rulesVars, inputVars,
            connectionVars
<1>1. PICK n \in 1 .. Len(down) :
        /\ down' = After(down, n)
        /\ scene' = IF Head(down).line = "PROFILE" THEN "lobby"
                    ELSE IF Head(down).line = "INVALID_TOKEN" /\ n = 1
                         THEN "invalid" ELSE "error"
  BY DEF ReadProfile
<1>2. down \in Seq(DownLines)
  BY DEF TypeOK
<1>3. /\ n \in Nat /\ Len(down) \in Nat
      /\ down' \in Seq(DownLines) /\ Len(down') = Len(down) - n
      /\ \A i \in DOMAIN down' : /\ i + n \in DOMAIN down
                                 /\ down'[i] = down[i + n]
                                 /\ i \in Nat \ {0}
      /\ n = Len(down) => down' = <<>>
  BY <1>1, <1>2, Taking
<1>4. down # <<>> /\ 1 \in DOMAIN down /\ Head(down) = down[1]
  BY <1>2, Taking
<1>5. Head(down).line \in Profiles =>
        Len(down) = 1 /\ down' = <<>> /\ up = <<>> /\ session = "none"
  BY <1>1, <1>3, <1>4 DEF Tidy, ProfileLast, Profiles
<1>6. TypeOK'
  <2>1. scene' \in Screens
    BY <1>1 DEF Screens
  <2>2. /\ renamed' \in BOOLEAN
        /\ UNCHANGED <<serverVars, me, view, inputVars, up, connectionVars,
                       filled, login_scene>>
    BY DEF ReadProfile
  <2>3. down' \in Seq(DownLines)
    BY <1>3
  <2> QED
    BY <2>1, <2>2, <2>3 DEF TypeOK
<1>7. ProfileLast'
  <2>1. SUFFICES ASSUME NEW i \in DOMAIN down',
                        down'[i].line \in Profiles
                 PROVE  (/\ scene \in {"asking", "error"} /\ i = Len(down)
                         /\ session = "none" /\ up = <<>>)'
    BY DEF ProfileLast
  <2>2. i + n \in DOMAIN down /\ down'[i] = down[i + n]
    BY <1>3, <2>1
  <2>3. i + n = Len(down) /\ session = "none" /\ up = <<>>
    BY <2>1, <2>2 DEF Tidy, ProfileLast
  <2>4. scene' = "error"
    BY <1>1, <1>5, <2>1 DEF Profiles
  <2> QED
    BY <1>3, <2>1, <2>3, <2>4 DEF ReadProfile
<1>8. TokenLast'
  BY <1>1, <1>5 DEF Profiles, Tidy, TokenLast, ReadProfile
<1>9. Tidy'
  BY <1>1, <1>5, <1>7, <1>8
  DEF Profiles, Tidy, CopyInGame, AtRest, Matching, AtStart, ReadProfile
<1>10. Fresh'
  BY <1>1, <1>3 DEF Fresh, Within, ReadProfile
<1>11. Foreseen'
  BY <1>1 DEF Foreseen
<1> QED
  BY <1>6, <1>9, <1>10, <1>11

\* With the connection goes what was under way on it.
LEMMA CloseGameStep == CInv /\ CloseGame => CInv'
<1> SUFFICES ASSUME CInv, CloseGame
             PROVE  CInv'
  OBVIOUS
<1> USE DEF CInv, CloseGame, Show, SameGame, serverVars, rulesVars, inputVars,
            formVars
<1>1. session = "none"
  BY DEF Tidy, AtRest
<1>2. TypeOK'
  BY EmptySeq DEF TypeOK, Screens
<1>3. Tidy'
  BY <1>1 DEF Tidy, CopyInGame, AtRest, TokenLast, ProfileLast, Matching, AtStart
<1>4. Fresh' /\ Foreseen'
  BY <1>1 DEF Fresh, Foreseen
<1> QED
  BY <1>2, <1>3, <1>4

\* What a recv of the server leaves keeps TOKEN and QUERY_WAIT in place.
LEMMA TokenLastTaking ==
  ASSUME CInv, scene' = scene, NEW n \in 1 .. Len(up), up' = After(up, n)
  PROVE  up' \in Seq(UpLines) /\ TokenLast' /\ (n = Len(up) => up' = <<>>)
<1>1. up \in Seq(UpLines)
  BY DEF CInv, TypeOK
<1>2. /\ n \in Nat /\ Len(up) \in Nat
      /\ up' \in Seq(UpLines) /\ Len(up') = Len(up) - n
      /\ \A i \in DOMAIN up' : /\ i + n \in DOMAIN up /\ up'[i] = up[i + n]
                               /\ i \in Nat \ {0}
      /\ n = Len(up) => up' = <<>>
  BY <1>1, Taking
<1>3. TokenLast'
  <2>1. SUFFICES ASSUME NEW i \in DOMAIN up'
                 PROVE  /\ up'[i].line = "TOKEN" =>
                             scene' \in {"asking", "error"} /\ i = Len(up')
                        /\ up'[i].line = "QUERY_WAIT" => scene' = "waiting"
    BY DEF TokenLast
  <2>2. i + n \in DOMAIN up /\ up'[i] = up[i + n] /\ i \in Nat
    BY <1>2
  <2>3. up'[i].line = "TOKEN" => i + n = Len(up) /\ scene \in {"asking", "error"}
    BY <2>2 DEF CInv, Tidy, TokenLast
  <2>4. up'[i].line = "QUERY_WAIT" => scene = "waiting"
    BY <2>2 DEF CInv, Tidy, TokenLast
  <2> QED
    BY <1>2, <2>2, <2>3, <2>4
<1> QED
  BY <1>2, <1>3

\* The lobby's lines are read one by one; QUERY_WAIT leads to the queue.
LEMMA ServeTcpStep == CInv /\ ServeTcp => CInv'
<1> SUFFICES ASSUME CInv, ServeTcp
             PROVE  CInv'
  OBVIOUS
<1> USE DEF rulesVars, clientVars, inputVars, connectionVars, formVars
<1>1. PICK n \in 1 .. Len(up) :
        /\ up' = After(up, n)
        /\ \/ /\ Head(up).line = "QUERY_WAIT"
              /\ session' = "queued"
              /\ UNCHANGED down
           \/ /\ Head(up).line # "QUERY_WAIT"
              /\ \E answer \in TcpAnswers(Head(up).line) :
                   down' = Append(down, [line |-> answer])
              /\ UNCHANGED session
  BY DEF ServeTcp
<1>2. /\ session = "none" /\ UNCHANGED <<rulesVars, dealt, copy, missed>>
      /\ UNCHANGED <<clientVars, connectionVars, formVars>>
  BY DEF ServeTcp
<1>3. up \in Seq(UpLines) /\ down \in Seq(DownLines)
  BY DEF CInv, TypeOK
<1>4. 1 \in DOMAIN up /\ Head(up) = up[1] /\ up # <<>> /\ Len(up) \in Nat
  BY <1>3, Taking
<1>5. up' \in Seq(UpLines) /\ TokenLast' /\ (n = Len(up) => up' = <<>>)
  BY <1>1, <1>2, TokenLastTaking
<1>6. copy = NoCopy /\ missed = {} /\ revealed = {} /\ turn = Red /\ allowance = 0
  BY <1>2 DEF CInv, Tidy, CopyInGame, AtStart
<1>7. CASE Head(up).line = "QUERY_WAIT"
  <2>1. session' = "queued" /\ down' = down /\ scene = "waiting"
    BY <1>1, <1>4, <1>7 DEF CInv, Tidy, TokenLast
  <2>2. up = <<[line |-> "QUERY_WAIT"]>> /\ down = <<>>
    BY <1>2, <2>1 DEF CInv, Tidy, Matching
  <2>3. up' = <<>>
    BY <1>5, <2>2
  <2>4. TypeOK'
    BY <1>2, <1>5, <2>1 DEF CInv, TypeOK
  <2>5. Tidy'
    BY <1>2, <1>5, <1>6, <2>1, <2>2, <2>3
    DEF Tidy, CopyInGame, AtRest, ProfileLast, Matching, AtStart
  <2>6. Fresh' /\ Foreseen'
    BY <1>2, <1>6, <2>1, <2>2 DEF Within, Fresh, Foreseen
  <2> QED
    BY <2>4, <2>5, <2>6 DEF CInv
<1>8. CASE Head(up).line # "QUERY_WAIT"
  <2>1. PICK answer \in TcpAnswers(Head(up).line) :
          down' = Append(down, [line |-> answer])
    BY <1>1, <1>8
  <2>2. session' = session
    BY <1>1, <1>8
  <2> DEFINE l == [line |-> answer]
  <2>3. answer \in {"PROFILE", "INVALID_TOKEN", "ERROR"} /\ l \in DownLines
    BY DEF TcpAnswers, DownLines
  <2>4. /\ down' \in Seq(DownLines)
        /\ Len(down) \in Nat /\ Len(down') = Len(down) + 1
        /\ \A i \in DOMAIN down' : \/ i \in DOMAIN down /\ down'[i] = down[i]
                                   \/ i = Len(down) + 1 /\ down'[i] = l
    BY <1>3, <2>1, <2>3, Sending
  <2>5. TypeOK'
    BY <1>2, <1>5, <2>2, <2>4 DEF CInv, TypeOK
  <2>6. ProfileLast'
    <3>1. SUFFICES ASSUME NEW i \in DOMAIN down',
                          down'[i].line \in Profiles
                   PROVE  /\ scene' \in {"asking", "error"} /\ i = Len(down')
                          /\ session' = "none" /\ up' = <<>>
      BY DEF ProfileLast
    <3>2. i = Len(down) + 1 /\ down'[i] = l
      BY <1>4, <2>4, <3>1 DEF CInv, Tidy, ProfileLast
    <3>3. Head(up).line = "TOKEN"
      BY <3>1, <3>2 DEF TcpAnswers, Profiles
    <3>4. scene \in {"asking", "error"} /\ Len(up) = 1
      BY <1>4, <3>3 DEF CInv, Tidy, TokenLast
    <3> QED
      BY <1>2, <1>5, <2>2, <2>4, <3>2, <3>4
  <2>7. scene \notin {"connect", "login", "signup", "lobby", "invalid"}
    BY <1>4 DEF CInv, Tidy, AtRest
  <2>8. scene # "waiting"
    <3>1. scene = "waiting" => up = <<[line |-> "QUERY_WAIT"]>>
      BY <1>2 DEF CInv, Tidy, Matching
    <3> QED
      BY <1>4, <1>8, <3>1
  <2>9. Tidy'
    BY <1>2, <1>5, <1>6, <2>2, <2>6, <2>7, <2>8
    DEF Tidy, CopyInGame, AtRest, Matching, AtStart
  <2>10. Fresh' /\ Foreseen'
    BY <1>2, <2>2 DEF Fresh, Foreseen
  <2> QED
    BY <2>5, <2>9, <2>10 DEF CInv
<1> QED
  BY <1>7, <1>8

\* The session goes, and its game with it.
LEMMA ServeQuitStep == CInv /\ ServeQuit => CInv'
<1> SUFFICES ASSUME CInv, ServeQuit
             PROVE  CInv'
  OBVIOUS
<1> USE DEF clientVars, inputVars, connectionVars, formVars
<1>1. PICK n \in 1 .. Len(up) : up' = After(up, n)
  BY DEF ServeQuit
<1>2. /\ session # "none" /\ copy = NoCopy /\ session' = "none"
      /\ revealed' = {} /\ turn' = Red /\ allowance' = 0 /\ winner' = NoTeam
      /\ missed' = {}
      /\ UNCHANGED <<layout, dealt, copy, down>>
      /\ UNCHANGED <<clientVars, connectionVars, formVars>>
  BY DEF ServeQuit
<1>3. up' \in Seq(UpLines) /\ TokenLast' /\ up # <<>>
  <2>1. up \in Seq(UpLines)
    BY DEF CInv, TypeOK
  <2> QED
    BY <1>1, <1>2, <2>1, TokenLastTaking, Taking
<1>4. TypeOK'
  BY <1>2, <1>3 DEF CInv, TypeOK, Team
<1>5. Tidy'
  BY <1>2, <1>3
  DEF CInv, Tidy, CopyInGame, AtRest, ProfileLast, Matching, AtStart
<1>6. Fresh' /\ Foreseen'
  BY <1>2 DEF Fresh, Foreseen
<1> QED
  BY <1>4, <1>5, <1>6 DEF CInv

\* A room is full: the first line of the game is under way.
LEMMA StartRoomStep == CInv /\ StartRoom => CInv'
<1> SUFFICES ASSUME CInv, StartRoom
             PROVE  CInv'
  OBVIOUS
<1> USE DEF inputVars, connectionVars
<1>1. /\ session = "queued" /\ scene = "waiting" /\ session' = "registered"
      /\ dealt' \in Deals /\ me' = Recognised(dealt') /\ layout' \in Layouts
      /\ down' = Append(down, Start) /\ renamed' \in BOOLEAN
      /\ UNCHANGED <<revealed, turn, allowance, winner, copy, missed, up, scene>>
      /\ UNCHANGED <<view, inputVars, connectionVars, filled, login_scene>>
  BY DEF StartRoom, Start
<1>2. down = <<>> /\ up = <<>> /\ copy = NoCopy
  BY <1>1 DEF CInv, Tidy, Matching
<1>3. down' = <<Start>>
  BY <1>1, <1>2
<1>4. Start \in DownLines
  BY DEF Start, DownLines
<1>5. me' \in Roles
  BY <1>1, ScreenAssumption DEF Recognised, CInv, TypeOK
<1>6. TypeOK'
  <2>1. down' \in Seq(DownLines)
    BY <1>3, <1>4
  <2> QED
    BY <1>1, <1>5, <2>1 DEF CInv, TypeOK
<1>7. Tidy'
  BY <1>1, <1>2, <1>3
  DEF Profiles, CInv, Tidy, CopyInGame, AtRest, TokenLast, ProfileLast, Matching, AtStart,
      Start
<1>8. Fresh'
  BY <1>1, <1>2, <1>3 DEF CInv, Fresh, Within, CardsOf, Start
<1>9. Foreseen'
  BY <1>1 DEF Foreseen
<1> QED
  BY <1>6, <1>7, <1>8, <1>9 DEF CInv

----------------------------------------------------------------------------
(* The server's steps in a session.                                        *)

\* A line more brings its cards, and no profile if it is none.
LEMMA OneMore ==
  ASSUME NEW s \in Seq(DownLines), NEW l \in DownLines,
         l.line \notin Profiles, NoProfile(s)
  PROVE  /\ Append(s, l) \in Seq(DownLines) /\ NoProfile(Append(s, l))
         /\ \A cards : Within(s, cards) /\ CardsOf(l) \subseteq cards =>
              Within(Append(s, l), cards)
BY Sending DEF NoProfile, Within

\* What the client sees does not depend on the lines to come.
LEMMA SamePicture ==
  ASSUME UNCHANGED <<scene, view>>
  PROVE  Picture' = Picture
BY DEF Picture, Shown

\* To a client with a session no answer to TOKEN is under way.
LEMMA InSession ==
  ASSUME CInv, session # "none"
  PROVE  /\ NoProfile(down) /\ down \in Seq(DownLines) /\ up \in Seq(UpLines)
         /\ scene \notin {"connect", "login", "signup", "lobby", "invalid"}
BY DEF CInv, Tidy, ProfileLast, NoProfile, AtRest, TypeOK

\* What a step of a game leaves under way to the server: TOKEN and QUERY_WAIT
\* in place, and the request for the cards.
Left ==
  /\ up' \in Seq(UpLines) /\ TokenLast' /\ scene # "waiting"
  /\ CardsAsked => CardsAsked'

\* What the server reads is gone from what is under way to it.
LEMMA Received ==
  ASSUME CInv, NEW line, Receive(line), scene' = scene
  PROVE  /\ up # <<>> /\ Head(up) \in UpLines /\ Head(up).line = line
         /\ up' \in Seq(UpLines) /\ TokenLast' /\ scene # "waiting"
         /\ line # "GET_ALL_CARDS" => Left
<1>1. /\ session # "none" /\ up # <<>> /\ Head(up).line = line
      /\ up' = Tail(up)
  BY DEF Receive
<1>2. up \in Seq(UpLines)
  BY DEF CInv, TypeOK
<1>3. /\ 1 \in DOMAIN up /\ Head(up) = up[1] /\ Head(up) \in UpLines
      /\ up' \in Seq(UpLines) /\ Len(up) \in Nat /\ Len(up') = Len(up) - 1
      /\ \A i \in DOMAIN up' :
           i + 1 \in DOMAIN up /\ up'[i] = up[i + 1] /\ i \in Nat \ {0}
      /\ \A i \in DOMAIN up :
           i = 1 \/ (i - 1 \in DOMAIN up' /\ up[i] = up'[i - 1])
  BY <1>1, <1>2, TakingOne
<1>4. scene # "waiting"
  BY <1>1 DEF CInv, Tidy, Matching
<1>5. TokenLast'
  <2>1. SUFFICES ASSUME NEW i \in DOMAIN up'
                 PROVE  /\ up'[i].line = "TOKEN" =>
                             scene' \in {"asking", "error"} /\ i = Len(up')
                        /\ up'[i].line = "QUERY_WAIT" => scene' = "waiting"
    BY DEF TokenLast
  <2>2. i + 1 \in DOMAIN up /\ up'[i] = up[i + 1] /\ i \in Nat
    BY <1>3
  <2>3. up'[i].line = "TOKEN" => i + 1 = Len(up) /\ scene \in {"asking", "error"}
    BY <2>2 DEF CInv, Tidy, TokenLast
  <2>4. up'[i].line = "QUERY_WAIT" => scene = "waiting"
    BY <2>2 DEF CInv, Tidy, TokenLast
  <2> QED
    BY <1>3, <2>2, <2>3, <2>4
<1>6. line # "GET_ALL_CARDS" /\ CardsAsked => CardsAsked'
  BY <1>1, <1>3 DEF CardsAsked
<1> QED
  BY <1>1, <1>3, <1>4, <1>5, <1>6 DEF Left

\* A step of the game thread that leaves the session on or over.
LEMMA GameStep ==
  ASSUME CInv, Left, session # "none", session' \in {"open", "over"},
         UNCHANGED <<layout, dealt, copy, missed, clientVars, connectionVars,
                     formVars>>,
         revealed' \in SUBSET Word, revealed \subseteq revealed',
         turn' \in Team, allowance' \in Nat, winner' \in Team \cup {NoTeam},
         down' \in Seq(DownLines), NoProfile(down'), Within(down', revealed'),
         Foreseen'
  PROVE  CInv'
<1> USE DEF Left, clientVars, inputVars, connectionVars, formVars
<1>1. TypeOK'
  BY DEF CInv, TypeOK
<1>2. ProfileLast'
  BY DEF ProfileLast, NoProfile
<1>3. Tidy'
  BY <1>2, InSession DEF CInv, Tidy, CopyInGame, AtRest, Matching, AtStart
<1>4. Fresh'
  BY DEF CInv, Fresh
<1> QED
  BY <1>1, <1>3, <1>4 DEF CInv

\* The lines the game thread sends, in a game of which red' is known.
LEMMA TurnLine ==
  ASSUME NEW team \in Team \cup {2}, revealed' \in SUBSET Word
  PROVE  /\ TurnUpdate(team) \in DownLines
         /\ TurnUpdate(team).line \notin Profiles
         /\ CardsOf(TurnUpdate(team)) = {}
<1>1. Score(Red, revealed') \in Nat /\ Score(Blue, revealed') \in Nat
  BY ScoreNat
<1>2. Phase' \in {0, 1}
  BY DEF Phase
<1> QED
  BY <1>1, <1>2 DEF TurnUpdate, DownLines, Profiles, CardsOf

\* The picture after a line of the turn.
LEMMA TurnHeard ==
  ASSUME NEW x \in Pictures, NEW team \in Team \cup {2}, UNCHANGED layout
  PROVE  LET y == Heard(x, TurnUpdate(team))
         IN /\ y.used = x.used /\ y.cards = x.cards
            /\ y.red = Score(Red, revealed)' /\ y.blue = Score(Blue, revealed)'
            /\ team = 2 => y.turn = x.turn /\ y.phase = x.phase
            /\ team # 2 => y.turn = team /\ y.phase = Phase'
<1> DEFINE l == TurnUpdate(team)
<1>1. /\ l.line = "TURN_UPDATE" /\ l.team = team /\ l.phase = Phase'
      /\ l.red = Score(Red, revealed)' /\ l.blue = Score(Blue, revealed)'
      /\ CardsOf(l) = {}
  BY DEF TurnUpdate, CardsOf, Score
<1> HIDE DEF l
<1>2. x.used \cup {} = x.used /\ x.cards \in BOOLEAN
  BY DEF Pictures
<1> QED
  BY <1>1, <1>2 DEF Heard, l

\* A hint, and the turn's next phase.
LEMMA HintStep ==
  ASSUME CInv, NEW n \in HintNumbers, Hint(n), Left,
         UNCHANGED <<connectionVars, formVars>>
  PROVE  CInv'
<1> DEFINE l1 == [line |-> "HINT", team |-> turn]
           l2 == TurnUpdate(turn)
<1>1. /\ session = "open" /\ session' = "open"
      /\ allowance' = IF n < 1 THEN 1 ELSE n
      /\ UNCHANGED <<layout, revealed, turn, winner, dealt, copy, missed>>
      /\ UNCHANGED clientVars
      /\ down' = down \o <<l1, l2>>
  BY DEF Hint, GiveHint, Broadcast
<1>2. revealed' \in SUBSET Word /\ turn \in Team /\ winner \in Team \cup {NoTeam}
  BY <1>1 DEF CInv, TypeOK
<1>3. allowance' \in Nat
  <2>1. n \in Int
    BY ScreenAssumption
  <2> QED
    BY <1>1, <2>1
<1>4. l1 \in DownLines /\ l1.line \notin Profiles /\ CardsOf(l1) = {}
  BY <1>2 DEF DownLines, Profiles, CardsOf
<1>5. l2 \in DownLines /\ l2.line \notin Profiles /\ CardsOf(l2) = {}
  BY <1>2, TurnLine
<1>6. down \in Seq(DownLines) /\ NoProfile(down) /\ Within(down, revealed)
  BY <1>1, InSession DEF CInv, Fresh
<1> HIDE DEF l1, l2
<1> DEFINE d == Append(down, l1)
<1>7. d \in Seq(DownLines) /\ NoProfile(d) /\ Within(d, revealed)
  BY <1>4, <1>6, OneMore
<1>8. down' = Append(d, l2)
  BY <1>1, <1>4, <1>5, <1>6, Singles
<1> HIDE DEF d
<1>9. down' \in Seq(DownLines) /\ NoProfile(down') /\ Within(down', revealed')
  BY <1>1, <1>5, <1>7, <1>8, OneMore
<1>10. Foreseen'
  <2>1. SUFFICES ASSUME scene \in {"starting", "game"}
                 PROVE  \E z \in Pictures :
                          Leads(Picture', down', z) /\ Agrees(z)' /\ CardsToCome(z)'
    BY <1>1 DEF Foreseen, clientVars
  <2>2. PICK x \in Pictures : Leads(Picture, down, x) /\ Agrees(x) /\ CardsToCome(x)
    BY <1>1, <2>1 DEF CInv, Foreseen
  <2> DEFINE y == Heard(x, l1)
             z == Heard(y, l2)
  <2>3. y \in Pictures /\ Leads(Picture, d, y)
    BY <1>4, <1>6, <2>2, HeardType, LeadsFurther DEF d
  <2>4. z \in Pictures /\ Leads(Picture, down', z)
    BY <1>5, <1>7, <1>8, <2>3, HeardType, LeadsFurther
  <2>5. y.used = x.used /\ y.cards = x.cards
    <3>1. l1.line = "HINT"
      BY DEF l1
    <3>2. x.used \cup {} = x.used /\ x.cards \in BOOLEAN
      BY DEF Pictures
    <3> QED
      BY <1>4, <3>1, <3>2 DEF Heard
  <2> HIDE DEF y
  <2>6. turn \in Team \cup {2} /\ turn # 2
    BY <1>2 DEF Team, Red, Blue
  <2>7. /\ z.used = y.used /\ z.cards = y.cards
        /\ z.red = Score(Red, revealed)' /\ z.blue = Score(Blue, revealed)'
        /\ z.turn = turn /\ z.phase = Phase'
    BY <1>1, <2>3, <2>6, TurnHeard DEF l2
  <2> HIDE DEF z
  <2>8. \E v \in Pictures :
          /\ Leads(Picture, down', v)
          /\ v.used = x.used /\ v.cards = x.cards
          /\ v.red = Score(Red, revealed)' /\ v.blue = Score(Blue, revealed)'
          /\ v.turn = turn /\ v.phase = Phase'
    BY <2>4, <2>5, <2>7
  <2>9. PICK v \in Pictures :
          /\ Leads(Picture, down', v)
          /\ v.used = x.used /\ v.cards = x.cards
          /\ v.red = Score(Red, revealed)' /\ v.blue = Score(Blue, revealed)'
          /\ v.turn = turn /\ v.phase = Phase'
    BY <2>8
  <2>10. Agrees(v)'
    BY <1>1, <2>2, <2>9 DEF Agrees
  <2>11. CardsToCome(v)'
    BY <1>1, <2>2, <2>9 DEF CardsToCome, Left, clientVars
  <2>12. Picture' = Picture
    BY <1>1, SamePicture DEF clientVars
  <2> QED
    BY <2>9, <2>10, <2>11, <2>12
<1> QED
  BY <1>1, <1>2, <1>3, <1>9, <1>10, GameStep

\* A guess passes the turn or leaves it as it is, and ends the game if it
\* uncovers the assassin.
LEMMA GuessEffects ==
  ASSUME TypeOK, NEW w \in Word, Guess(w)
  PROVE  /\ revealed' = revealed \cup {w} /\ w \notin revealed
         /\ layout' = layout
         /\ turn' \in Team /\ allowance' \in Nat /\ winner' \in Team \cup {NoTeam}
         /\ layout[w] = "assassin" => winner' # NoTeam
         /\ layout[w] # "assassin" =>
              allowance' = 0 \/ (turn' = turn /\ allowance' = allowance)
         /\ allowance # 0
<1>1. /\ revealed' = revealed \cup {w} /\ w \notin revealed /\ layout' = layout
      /\ allowance \in Nat \ {0} /\ turn \in Team
      /\ Other(turn) \in Team
  BY DEF Guess, TypeOK, Team, Red, Blue, Other
<1>2. CASE GuessCard(w)
  <2>1. winner' \in Team \cup {NoTeam} /\ layout[w] # "assassin"
    BY <1>2 DEF GuessCard, GuessRight, GuessLast, Colour
  <2>2. allowance' = 0 \/ (turn' = turn /\ allowance' = allowance)
    BY <1>2 DEF GuessCard, GuessRight, GuessLast
  <2>3. turn' \in Team
    BY <1>1, <1>2 DEF GuessCard, GuessRight, GuessLast
  <2> QED
    BY <1>1, <2>1, <2>2, <2>3
<1>3. CASE GuessAssassin(w)
  <2>1. layout[w] = "assassin" /\ winner' \in Team /\ NoTeam \notin Team
    BY <1>1, <1>3 DEF GuessAssassin, Team, Red, Blue, NoTeam
  <2> QED
    BY <1>1, <1>3, <2>1 DEF GuessAssassin
<1> QED
  BY <1>2, <1>3 DEF Guess

\* The lines of a guess: the card, then the turn, then the winner.
LEMMA TurnedLines ==
  ASSUME NEW w \in Word
  PROVE  LET c == [line |-> "CARD_UPDATE", word |-> w]
             t == TurnUpdate(IF allowance' = 0 THEN turn' ELSE 2)
             o == [line |-> "GAME_OVER", team |-> winner']
         IN /\ layout[w] # "assassin" /\ winner' = NoTeam => Turned(w) = <<c, t>>
            /\ layout[w] # "assassin" /\ winner' # NoTeam => Turned(w) = <<c, t, o>>
            /\ layout[w] = "assassin" /\ winner' # NoTeam => Turned(w) = <<c, o>>
<1> DEFINE c == [line |-> "CARD_UPDATE", word |-> w]
           t == TurnUpdate(IF allowance' = 0 THEN turn' ELSE 2)
           o == [line |-> "GAME_OVER", team |-> winner']
<1>1. Turned(w) = <<c>> \o (IF layout[w] = "assassin" THEN <<>> ELSE <<t>>)
                     \o (IF winner' = NoTeam THEN <<>> ELSE <<o>>)
  BY DEF Turned
<1> HIDE DEF c, t, o
<1>2. /\ (<<c>> \o <<t>>) \o <<>> = <<c, t>>
      /\ (<<c>> \o <<t>>) \o <<o>> = <<c, t, o>>
      /\ (<<c>> \o <<>>) \o <<o>> = <<c, o>>
  <2> DEFINE S == {c, t, o}
  <2>1. /\ <<c>> \in Seq(S) /\ <<c, t>> \in Seq(S)
        /\ c \in S /\ t \in S /\ o \in S
    OBVIOUS
  <2> HIDE DEF S
  <2>2. <<c>> \o <<t>> = Append(<<c>>, t) /\ <<c>> \o <<o>> = Append(<<c>>, o)
    BY <2>1, Singles
  <2>3. <<c, t>> \o <<o>> = Append(<<c, t>>, o)
    BY <2>1, Singles
  <2>4. /\ Append(<<c>>, t) = <<c, t>> /\ Append(<<c>>, o) = <<c, o>>
        /\ Append(<<c, t>>, o) = <<c, t, o>>
    BY Tuples
  <2>5. <<c, t>> \o <<>> = <<c, t>> /\ <<c>> \o <<>> = <<c>>
    BY <2>1, ConcatEmptySeq
  <2> QED
    BY <2>2, <2>3, <2>4, <2>5
<1>3. /\ layout[w] # "assassin" /\ winner' = NoTeam => Turned(w) = <<c, t>>
      /\ layout[w] # "assassin" /\ winner' # NoTeam => Turned(w) = <<c, t, o>>
      /\ layout[w] = "assassin" /\ winner' # NoTeam => Turned(w) = <<c, o>>
  BY <1>1, <1>2
<1> QED
  BY <1>3 DEF c, t, o

\* A guess: the card, and what follows from it.
LEMMA AnswerStep ==
  ASSUME CInv, NEW w \in Word, Answer(w), Left,
         UNCHANGED <<connectionVars, formVars>>
  PROVE  CInv'
<1> DEFINE c == [line |-> "CARD_UPDATE", word |-> w]
           t == TurnUpdate(IF allowance' = 0 THEN turn' ELSE 2)
           o == [line |-> "GAME_OVER", team |-> winner']
<1>1. /\ session = "open" /\ Guess(w)
      /\ session' = IF winner' = NoTeam THEN "open" ELSE "over"
      /\ UNCHANGED <<dealt, copy, missed>> /\ UNCHANGED clientVars
      /\ down' = down \o Turned(w)
  BY DEF Answer, Broadcast
<1>2. TypeOK /\ revealed \in SUBSET Word
  BY DEF CInv, TypeOK
<1>3. /\ revealed' = revealed \cup {w} /\ w \notin revealed /\ layout' = layout
      /\ turn' \in Team /\ allowance' \in Nat /\ winner' \in Team \cup {NoTeam}
      /\ layout[w] = "assassin" => winner' # NoTeam
      /\ layout[w] # "assassin" =>
           allowance' = 0 \/ (turn' = turn /\ allowance' = allowance)
      /\ allowance # 0
  BY <1>1, <1>2, GuessEffects
<1>4. revealed' \in SUBSET Word
  BY <1>2, <1>3
<1>5. /\ c \in DownLines /\ c.line \notin Profiles /\ c.line = "CARD_UPDATE"
      /\ CardsOf(c) = {w} /\ CardsOf(c) \subseteq revealed'
  BY <1>3 DEF DownLines, Profiles, CardsOf
<1>6. t \in DownLines /\ t.line \notin Profiles /\ CardsOf(t) = {}
  BY <1>3, <1>4, TurnLine
<1>7. winner' # NoTeam =>
        o \in DownLines /\ o.line \notin Profiles /\ CardsOf(o) = {}
  BY <1>3 DEF DownLines, Profiles, CardsOf
<1>8. /\ layout[w] # "assassin" /\ winner' = NoTeam => Turned(w) = <<c, t>>
      /\ layout[w] # "assassin" /\ winner' # NoTeam => Turned(w) = <<c, t, o>>
      /\ layout[w] = "assassin" /\ winner' # NoTeam => Turned(w) = <<c, o>>
  BY TurnedLines
<1> HIDE DEF c, t, o
<1>9. down \in Seq(DownLines) /\ NoProfile(down) /\ Within(down, revealed')
  BY <1>1, <1>3, InSession DEF CInv, Fresh, Within
<1> DEFINE dc == Append(down, c)
           dct == Append(dc, t)
<1>10. dc \in Seq(DownLines) /\ NoProfile(dc) /\ Within(dc, revealed')
  BY <1>5, <1>9, OneMore
<1> HIDE DEF dc
<1>11. dct \in Seq(DownLines) /\ NoProfile(dct) /\ Within(dct, revealed')
  BY <1>6, <1>10, OneMore
<1> HIDE DEF dct
<1>12. /\ winner' = NoTeam => down' = dct
       /\ winner' # NoTeam => down' \in {Append(dct, o), Append(dc, o)}
  <2>1. down \o <<c, t>> = dct
    BY <1>5, <1>6, <1>9, Singles DEF dc, dct
  <2>2. winner' # NoTeam => down \o <<c, t, o>> = Append(dct, o)
    BY <1>5, <1>6, <1>7, <1>9, Singles DEF dc, dct
  <2>3. winner' # NoTeam => down \o <<c, o>> = Append(dc, o)
    BY <1>5, <1>7, <1>9, Singles DEF dc
  <2> QED
    BY <1>1, <1>3, <1>8, <2>1, <2>2, <2>3
<1>13. down' \in Seq(DownLines) /\ NoProfile(down') /\ Within(down', revealed')
  BY <1>7, <1>10, <1>11, <1>12, OneMore
<1>14. Foreseen'
  <2>1. SUFFICES ASSUME scene \in {"starting", "game"}, winner' = NoTeam
                 PROVE  \E z \in Pictures :
                          Leads(Picture', down', z) /\ Agrees(z)' /\ CardsToCome(z)'
    BY <1>1 DEF Foreseen, clientVars
  <2>2. PICK x \in Pictures : Leads(Picture, down, x) /\ Agrees(x) /\ CardsToCome(x)
    BY <1>1, <2>1 DEF CInv, Foreseen
  <2> DEFINE y == Heard(x, c)
             z == Heard(y, t)
             team == IF allowance' = 0 THEN turn' ELSE 2
  <2>3. y \in Pictures /\ Leads(Picture, dc, y)
    BY <1>5, <1>9, <2>2, HeardType, LeadsFurther DEF dc
  <2>4. z \in Pictures /\ Leads(Picture, down', z)
    BY <1>6, <1>10, <1>12, <2>1, <2>3, HeardType, LeadsFurther DEF dct
  <2>5. /\ y.used = x.used \cup {w} /\ y.cards = x.cards
        /\ y.turn = x.turn /\ y.phase = x.phase
    <3>1. x.cards \in BOOLEAN
      BY DEF Pictures
    <3> QED
      BY <1>5, <3>1 DEF Heard
  <2> HIDE DEF y
  <2>6. /\ team \in Team \cup {2} /\ (allowance' = 0 => team # 2 /\ team = turn')
        /\ allowance' # 0 => team = 2
    BY <1>3 DEF Team, Red, Blue
  <2>7. t = TurnUpdate(team)
    BY DEF t
  <2> HIDE DEF team
  <2>8. /\ z.used = y.used /\ z.cards = y.cards
        /\ z.red = Score(Red, revealed)' /\ z.blue = Score(Blue, revealed)'
        /\ allowance' # 0 => z.turn = y.turn /\ z.phase = y.phase
        /\ allowance' = 0 => z.turn = turn' /\ z.phase = Phase'
    BY <1>3, <2>3, <2>6, <2>7, TurnHeard
  <2> HIDE DEF z
  <2>9. \E v \in Pictures :
          /\ Leads(Picture, down', v)
          /\ v.used = x.used \cup {w} /\ v.cards = x.cards
          /\ v.red = Score(Red, revealed)' /\ v.blue = Score(Blue, revealed)'
          /\ allowance' # 0 => v.turn = x.turn /\ v.phase = x.phase
          /\ allowance' = 0 => v.turn = turn' /\ v.phase = Phase'
    BY <2>4, <2>5, <2>8
  <2>10. PICK v \in Pictures :
          /\ Leads(Picture, down', v)
          /\ v.used = x.used \cup {w} /\ v.cards = x.cards
          /\ v.red = Score(Red, revealed)' /\ v.blue = Score(Blue, revealed)'
          /\ allowance' # 0 => v.turn = x.turn /\ v.phase = x.phase
          /\ allowance' = 0 => v.turn = turn' /\ v.phase = Phase'
    BY <2>9
  <2>11. v.cards => v.used = revealed' \ missed'
    BY <1>1, <1>3, <2>2, <2>10 DEF Agrees, CInv, Fresh
  <2>12. v.turn = Unknown \/ (v.turn = turn' /\ v.phase = Phase')
    <3>1. CASE allowance' = 0
      BY <2>10, <3>1
    <3>2. CASE allowance' # 0
      <4>1. turn' = turn /\ allowance' = allowance
        BY <1>3, <2>1, <3>2
      <4>2. Phase' = Phase
        BY <4>1 DEF Phase
      <4> QED
        BY <2>2, <2>10, <3>2, <4>1, <4>2 DEF Agrees
    <3> QED
      BY <3>1, <3>2
  <2>13. Agrees(v)'
    BY <2>10, <2>11, <2>12 DEF Agrees
  <2>14. CardsToCome(v)'
    BY <1>1, <2>2, <2>10 DEF CardsToCome, Left, clientVars
  <2>15. Picture' = Picture
    BY <1>1, SamePicture DEF clientVars
  <2> QED
    BY <2>10, <2>13, <2>14, <2>15
<1>15. session' \in {"open", "over"} /\ session # "none" /\ revealed \subseteq revealed'
  BY <1>1, <1>3
<1> QED
  BY <1>1, <1>3, <1>4, <1>13, <1>14, <1>15, GameStep

\* A line that has no effect, an input out of turn.
LEMMA IdleStep ==
  ASSUME CInv, Left, session # "none",
         UNCHANGED <<serverVars, down, clientVars, connectionVars, formVars>>
  PROVE  CInv'
<1> USE DEF Left, serverVars, rulesVars, clientVars, inputVars, connectionVars,
            formVars
<1>1. TypeOK'
  BY DEF CInv, TypeOK
<1>2. Tidy'
  BY InSession
  DEF CInv, Tidy, CopyInGame, AtRest, ProfileLast, NoProfile, Matching, AtStart
<1>3. Fresh'
  BY DEF CInv, Fresh
<1>4. Foreseen'
  <2>1. Picture' = Picture
    BY SamePicture
  <2>2. \A x : Agrees(x)' <=> Agrees(x)
    BY DEF Agrees, Phase, Score
  <2>3. \A x : CardsToCome(x) => CardsToCome(x)'
    BY DEF CardsToCome
  <2> QED
    BY <2>1, <2>2, <2>3 DEF CInv, Foreseen
<1> QED
  BY <1>1, <1>2, <1>3, <1>4 DEF CInv

\* What this client enters counts when it may.
LEMMA OwnHintStep == CInv /\ InGame(OwnHint) => CInv'
<1> SUFFICES ASSUME CInv, InGame(OwnHint)
             PROVE  CInv'
  OBVIOUS
<1>1. Receive("HINT") /\ UNCHANGED <<connectionVars, formVars>> /\ session # "none"
  BY DEF InGame, OwnHint, Receive
<1>2. CASE MayHint(Head(up))
  <2>1. Hint(Head(up).number) /\ UNCHANGED clientVars
    BY <1>2 DEF InGame, OwnHint, Hint
  <2>2. Left /\ Head(up) \in UpLines /\ Head(up).line = "HINT"
    BY <1>1, <2>1, Received DEF clientVars
  <2>3. Head(up).number \in HintNumbers
    BY <2>2 DEF UpLines
  <2> QED
    BY <1>1, <2>1, <2>2, <2>3, HintStep
<1>3. CASE ~ MayHint(Head(up))
  <2>1. UNCHANGED <<serverVars, down, clientVars>>
    BY <1>3 DEF InGame, OwnHint
  <2>2. Left
    BY <1>1, <2>1, Received DEF clientVars
  <2> QED
    BY <1>1, <2>1, <2>2, IdleStep
<1> QED
  BY <1>2, <1>3

\* The client's own ANSWER is served like that of another player.
LEMMA OwnAnswerStep == CInv /\ InGame(OwnAnswer) => CInv'
<1> SUFFICES ASSUME CInv, InGame(OwnAnswer)
             PROVE  CInv'
  OBVIOUS
<1>1. Receive("ANSWER") /\ UNCHANGED <<connectionVars, formVars>> /\ session # "none"
  BY DEF InGame, OwnAnswer, Receive
<1>2. CASE MayAnswer(Head(up))
  <2>1. Answer(Head(up).text) /\ UNCHANGED clientVars /\ Head(up).text \in Word
    BY <1>2 DEF InGame, OwnAnswer, Answer, MayAnswer
  <2>2. Left
    BY <1>1, <2>1, Received DEF clientVars
  <2> QED
    BY <1>1, <2>1, <2>2, AnswerStep
<1>3. CASE ~ MayAnswer(Head(up))
  <2>1. UNCHANGED <<serverVars, down, clientVars>>
    BY <1>3 DEF InGame, OwnAnswer
  <2>2. Left
    BY <1>1, <2>1, Received DEF clientVars
  <2> QED
    BY <1>1, <2>1, <2>2, IdleStep
<1> QED
  BY <1>2, <1>3

\* The others move only while this client is in its game.
LEMMA OthersMoveStep == CInv /\ InGame(OthersMove) => CInv'
<1> SUFFICES ASSUME CInv, InGame(OthersMove)
             PROVE  CInv'
  OBVIOUS
<1>1. /\ scene = "game" /\ up' = up /\ UNCHANGED <<connectionVars, formVars>>
      /\ \/ \E n \in HintNumbers : Hint(n)
         \/ \E w \in Word : Answer(w)
  BY DEF InGame, OthersMove
<1>2. scene' = scene
  BY <1>1 DEF Hint, Answer, clientVars
<1>3. Left
  BY <1>1, <1>2 DEF Left, CInv, TypeOK, Tidy, TokenLast, CardsAsked
<1> QED
  BY <1>1, <1>3, HintStep, AnswerStep

\* The acknowledgement says nothing of the game.
LEMMA AckSessionStep == CInv /\ InGame(AckSession) => CInv'
<1> SUFFICES ASSUME CInv, InGame(AckSession)
             PROVE  CInv'
  OBVIOUS
<1> USE DEF serverVars, rulesVars, clientVars, inputVars, connectionVars, formVars
<1> DEFINE l == [line |-> "SESSION_ACK"]
<1>1. /\ Receive("SESSION_READY") /\ session # "none"
      /\ down' = down \o <<l>>
      /\ UNCHANGED <<serverVars, clientVars, connectionVars, formVars>>
  BY DEF InGame, AckSession, Receive, Broadcast
<1>2. Left
  BY <1>1, Received
<1>3. /\ l \in DownLines /\ l.line \notin Profiles /\ CardsOf(l) = {}
      /\ l.line \notin {"ALL_CARDS", "HINT", "TURN_UPDATE"}
  BY DEF DownLines, Profiles, CardsOf
<1> HIDE DEF l
<1>4. down \in Seq(DownLines) /\ NoProfile(down) /\ Within(down, revealed)
  BY <1>1, InSession DEF CInv, Fresh
<1>5. down' = Append(down, l)
  BY <1>1, <1>3, <1>4, Singles
<1>6. down' \in Seq(DownLines) /\ NoProfile(down') /\ Within(down', revealed)
  BY <1>3, <1>4, <1>5, OneMore
<1>7. TypeOK'
  BY <1>1, <1>2, <1>6 DEF CInv, TypeOK, Left
<1>8. Tidy'
  BY <1>1, <1>2, <1>6, InSession
  DEF CInv, Tidy, CopyInGame, AtRest, ProfileLast, NoProfile, Matching, AtStart,
      Left
<1>9. Fresh'
  BY <1>1, <1>6 DEF CInv, Fresh
<1>10. Foreseen'
  <2>1. Picture' = Picture
    BY <1>1, SamePicture
  <2>2. \A x : Agrees(x)' <=> Agrees(x)
    BY <1>1 DEF Agrees, Phase, Score
  <2>3. \A x : CardsToCome(x) => CardsToCome(x)'
    BY <1>1, <1>2 DEF CardsToCome, Left
  <2>4. ASSUME NEW x \in Pictures, Leads(Picture, down, x)
        PROVE  Leads(Picture, down', x)
    <3>1. Heard(x, l) = x
      BY <1>3 DEF Heard, Pictures
    <3> QED
      BY <1>3, <1>4, <1>5, <2>4, <3>1, LeadsFurther
  <2> QED
    BY <1>1, <2>1, <2>2, <2>3, <2>4 DEF CInv, Foreseen
<1> QED
  BY <1>7, <1>8, <1>9, <1>10 DEF CInv

\* The snapshot is begun: the request is not under way any more, it is.
LEMMA CopyCardsStep == CInv /\ InGame(CopyCards) => CInv'
<1> SUFFICES ASSUME CInv, InGame(CopyCards)
             PROVE  CInv'
  OBVIOUS
<1> USE DEF rulesVars, clientVars, inputVars, connectionVars, formVars
<1>1. /\ Receive("GET_ALL_CARDS") /\ session # "none" /\ copy' = revealed
      /\ UNCHANGED <<rulesVars, session, dealt, missed, down>>
      /\ UNCHANGED <<clientVars, connectionVars, formVars>>
  BY DEF InGame, CopyCards, Receive
<1>2. up' \in Seq(UpLines) /\ TokenLast' /\ scene # "waiting"
  BY <1>1, Received
<1>3. copy' # NoCopy /\ revealed \subseteq Word
  BY <1>1, ScreenAssumption DEF CInv, TypeOK, NoCopy
<1>4. TypeOK'
  BY <1>1, <1>2, <1>3 DEF CInv, TypeOK
<1>5. Tidy'
  BY <1>1, <1>2, InSession
  DEF CInv, Tidy, CopyInGame, AtRest, ProfileLast, NoProfile, Matching, AtStart
<1>6. Fresh'
  BY <1>1 DEF CInv, Fresh
<1>7. Foreseen'
  <2>1. Picture' = Picture
    BY <1>1, SamePicture
  <2>2. \A x : Agrees(x)' <=> Agrees(x)
    BY <1>1 DEF Agrees, Phase, Score
  <2>3. \A x : CardsToCome(x)'
    BY <1>3 DEF CardsToCome
  <2> QED
    BY <1>1, <2>1, <2>2, <2>3 DEF CInv, Foreseen
<1> QED
  BY <1>4, <1>5, <1>6, <1>7 DEF CInv

\* The snapshot is sent: it has all the cards but those in missed'.
LEMMA SendCardsStep == CInv /\ InGame(SendCards) => CInv'
<1> SUFFICES ASSUME CInv, InGame(SendCards)
             PROVE  CInv'
  OBVIOUS
<1> USE DEF rulesVars, clientVars, inputVars, connectionVars, formVars
<1>1. PICK used \in SUBSET revealed :
        /\ down' = down \o <<[line |-> "ALL_CARDS", used |-> used]>>
        /\ missed' = revealed \ used
  BY DEF InGame, SendCards, Broadcast
<1>2. /\ copy # NoCopy /\ copy' = NoCopy
      /\ UNCHANGED <<rulesVars, session, dealt, up>>
      /\ UNCHANGED <<clientVars, connectionVars, formVars>>
  BY DEF InGame, SendCards
<1>3. session # "none" /\ scene # "waiting" /\ revealed \in SUBSET Word
  BY <1>2 DEF CInv, Tidy, CopyInGame, Matching, TypeOK
<1> DEFINE l == [line |-> "ALL_CARDS", used |-> used]
<1>4. /\ l \in DownLines /\ l.line \notin Profiles /\ CardsOf(l) = used
      /\ l.line = "ALL_CARDS" /\ l.used = used
  BY <1>3 DEF DownLines, Profiles, CardsOf
<1>5. down' = down \o <<l>>
  BY <1>1
<1> HIDE DEF l
<1>6. down \in Seq(DownLines) /\ NoProfile(down) /\ Within(down, revealed)
  BY <1>3, InSession DEF CInv, Fresh
<1>7. down' = Append(down, l)
  BY <1>4, <1>5, <1>6, Singles
<1>8. down' \in Seq(DownLines) /\ NoProfile(down') /\ Within(down', revealed)
  BY <1>4, <1>6, <1>7, OneMore
<1>9. TypeOK'
  <2>1. missed' \subseteq Word
    BY <1>1, <1>3
  <2> QED
    BY <1>2, <1>8, <2>1 DEF CInv, TypeOK
<1>10. Tidy'
  BY <1>1, <1>2, <1>3, <1>8, InSession
  DEF CInv, Tidy, CopyInGame, AtRest, TokenLast, ProfileLast, NoProfile,
      Matching, AtStart
<1>11. Fresh'
  BY <1>1, <1>2, <1>8 DEF CInv, Fresh
<1>12. Foreseen'
  <2>1. SUFFICES ASSUME session \in {"registered", "open"},
                        scene \in {"starting", "game"}
                 PROVE  \E z \in Pictures :
                          Leads(Picture', down', z) /\ Agrees(z)' /\ CardsToCome(z)'
    BY <1>2 DEF Foreseen
  <2>2. PICK x \in Pictures : Leads(Picture, down, x) /\ Agrees(x) /\ CardsToCome(x)
    BY <2>1 DEF CInv, Foreseen
  <2>3. Heard(x, l) \in Pictures /\ Leads(Picture, down', Heard(x, l))
    BY <1>4, <1>6, <1>7, <2>2, HeardType, LeadsFurther
  <2>4. PICK v \in Pictures : v = Heard(x, l)
    BY <2>3
  <2>5. /\ v.used = used /\ v.cards /\ v.turn = x.turn /\ v.phase = x.phase
        /\ v.red = x.red /\ v.blue = x.blue
    BY <1>4, <2>4 DEF Heard
  <2>6. v.used = revealed \ missed'
    BY <1>1, <2>5
  <2>7. Agrees(v)'
    BY <1>2, <2>2, <2>5, <2>6 DEF Agrees, Phase, Score
  <2>8. CardsToCome(v)'
    BY <2>5 DEF CardsToCome
  <2>9. Picture' = Picture
    BY <1>2, SamePicture
  <2> QED
    BY <2>3, <2>4, <2>7, <2>8, <2>9
<1> QED
  BY <1>9, <1>10, <1>11, <1>12 DEF CInv

\* The first turn, right behind GAME_START.
LEMMA OpenGameStep == CInv /\ InGame(OpenGame) => CInv'
<1> SUFFICES ASSUME CInv, InGame(OpenGame)
             PROVE  CInv'
  OBVIOUS
<1> USE DEF rulesVars, clientVars, inputVars, connectionVars, formVars
<1> DEFINE l == TurnUpdate(turn)
<1>1. /\ session = "registered" /\ session' = "open" /\ down' = down \o <<l>>
      /\ UNCHANGED <<rulesVars, dealt, copy, missed, up>>
      /\ UNCHANGED <<clientVars, connectionVars, formVars>>
  BY DEF InGame, OpenGame, Broadcast
<1>2. /\ revealed = {} /\ missed = {} /\ turn = Red /\ allowance = 0
  BY <1>1 DEF CInv, Tidy, AtStart
<1>3. /\ turn \in Team \cup {2} /\ turn # 2 /\ revealed' \in SUBSET Word
  BY <1>1, <1>2 DEF Team, Red
<1>4. l \in DownLines /\ l.line \notin Profiles /\ CardsOf(l) = {}
  BY <1>3, TurnLine
<1>5. l = FirstTurn
  BY <1>1, <1>2 DEF TurnUpdate, FirstTurn, Phase, Score
<1> HIDE DEF l
<1>6. down \in Seq(DownLines) /\ NoProfile(down) /\ Within(down, revealed)
  BY <1>1, InSession DEF CInv, Fresh
<1>7. down' = Append(down, l)
  BY <1>1, <1>4, <1>6, Singles
<1>8. down' \in Seq(DownLines) /\ NoProfile(down') /\ Within(down', revealed)
  BY <1>4, <1>6, <1>7, OneMore
<1>9. TypeOK'
  BY <1>1, <1>8 DEF CInv, TypeOK
<1>10. Matching'
  <2>1. SUFFICES ASSUME scene = "waiting"
                 PROVE  Matching'
    BY <1>1 DEF Matching
  <2>2. copy = NoCopy /\ up = <<>> /\ down = <<Start>>
    BY <1>1, <2>1 DEF CInv, Tidy, Matching
  <2>3. down' = <<Start, FirstTurn>>
    BY <1>5, <1>7, <2>2, Tuples
  <2>4. FirstTurn' = FirstTurn
    BY <1>1 DEF FirstTurn, Score
  <2> QED
    BY <1>1, <2>1, <2>2, <2>3, <2>4 DEF Matching
<1>11. Tidy'
  BY <1>1, <1>2, <1>8, <1>10, InSession
  DEF CInv, Tidy, CopyInGame, AtRest, TokenLast, ProfileLast, NoProfile, AtStart
<1>12. Fresh'
  BY <1>1, <1>8 DEF CInv, Fresh
<1>13. Foreseen'
  <2>1. SUFFICES ASSUME scene \in {"starting", "game"}
                 PROVE  \E z \in Pictures :
                          Leads(Picture', down', z) /\ Agrees(z)' /\ CardsToCome(z)'
    BY <1>1 DEF Foreseen
  <2>2. PICK x \in Pictures : Leads(Picture, down, x) /\ Agrees(x) /\ CardsToCome(x)
    BY <1>1, <2>1 DEF CInv, Foreseen
  <2>3. Heard(x, l) \in Pictures /\ Leads(Picture, down', Heard(x, l))
    BY <1>4, <1>6, <1>7, <2>2, HeardType, LeadsFurther
  <2>4. PICK v \in Pictures : v = Heard(x, l)
    BY <2>3
  <2>5. /\ v.used = x.used /\ v.cards = x.cards
        /\ v.red = Score(Red, revealed)' /\ v.blue = Score(Blue, revealed)'
        /\ v.turn = turn /\ v.phase = Phase'
    BY <1>1, <1>3, <2>4, TurnHeard DEF l
  <2>6. Agrees(v)'
    BY <1>1, <2>2, <2>5 DEF Agrees
  <2>7. CardsToCome(v)'
    BY <1>1, <2>2, <2>5 DEF CardsToCome, CardsAsked
  <2>8. Picture' = Picture
    BY <1>1, SamePicture
  <2> QED
    BY <2>3, <2>4, <2>6, <2>7, <2>8
<1> QED
  BY <1>9, <1>11, <1>12, <1>13 DEF CInv

----------------------------------------------------------------------------
(* The steps of the screen.                                                *)

\* The blank picture is true of a game before its first move, and so is what
\* its first line makes of it.
LEMMA BlankAgrees ==
  ASSUME revealed = {}, turn = Red, allowance = 0
  PROVE  /\ Shown(BlankView) \in Pictures /\ FirstTurn \in DownLines
         /\ Agrees(Shown(BlankView))
         /\ Agrees(Heard(Shown(BlankView), FirstTurn))
<1>1. Score(Red, {}) = 0 /\ Score(Blue, {}) = 0
  <2>1. \A team : {w \in {} : layout[w] = Colour(team)} = {}
    OBVIOUS
  <2> QED
    BY <2>1, FS_EmptySet DEF Score
<1>2. Shown(BlankView) \in Pictures
  BY DEF Shown, BlankView, Pictures
<1>3. FirstTurn \in DownLines
  BY <1>1 DEF FirstTurn, DownLines, Team
<1>4. Agrees(Shown(BlankView))
  BY <1>1 DEF Agrees, Shown, BlankView
<1>5. Agrees(Heard(Shown(BlankView), FirstTurn))
  BY <1>1 DEF Agrees, Shown, BlankView, Heard, FirstTurn, Phase, Red
<1> QED
  BY <1>2, <1>3, <1>4, <1>5

\* The matching thread leaves with nothing behind GAME_START, or with the
\* first turn lost or still to come.
LEMMA ReadStartStep == CInv /\ InGame(ReadStart) => CInv'
<1> SUFFICES ASSUME CInv, InGame(ReadStart)
             PROVE  CInv'
  OBVIOUS
<1> USE DEF serverVars, rulesVars, inputVars, connectionVars, formVars
<1>1. PICK n \in 1 .. Len(down) : down' = After(down, n)
  BY DEF InGame, ReadStart
<1>2. /\ scene = "waiting" /\ scene' = "starting" /\ down # <<>>
      /\ up' = Append(up, [line |-> "SESSION_READY"])
      /\ UNCHANGED <<serverVars, me, view, inputVars, connectionVars, formVars>>
  BY DEF InGame, ReadStart
<1>3. /\ copy = NoCopy /\ up = <<>>
      /\ \/ session = "registered" /\ down = <<Start>>
         \/ session = "open" /\ down = <<Start, FirstTurn>>
  BY <1>2 DEF CInv, Tidy, Matching
<1>4. revealed = {} /\ missed = {} /\ turn = Red /\ allowance = 0
  BY <1>2 DEF CInv, Tidy, AtStart
<1>5. /\ Shown(BlankView) \in Pictures /\ FirstTurn \in DownLines
      /\ Agrees(Shown(BlankView)) /\ Agrees(Heard(Shown(BlankView), FirstTurn))
  BY <1>4, BlankAgrees
<1>6. down' = <<>> \/ down' = <<FirstTurn>>
  <2>1. down \in Seq(DownLines)
    BY DEF CInv, TypeOK
  <2>2. n = Len(down) => down' = <<>>
    BY <1>1, <2>1, Taking
  <2>3. CASE down = <<Start>>
    <3>1. n = Len(down)
      BY <2>3
    <3> QED
      BY <2>2, <3>1
  <2>4. CASE down = <<Start, FirstTurn>> /\ n = 1
    <3>1. Len(down) = 2 /\ down[2] = FirstTurn
      BY <2>4
    <3>2. down' = SubSeq(down, 2, 2)
      BY <1>1, <2>4, <3>1 DEF After
    <3>3. SubSeq(down, 2, 2) = <<down[2]>> \o SubSeq(down, 3, 2)
      BY <2>1, <3>1, SubSeqRecursiveFirst
    <3>4. SubSeq(down, 3, 2) = <<>>
      BY SubSeqEmpty
    <3>5. <<FirstTurn>> \o <<>> = <<FirstTurn>>
      BY <1>5, ConcatEmptySeq
    <3> QED
      BY <3>1, <3>2, <3>3, <3>4, <3>5
  <2>5. CASE down = <<Start, FirstTurn>> /\ n # 1
    <3>1. n = Len(down)
      BY <2>5
    <3> QED
      BY <2>2, <3>1
  <2> QED
    BY <1>3, <2>3, <2>4, <2>5
<1>7. up' = <<[line |-> "SESSION_READY"]>>
  BY <1>2, <1>3
<1>8. [line |-> "SESSION_READY"] \in UpLines
  BY DEF UpLines
<1>9. TypeOK'
  <2>1. up' \in Seq(UpLines)
    BY <1>7, <1>8
  <2>2. down' \in Seq(DownLines)
    <3>1. down \in Seq(DownLines)
      BY DEF CInv, TypeOK
    <3> QED
      BY <1>1, <3>1, Taking
  <2> QED
    BY <1>2, <2>1, <2>2 DEF CInv, TypeOK, Screens
<1>10. NoProfile(down') /\ Within(down', {})
  BY <1>6 DEF NoProfile, Within, FirstTurn, Profiles, CardsOf
<1>11. Tidy'
  BY <1>2, <1>3, <1>4, <1>7, <1>10
  DEF CInv, Tidy, CopyInGame, AtRest, TokenLast, ProfileLast, NoProfile,
      Matching, AtStart
<1>12. Fresh'
  BY <1>2, <1>3, <1>4, <1>10 DEF Fresh
<1>13. Foreseen'
  <2>1. Picture' = Shown(BlankView)
    BY <1>2 DEF Picture, Shown, BlankView
  <2>2. \A x : Agrees(x)' <=> Agrees(x)
    BY <1>2 DEF Agrees, Phase, Score
  <2>3. \A x : CardsToCome(x)'
    BY <1>2 DEF CardsToCome
  <2>4. CASE down' = <<>>
    BY <1>5, <2>1, <2>2, <2>3, <2>4, LeadsNowhere DEF Foreseen
  <2>5. CASE down' = <<FirstTurn>>
    <3> DEFINE x == Shown(BlankView)
               y == Heard(x, FirstTurn)
    <3>1. x \in Pictures /\ Leads(x, <<>>, x)
      BY <1>5, LeadsNowhere
    <3>2. <<>> \in Seq(DownLines) /\ Append(<<>>, FirstTurn) = <<FirstTurn>>
      BY EmptySeq
    <3>3. y \in Pictures /\ Leads(x, <<FirstTurn>>, y)
      BY <1>5, <3>1, <3>2, HeardType, LeadsFurther
    <3>4. PICK v \in Pictures : v = y
      BY <3>3
    <3>5. Agrees(v)' /\ Leads(Picture', down', v)
      BY <1>5, <2>1, <2>2, <2>5, <3>3, <3>4
    <3> QED
      BY <2>3, <3>5 DEF Foreseen
  <2> QED
    BY <1>6, <2>4, <2>5
<1> QED
  BY <1>9, <1>11, <1>12, <1>13 DEF CInv

\* The screen begins with nothing, in either case.
LEMMA OpenScreenStep == CInv /\ InGame(OpenScreen) => CInv'
<1> SUFFICES ASSUME CInv, InGame(OpenScreen)
             PROVE  CInv'
  OBVIOUS
<1> USE DEF serverVars, rulesVars, connectionVars, formVars
<1>1. /\ scene = "starting" /\ scene' = "game" /\ view' = BlankView
      /\ mode' = "NONE" /\ slot' = NoText /\ taken' = NoInput
      /\ hintWord' \in BOOLEAN
      /\ UNCHANGED <<serverVars, down, up, me, connectionVars, formVars>>
  BY DEF InGame, OpenScreen, NoInputYet
<1>2. BlankView \in Views /\ BlankView.used = {} /\ BlankView.last_card_request = 0
  BY DEF BlankView, Views, NoTeam
<1>3. TypeOK'
  BY <1>1, <1>2 DEF CInv, TypeOK, Screens, Modes
<1>4. Tidy'
  BY <1>1
  DEF CInv, Tidy, CopyInGame, AtRest, TokenLast, ProfileLast, Matching, AtStart
<1>5. Fresh'
  BY <1>1, <1>2 DEF CInv, Fresh
<1>6. Foreseen'
  <2>1. Picture' = Picture
    BY <1>1 DEF Picture, Shown, BlankView
  <2>2. \A x : Agrees(x)' <=> Agrees(x)
    BY <1>1 DEF Agrees, Phase, Score
  <2>3. \A x : CardsToCome(x)'
    BY <1>1, <1>2 DEF CardsToCome
  <2> QED
    BY <1>1, <2>1, <2>2, <2>3 DEF CInv, Foreseen
<1> QED
  BY <1>3, <1>4, <1>5, <1>6 DEF CInv

\* One line more to the server, from the game.
LEMMA Sent ==
  ASSUME CInv, NEW l \in UpLines, l.line \notin {"TOKEN", "QUERY_WAIT"},
         scene = "game", scene' = "game", up' = Append(up, l)
  PROVE  Left /\ (l.line = "GET_ALL_CARDS" => CardsAsked')
<1>1. up \in Seq(UpLines)
  BY DEF CInv, TypeOK
<1>2. /\ up' \in Seq(UpLines) /\ Len(up) \in Nat
      /\ \A i \in DOMAIN up' : \/ i \in DOMAIN up /\ up'[i] = up[i]
                               \/ i = Len(up) + 1 /\ up'[i] = l
      /\ Len(up) + 1 \in DOMAIN up' /\ up'[Len(up) + 1] = l
      /\ \A i \in DOMAIN up : i \in DOMAIN up' /\ up'[i] = up[i]
  BY <1>1, Sending
<1>3. TokenLast'
  BY <1>2 DEF CInv, Tidy, TokenLast
<1>4. CardsAsked => CardsAsked'
  BY <1>2 DEF CardsAsked
<1>5. l.line = "GET_ALL_CARDS" => CardsAsked'
  BY <1>2 DEF CardsAsked
<1> QED
  BY <1>2, <1>3, <1>4, <1>5 DEF Left

\* Nothing was sent.
LEMMA NotSent ==
  ASSUME CInv, scene = "game", scene' = "game", up' = up
  PROVE  Left
BY DEF Left, CInv, TypeOK, Tidy, TokenLast, CardsAsked

\* In its game the client has no answer to TOKEN to come.
LEMMA InItsGame ==
  ASSUME CInv, scene = "game"
  PROVE  /\ NoProfile(down) /\ down \in Seq(DownLines) /\ view \in Views
         /\ session # "queued"
BY DEF CInv, Tidy, ProfileLast, NoProfile, Matching, TypeOK

\* A step within the game, of one of the client's threads.
LEMMA ClientStep ==
  ASSUME CInv, Left, scene = "game", scene' = "game",
         UNCHANGED <<serverVars, me, connectionVars, formVars>>,
         down' \in Seq(DownLines), NoProfile(down'),
         session # "none" => Within(down', revealed),
         view' \in Views, session # "none" => view'.used \subseteq revealed,
         mode' \in Modes, slot' \in Texts \cup {NoText},
         taken' \in [text : Texts, mode : Modes] \cup {NoInput},
         hintWord' \in BOOLEAN, Foreseen'
  PROVE  CInv'
<1> USE DEF Left, serverVars, rulesVars, connectionVars, formVars
<1>1. TypeOK'
  BY DEF CInv, TypeOK
<1>2. Tidy'
  BY InItsGame
  DEF CInv, Tidy, CopyInGame, AtRest, ProfileLast, NoProfile, Matching, AtStart
<1>3. Fresh'
  BY DEF CInv, Fresh
<1> QED
  BY <1>1, <1>2, <1>3 DEF CInv

\* A line heard: the picture is what it makes of it.
LEMMA HearStep ==
  ASSUME CInv, Left, NEW line, Hear(line), UNCHANGED <<connectionVars, formVars>>,
         view' \in Views, Shown(view') = Heard(Shown(view), Head(down)),
         mode' \in Modes, hintWord' \in BOOLEAN
  PROVE  CInv'
<1>1. /\ scene = "game" /\ scene' = "game" /\ down # <<>> /\ down' = Tail(down)
      /\ view.last_card_request # 0
      /\ UNCHANGED <<serverVars, me, slot, taken>>
  BY DEF Hear
<1>2. NoProfile(down) /\ down \in Seq(DownLines)
  BY <1>1, InItsGame
<1>3. /\ 1 \in DOMAIN down /\ Head(down) = down[1] /\ Head(down) \in DownLines
      /\ down' \in Seq(DownLines)
      /\ \A i \in DOMAIN down' : i + 1 \in DOMAIN down /\ down'[i] = down[i + 1]
  BY <1>1, <1>2, TakingOne
<1>4. NoProfile(down')
  BY <1>2, <1>3 DEF NoProfile
<1>5. session # "none" => Within(down', revealed)
  BY <1>3 DEF Within, CInv, Fresh
<1>6. session # "none" => view'.used \subseteq revealed
  <2>1. SUFFICES ASSUME session # "none"
                 PROVE  view'.used \subseteq revealed
    OBVIOUS
  <2>2. view.used \subseteq revealed /\ CardsOf(Head(down)) \subseteq revealed
    BY <1>1, <1>3, <2>1 DEF CInv, Fresh, Within
  <2>3. view'.used = Heard(Shown(view), Head(down)).used
    BY DEF Shown
  <2> QED
    BY <2>2, <2>3 DEF Heard, Shown, CardsOf
<1>7. Foreseen'
  <2>1. SUFFICES ASSUME session \in {"registered", "open"}
                 PROVE  \E z \in Pictures :
                          Leads(Picture', down', z) /\ Agrees(z)' /\ CardsToCome(z)'
    BY <1>1 DEF Foreseen, serverVars
  <2>2. PICK x \in Pictures : Leads(Picture, down, x) /\ Agrees(x) /\ CardsToCome(x)
    BY <1>1, <2>1 DEF CInv, Foreseen
  <2>3. Picture = Shown(view) /\ Picture' = Shown(view')
    BY <1>1 DEF Picture, Shown
  <2>4. Leads(Picture', down', x)
    BY <1>1, <1>2, <2>2, <2>3, LeadsOn
  <2>5. Agrees(x)'
    BY <1>1, <2>2 DEF Agrees, Phase, Score, serverVars, rulesVars
  <2>6. CardsToCome(x)'
    BY <1>1, <2>2 DEF CardsToCome, Left, serverVars
  <2> QED
    BY <2>4, <2>5, <2>6
<1>8. slot' \in Texts \cup {NoText} /\ taken' \in [text : Texts, mode : Modes] \cup {NoInput}
  BY <1>1 DEF CInv, TypeOK
<1> QED
  BY <1>1, <1>3, <1>4, <1>5, <1>6, <1>7, <1>8, ClientStep

\* The listener's lines, one by one.
LEMMA HearAckStep == CInv /\ InGame(HearAck) => CInv'
<1> SUFFICES ASSUME CInv, InGame(HearAck)
             PROVE  CInv'
  OBVIOUS
<1>1. /\ Hear("SESSION_ACK") /\ up' = Append(up, [line |-> "GET_ALL_CARDS"])
      /\ UNCHANGED <<view, mode, hintWord, connectionVars, formVars>>
  BY DEF InGame, HearAck
<1>2. /\ Head(down).line = "SESSION_ACK" /\ scene = "game" /\ scene' = "game"
  BY <1>1 DEF Hear
<1>3. [line |-> "GET_ALL_CARDS"] \in UpLines
  BY DEF UpLines
<1>4. Left
  BY <1>1, <1>2, <1>3, Sent
<1>5. view' \in Views /\ mode' \in Modes /\ hintWord' \in BOOLEAN
  BY <1>1 DEF CInv, TypeOK
<1>6. Shown(view') = Heard(Shown(view), Head(down))
  BY <1>1, <1>2, <1>5 DEF Shown, Heard, CardsOf, Views
<1> QED
  BY <1>1, <1>4, <1>5, <1>6, HearStep

\* The snapshot replaces what the screen knows of the cards.
LEMMA HearAllCardsStep == CInv /\ InGame(HearAllCards) => CInv'
<1> SUFFICES ASSUME CInv, InGame(HearAllCards)
             PROVE  CInv'
  OBVIOUS
<1>1. /\ Hear("ALL_CARDS")
      /\ view' = [view EXCEPT !.used = Head(down).used, !.cards_initialized = TRUE]
      /\ UNCHANGED <<up, mode, hintWord, connectionVars, formVars>>
  BY DEF InGame, HearAllCards
<1>2. Head(down).line = "ALL_CARDS" /\ scene = "game" /\ scene' = "game" /\ down # <<>>
  BY <1>1 DEF Hear
<1>3. Left
  BY <1>1, <1>2, NotSent
<1>4. view \in Views /\ mode' \in Modes /\ hintWord' \in BOOLEAN
      /\ down \in Seq(DownLines)
  BY <1>1 DEF CInv, TypeOK
<1>5. Head(down).used \subseteq Word
  BY <1>2, <1>4, TakingOne, LineFields
<1>6. view' \in Views
  BY <1>1, <1>4, <1>5 DEF Views
<1>7. Shown(view') = Heard(Shown(view), Head(down))
  BY <1>1, <1>2, <1>4 DEF Shown, Heard, Views
<1> QED
  BY <1>1, <1>3, <1>4, <1>6, <1>7, HearStep

\* CARD_UPDATE turns one card.
LEMMA HearCardStep == CInv /\ InGame(HearCard) => CInv'
<1> SUFFICES ASSUME CInv, InGame(HearCard)
             PROVE  CInv'
  OBVIOUS
<1>1. /\ Hear("CARD_UPDATE")
      /\ view' = [view EXCEPT !.used = @ \cup {Head(down).word}]
      /\ UNCHANGED <<up, mode, hintWord, connectionVars, formVars>>
  BY DEF InGame, HearCard
<1>2. Head(down).line = "CARD_UPDATE" /\ scene = "game" /\ scene' = "game" /\ down # <<>>
  BY <1>1 DEF Hear
<1>3. Left
  BY <1>1, <1>2, NotSent
<1>4. view \in Views /\ mode' \in Modes /\ hintWord' \in BOOLEAN
      /\ down \in Seq(DownLines)
  BY <1>1 DEF CInv, TypeOK
<1>5. Head(down).word \in Word
  BY <1>2, <1>4, TakingOne, LineFields
<1>6. view' \in Views
  BY <1>1, <1>4, <1>5 DEF Views
<1>7. Shown(view') = Heard(Shown(view), Head(down))
  BY <1>1, <1>2, <1>4 DEF Shown, Heard, Views, CardsOf
<1> QED
  BY <1>1, <1>3, <1>4, <1>6, <1>7, HearStep

\* TURN_UPDATE brings turn, phase and scores.
LEMMA HearTurnStep == CInv /\ InGame(HearTurn) => CInv'
<1> SUFFICES ASSUME CInv, InGame(HearTurn)
             PROVE  CInv'
  OBVIOUS
<1> DEFINE t == Head(down)
           scored == [view EXCEPT !.red = t.red, !.blue = t.blue]
<1>1. /\ Hear("TURN_UPDATE")
      /\ UNCHANGED <<up, hintWord, connectionVars, formVars>>
      /\ IF t.team = 2 THEN view' = scored /\ mode' = mode
         ELSE /\ view' = [scored EXCEPT !.turn_team = t.team, !.phase = t.phase]
              /\ mode' = ModeOfTurn(view')
  BY DEF InGame, HearTurn
<1>2. t.line = "TURN_UPDATE" /\ scene = "game" /\ scene' = "game" /\ down # <<>>
  BY <1>1 DEF Hear
<1>3. Left
  BY <1>1, <1>2, NotSent
<1>4. view \in Views /\ mode \in Modes /\ hintWord' \in BOOLEAN
      /\ down \in Seq(DownLines)
  BY <1>1 DEF CInv, TypeOK
<1>5. /\ t.team \in Team \cup {2} /\ t.phase \in {0, 1}
      /\ t.red \in Nat /\ t.blue \in Nat
  BY <1>2, <1>4, TakingOne, LineFields
<1>6. view' \in Views
  <2>1. scored \in Views
    BY <1>4, <1>5 DEF Views
  <2>2. CASE t.team = 2
    BY <1>1, <2>1, <2>2
  <2>3. CASE t.team # 2
    <3>1. t.team \in Team
      BY <1>5, <2>3
    <3>2. view' = [scored EXCEPT !.turn_team = t.team, !.phase = t.phase]
      BY <1>1, <2>3
    <3> QED
      BY <1>5, <2>1, <3>1, <3>2 DEF Views
  <2> QED
    BY <2>2, <2>3
<1>7. mode' \in Modes
  BY <1>1, <1>4 DEF ModeOfTurn, Modes
<1>8. Shown(view') = Heard(Shown(view), t)
  BY <1>1, <1>2, <1>4 DEF Shown, Heard, Views, CardsOf
<1> QED
  BY <1>1, <1>3, <1>4, <1>6, <1>7, <1>8, HearStep

\* HINT brings the team whose turn it is.
LEMMA HearHintStep == CInv /\ InGame(HearHint) => CInv'
<1> SUFFICES ASSUME CInv, InGame(HearHint)
             PROVE  CInv'
  OBVIOUS
<1>1. /\ Hear("HINT") /\ hintWord' \in BOOLEAN
      /\ view' = [view EXCEPT !.turn_team = Head(down).team]
      /\ UNCHANGED <<up, mode, connectionVars, formVars>>
  BY DEF InGame, HearHint
<1>2. Head(down).line = "HINT" /\ scene = "game" /\ scene' = "game" /\ down # <<>>
  BY <1>1 DEF Hear
<1>3. Left
  BY <1>1, <1>2, NotSent
<1>4. view \in Views /\ mode' \in Modes /\ down \in Seq(DownLines)
  BY <1>1 DEF CInv, TypeOK
<1>5. Head(down).team \in Team
  BY <1>2, <1>4, TakingOne, LineFields
<1>6. view' \in Views
  BY <1>1, <1>4, <1>5 DEF Views
<1>7. Shown(view') = Heard(Shown(view), Head(down))
  BY <1>1, <1>2, <1>4 DEF Shown, Heard, Views, CardsOf
<1> QED
  BY <1>1, <1>3, <1>4, <1>6, <1>7, HearStep

\* GAME_OVER ends the listener; the picture stays.
LEMMA HearOverStep == CInv /\ InGame(HearOver) => CInv'
<1> SUFFICES ASSUME CInv, InGame(HearOver)
             PROVE  CInv'
  OBVIOUS
<1>1. /\ Hear("GAME_OVER") /\ up' = Append(up, [line |-> "GAME_QUIT"])
      /\ view' = [view EXCEPT !.winner_team = Head(down).team]
      /\ UNCHANGED <<mode, hintWord, connectionVars, formVars>>
  BY DEF InGame, HearOver
<1>2. Head(down).line = "GAME_OVER" /\ scene = "game" /\ scene' = "game" /\ down # <<>>
  BY <1>1 DEF Hear
<1>3. [line |-> "GAME_QUIT"] \in UpLines
  BY DEF UpLines
<1>4. Left
  BY <1>1, <1>2, <1>3, Sent
<1>5. view \in Views /\ mode' \in Modes /\ hintWord' \in BOOLEAN
      /\ down \in Seq(DownLines)
  BY <1>1 DEF CInv, TypeOK
<1>6. Head(down).team \in Team
  BY <1>2, <1>5, TakingOne, LineFields
<1>7. view' \in Views
  BY <1>1, <1>5, <1>6 DEF Views
<1>8. Shown(view') = Heard(Shown(view), Head(down))
  BY <1>1, <1>2, <1>5 DEF Shown, Heard, Views, CardsOf
<1> QED
  BY <1>1, <1>4, <1>5, <1>7, <1>8, HearStep

\* The first request for the cards.
LEMMA RequestCardsStep == CInv /\ InGame(RequestCards) => CInv'
<1> SUFFICES ASSUME CInv, InGame(RequestCards)
             PROVE  CInv'
  OBVIOUS
<1> DEFINE l == [line |-> "GET_ALL_CARDS"]
<1>1. /\ scene = "game" /\ scene' = "game" /\ up' = Append(up, l)
      /\ view' = [view EXCEPT !.last_card_request = 1]
      /\ UNCHANGED <<serverVars, down, me, inputVars, connectionVars, formVars>>
  BY DEF InGame, RequestCards
<1>2. l \in UpLines /\ l.line \notin {"TOKEN", "QUERY_WAIT"}
  BY DEF UpLines
<1>3. Left /\ CardsAsked'
  BY <1>1, <1>2, Sent
<1>4. NoProfile(down) /\ down \in Seq(DownLines) /\ view \in Views
  BY <1>1, InItsGame
<1>5. view' \in Views /\ Shown(view') = Shown(view)
  BY <1>1, <1>4 DEF Views, Shown
<1>6. /\ session # "none" => Within(down, revealed)
      /\ session # "none" => view'.used \subseteq revealed
  BY <1>1, <1>4 DEF CInv, Fresh, Views
<1>7. Foreseen'
  <2>1. Picture' = Picture
    BY <1>1, <1>5 DEF Picture
  <2>2. \A x : Agrees(x)' <=> Agrees(x)
    BY <1>1 DEF Agrees, Phase, Score, serverVars, rulesVars
  <2>3. \A x : CardsToCome(x)'
    BY <1>3 DEF CardsToCome
  <2> QED
    BY <1>1, <2>1, <2>2, <2>3 DEF CInv, Foreseen, serverVars
<1> QED
  BY <1>1, <1>3, <1>4, <1>5, <1>6, <1>7, ClientStep DEF CInv, TypeOK, inputVars

\* A step of the input, which hears nothing.
LEMMA InputStep ==
  ASSUME CInv, Left, scene = "game", scene' = "game",
         UNCHANGED <<serverVars, down, me, view, connectionVars, formVars>>,
         mode' \in Modes, slot' \in Texts \cup {NoText},
         taken' \in [text : Texts, mode : Modes] \cup {NoInput},
         hintWord' \in BOOLEAN
  PROVE  CInv'
<1>1. NoProfile(down) /\ down \in Seq(DownLines) /\ view \in Views
  BY InItsGame
<1>2. /\ session # "none" => Within(down, revealed)
      /\ session # "none" => view.used \subseteq revealed
  BY DEF CInv, Fresh
<1>3. Foreseen'
  <2>1. Picture' = Picture
    BY SamePicture
  <2>2. \A x : Agrees(x)' <=> Agrees(x)
    BY DEF Agrees, Phase, Score, serverVars, rulesVars
  <2>3. \A x : CardsToCome(x) => CardsToCome(x)'
    BY DEF CardsToCome, Left, serverVars
  <2> QED
    BY <2>1, <2>2, <2>3 DEF CInv, Foreseen, serverVars
<1> QED
  BY <1>1, <1>2, <1>3, ClientStep

\* Keys, and an input that is taken.
LEMMA KeysStep == CInv /\ InGame(Keys) => CInv'
<1> SUFFICES ASSUME CInv, InGame(Keys)
             PROVE  CInv'
  OBVIOUS
<1>1. /\ scene = "game" /\ scene' = "game" /\ up' = up
      /\ UNCHANGED <<serverVars, down, me, view, taken, hintWord>>
      /\ UNCHANGED <<connectionVars, formVars>>
      /\ \/ mode' \in Modes /\ slot' = slot
         \/ mode' = mode /\ slot' \in Texts
  BY DEF InGame, Keys, Tab, ChooseReport, EnterText, MayType, ModeOfTurn, Modes
<1>2. Left
  BY <1>1, NotSent
<1> QED
  BY <1>1, <1>2, InputStep DEF CInv, TypeOK

\* The main loop takes what was typed; nothing is said yet.
LEMMA TakeInputStep == CInv /\ InGame(TakeInput) => CInv'
<1> SUFFICES ASSUME CInv, InGame(TakeInput)
             PROVE  CInv'
  OBVIOUS
<1>1. /\ scene = "game" /\ scene' = "game" /\ up' = up /\ slot # NoText
      /\ slot' = NoText
      /\ taken' \in {NoInput, [text |-> slot, mode |-> mode]}
      /\ UNCHANGED <<serverVars, down, me, view, mode, hintWord>>
      /\ UNCHANGED <<connectionVars, formVars>>
  BY DEF InGame, TakeInput
<1>2. slot \in Texts /\ mode \in Modes /\ hintWord \in BOOLEAN
  BY <1>1 DEF CInv, TypeOK
<1>3. Left
  BY <1>1, NotSent
<1> QED
  BY <1>1, <1>2, <1>3, InputStep

\* What the input sends is a hint or an answer.
LEMMA ActOnInputStep == CInv /\ InGame(ActOnInput) => CInv'
<1> SUFFICES ASSUME CInv, InGame(ActOnInput)
             PROVE  CInv'
  OBVIOUS
<1>1. /\ scene = "game" /\ scene' = "game" /\ taken # NoInput /\ taken' = NoInput
      /\ UNCHANGED <<serverVars, down, me, view, slot>>
      /\ UNCHANGED <<connectionVars, formVars>>
  BY DEF InGame, ActOnInput
<1>2. /\ taken.text \in Texts /\ hintWord \in BOOLEAN /\ mode \in Modes
      /\ slot \in Texts \cup {NoText}
  BY <1>1 DEF CInv, TypeOK
<1>3. Atoi(taken.text) \in HintNumbers
  BY ScreenAssumption DEF Atoi
<1>4. /\ mode' \in Modes /\ hintWord' \in BOOLEAN
      /\ \/ up' = up
         \/ \E l \in UpLines : l.line \in {"HINT", "ANSWER"} /\ up' = Append(up, l)
  <2> DEFINE h == [line |-> "HINT", word |-> hintWord, number |-> Atoi(taken.text)]
             a == [line |-> "ANSWER", text |-> taken.text]
  <2>1. h \in UpLines /\ a \in UpLines
    BY <1>2, <1>3 DEF UpLines
  <2>2. CASE taken.mode = "HINT" /\ hintWord' = (taken.text # Empty) /\ mode' = "LINK"
             /\ up' = up
    BY <2>2 DEF Modes
  <2>3. CASE up' = Append(up, h) /\ mode' = "NONE" /\ hintWord' = hintWord
    BY <1>2, <2>1, <2>3 DEF Modes
  <2>4. CASE up' = Append(up, a) /\ mode' = mode /\ hintWord' = hintWord
    BY <1>2, <2>1, <2>4
  <2>5. CASE mode' = "CHAT" /\ up' = up /\ hintWord' = hintWord
    BY <1>2, <2>5 DEF Modes
  <2> QED
    BY <2>2, <2>3, <2>4, <2>5 DEF InGame, ActOnInput, Send
<1>5. Left
  BY <1>1, <1>4, Sent, NotSent
<1> QED
  BY <1>1, <1>2, <1>4, <1>5, InputStep

\* The result is shown; some of what was under way is never heard.
LEMMA ShowResultStep == CInv /\ InGame(ShowResult) => CInv'
<1> SUFFICES ASSUME CInv, InGame(ShowResult)
             PROVE  CInv'
  OBVIOUS
<1> USE DEF serverVars, rulesVars, connectionVars, formVars
<1>1. PICK n \in 0 .. Len(down) : down' = After(down, n)
  BY DEF InGame, ShowResult
<1>2. /\ scene = "game" /\ scene' = "result"
      /\ mode' = "NONE" /\ slot' = NoText /\ taken' = NoInput
      /\ hintWord' \in BOOLEAN
      /\ UNCHANGED <<serverVars, up, me, view, connectionVars, formVars>>
  BY DEF InGame, ShowResult, NoInputYet
<1>3. NoProfile(down) /\ down \in Seq(DownLines) /\ session # "queued"
  BY <1>2, InItsGame
<1>4. /\ down' \in Seq(DownLines)
      /\ \A i \in DOMAIN down' : \E j \in DOMAIN down : down'[i] = down[j]
  <2>1. /\ Len(down) \in Nat /\ DOMAIN down = 1 .. Len(down)
        /\ down' \in Seq(DownLines) /\ Len(down') = Len(down) - n
        /\ \A i \in 1 .. Len(down) - n : down'[i] = down[i + n]
    BY <1>1, <1>3, AfterProperties, LenProperties
  <2>2. DOMAIN down' = 1 .. Len(down) - n
    BY <2>1, LenProperties
  <2>3. ASSUME NEW i \in DOMAIN down'
        PROVE  i + n \in DOMAIN down /\ down'[i] = down[i + n]
    BY <2>1, <2>2
  <2> QED
    BY <2>1, <2>3
<1>5. TypeOK'
  BY <1>2, <1>4 DEF CInv, TypeOK, Screens, Modes
<1>6. NoProfile(down')
  BY <1>3, <1>4 DEF NoProfile
<1>7. Tidy'
  BY <1>2, <1>3, <1>6
  DEF CInv, Tidy, CopyInGame, AtRest, TokenLast, ProfileLast, NoProfile,
      Matching, AtStart
<1>8. Fresh'
  BY <1>2, <1>4 DEF CInv, Fresh, Within
<1>9. Foreseen'
  BY <1>2 DEF Foreseen
<1> QED
  BY <1>5, <1>7, <1>8, <1>9 DEF CInv

\* The accept loop and the login form.
LEMMA FormsStep ==
  ASSUME CInv, Accept \/ EditLogin \/ UNCHANGED vars
  PROVE  CInv'
<1>1. /\ accepting \in {"tls", "tcp"} /\ tls \in {"backlog", "served"}
      /\ tcp \in {"none", "backlog", "served"} /\ filled \subseteq Fields
      /\ login_scene \in {"login", "main", "signup"} /\ renamed \in BOOLEAN
  BY DEF CInv, TypeOK
<1>2. CASE Accept
  BY <1>1, <1>2, FormStep
  DEF Accept, AcceptTls, AcceptTcp, AcceptOther, OtherSocket, formVars
<1>3. CASE EditLogin
  <2>1. UNCHANGED screenVars /\ filled' \subseteq Fields
    BY <1>1, <1>3
    DEF EditLogin, SameGame, screenVars, clientVars
  <2> QED
    BY <1>1, <1>3, <2>1, FormStep DEF EditLogin, connectionVars
<1>4. CASE UNCHANGED vars
  BY <1>1, <1>4, FormStep DEF vars, connectionVars, formVars
<1> QED
  BY <1>2, <1>3, <1>4

\* From screen to screen.
LEMMA ScreensStep ==
  ASSUME CInv,
         \/ Connected \/ PressLogin \/ QuitLogin \/ OpenSignup \/ Signup
         \/ BackToMain \/ EditNickname
  PROVE  CInv'
<1>1. /\ filled \subseteq Fields
      /\ login_scene \in {"login", "main", "signup"} /\ renamed \in BOOLEAN
  BY DEF CInv, TypeOK
<1> USE DEF Show, Screens
<1>2. CASE Connected
  BY <1>1, <1>2, ScreenStep DEF Connected, formVars
<1>3. CASE PressLogin
  BY <1>1, <1>3, ScreenStep DEF PressLogin
<1>4. CASE QuitLogin
  BY <1>1, <1>4, ScreenStep DEF QuitLogin, formVars
<1>5. CASE OpenSignup
  BY <1>1, <1>5, ScreenStep DEF OpenSignup
<1>6. CASE Signup
  <2>1. scene = "signup" /\ scene' \in {"signup", "main"}
    BY <1>6 DEF Signup, EditSignup, PressSignup
  <2> QED
    BY <1>1, <1>6, <2>1, ScreenStep DEF Signup
<1>7. CASE BackToMain
  BY <1>1, <1>7, ScreenStep DEF BackToMain, formVars
<1>8. CASE EditNickname
  <2>1. scene = "lobby" /\ scene' \in {"lobby", "error", "invalid"}
    BY <1>8 DEF EditNickname
  <2>2. renamed' \in BOOLEAN
    BY <1>1, <1>8 DEF EditNickname
  <2> QED
    BY <1>1, <1>8, <2>1, <2>2, ScreenStep DEF EditNickname
<1> QED
  BY <1>2, <1>3, <1>4, <1>5, <1>6, <1>7, <1>8

----------------------------------------------------------------------------
(* The end of the game.                                                    *)

\* The winner of the session is there from the move that ends it.
WinnerKnown == IF session = "over" THEN winner \in Team ELSE winner = NoTeam

\* A GAME_OVER under way to a client with a session is that of this session.
OverLines ==
  session # "none" =>
    \A i \in DOMAIN down :
      down[i].line = "GAME_OVER" => session = "over" /\ down[i].team = winner

\* The winner the screen shows is that of this session, and the result screen
\* shows one.
EndShown ==
  /\ session # "none" /\ scene \in {"game", "result"} =>
       view.winner_team \in {NoTeam, winner}
  /\ scene = "result" => gameOver

EInv == WinnerKnown /\ OverLines /\ EndShown

\* Every GAME_OVER of these lines is among those.
OverAmong(lines, before) ==
  \A i \in DOMAIN lines :
    lines[i].line = "GAME_OVER" => \E j \in DOMAIN before : lines[i] = before[j]

\* A step that neither ends the game nor brings a GAME_OVER.
LEMMA EndKept ==
  ASSUME EInv, UNCHANGED <<session, winner>>,
         session # "none" => OverAmong(down', down),
         \/ scene' \notin {"game", "result"}
         \/ scene' = "game" /\ view'.winner_team = NoTeam
         \/ scene' = scene /\ view'.winner_team = view.winner_team
         \/ scene = "game" /\ gameOver /\ UNCHANGED view
  PROVE  EInv'
<1>1. WinnerKnown' /\ EndShown'
  BY DEF EInv, WinnerKnown, EndShown, gameOver
<1>2. OverLines'
  BY DEF EInv, OverLines, OverAmong
<1> QED
  BY <1>1, <1>2 DEF EInv

\* One line more, which is no GAME_OVER.
LEMMA OverSent ==
  ASSUME NEW s \in Seq(DownLines), NEW l \in DownLines, l.line # "GAME_OVER"
  PROVE  OverAmong(Append(s, l), s) /\ OverAmong(s \o <<l>>, s)
<1>1. OverAmong(Append(s, l), s)
  BY Sending DEF OverAmong
<1>2. s \o <<l>> = Append(s, l)
  BY Singles
<1> QED
  BY <1>1, <1>2

\* What is left of the lines.
LEMMA OverTaken ==
  ASSUME NEW s \in Seq(DownLines)
  PROVE  /\ OverAmong(s, s)
         /\ s # <<>> => OverAmong(Tail(s), s)
         /\ \A n \in 0 .. Len(s) : OverAmong(After(s, n), s)
<1>1. OverAmong(s, s)
  BY DEF OverAmong
<1>2. s # <<>> => OverAmong(Tail(s), s)
  BY TakingOne DEF OverAmong
<1>3. \A n \in 1 .. Len(s) : OverAmong(After(s, n), s)
  BY Taking DEF OverAmong
<1>4. OverAmong(After(s, 0), s)
  <2>1. Len(s) \in Nat /\ DOMAIN s = 1 .. Len(s) /\ 0 \in 0 .. Len(s)
    BY LenProperties
  <2>2. /\ After(s, 0) \in Seq(DownLines) /\ Len(After(s, 0)) = Len(s) - 0
        /\ \A i \in 1 .. Len(s) - 0 : After(s, 0)[i] = s[i + 0]
    BY <2>1, AfterProperties
  <2>3. DOMAIN After(s, 0) = 1 .. Len(s)
    BY <2>1, <2>2, LenProperties
  <2>4. \A i \in 1 .. Len(s) : After(s, 0)[i] = s[i]
    BY <2>1, <2>2
  <2> QED
    BY <2>1, <2>3, <2>4 DEF OverAmong
<1>5. Len(s) \in Nat
  BY LenProperties
<1>6. \A n \in 0 .. Len(s) : n = 0 \/ n \in 1 .. Len(s)
  BY <1>5
<1> QED
  BY <1>1, <1>2, <1>3, <1>4, <1>6

\* A hint is not the end.
LEMMA EndHint ==
  ASSUME CInv, EInv, NEW n \in HintNumbers, Hint(n)
  PROVE  EInv'
<1> DEFINE l1 == [line |-> "HINT", team |-> turn]
           l2 == TurnUpdate(turn)
<1>1. /\ session = "open" /\ session' = session /\ winner' = winner
      /\ UNCHANGED revealed /\ UNCHANGED clientVars
      /\ down' = down \o <<l1, l2>>
  BY DEF Hint, GiveHint, Broadcast
<1>2. turn \in Team /\ down \in Seq(DownLines) /\ revealed' \in SUBSET Word
  BY <1>1 DEF CInv, TypeOK
<1>3. l1 \in DownLines /\ l1.line # "GAME_OVER"
  BY <1>2 DEF DownLines
<1>4. l2 \in DownLines /\ l2.line # "GAME_OVER"
  BY <1>2, TurnLine DEF TurnUpdate
<1> HIDE DEF l1, l2
<1> DEFINE d == Append(down, l1)
<1>5. d \in Seq(DownLines) /\ OverAmong(d, down)
  BY <1>2, <1>3, Sending, OverSent
<1>6. down' = Append(d, l2)
  BY <1>1, <1>2, <1>3, <1>4, Singles
<1> HIDE DEF d
<1>7. OverAmong(down', d)
  BY <1>4, <1>5, <1>6, OverSent
<1>8. OverAmong(down', down)
  BY <1>5, <1>7 DEF OverAmong
<1> QED
  BY <1>1, <1>8, EndKept DEF clientVars

\* A guess ends the game with its own GAME_OVER, or brings none.
LEMMA EndAnswer ==
  ASSUME CInv, EInv, NEW w \in Word, Answer(w)
  PROVE  EInv'
<1> DEFINE c == [line |-> "CARD_UPDATE", word |-> w]
           t == TurnUpdate(IF allowance' = 0 THEN turn' ELSE 2)
           o == [line |-> "GAME_OVER", team |-> winner']
<1>1. /\ session = "open" /\ Guess(w)
      /\ session' = IF winner' = NoTeam THEN "open" ELSE "over"
      /\ UNCHANGED clientVars /\ down' = down \o Turned(w)
  BY DEF Answer, Broadcast
<1>2. TypeOK /\ revealed \in SUBSET Word /\ down \in Seq(DownLines)
  BY DEF CInv, TypeOK
<1>3. /\ revealed' \in SUBSET Word /\ turn' \in Team
      /\ winner' \in Team \cup {NoTeam}
      /\ layout[w] = "assassin" => winner' # NoTeam
  BY <1>1, <1>2, GuessEffects
<1>4. c \in DownLines /\ c.line # "GAME_OVER"
  BY DEF DownLines
<1>5. t \in DownLines /\ t.line # "GAME_OVER"
  BY <1>3, TurnLine DEF TurnUpdate
<1>6. winner' # NoTeam => o \in DownLines
  BY <1>3 DEF DownLines
<1>7. o.team = winner'
  OBVIOUS
<1>8. /\ layout[w] # "assassin" /\ winner' = NoTeam => Turned(w) = <<c, t>>
      /\ layout[w] # "assassin" /\ winner' # NoTeam => Turned(w) = <<c, t, o>>
      /\ layout[w] = "assassin" /\ winner' # NoTeam => Turned(w) = <<c, o>>
  BY TurnedLines
<1> HIDE DEF c, t, o
<1> DEFINE dc == Append(down, c)
           dct == Append(dc, t)
<1>9. dc \in Seq(DownLines) /\ OverAmong(dc, down)
  BY <1>2, <1>4, Sending, OverSent
<1> HIDE DEF dc
<1>10. dct \in Seq(DownLines) /\ OverAmong(dct, dc)
  BY <1>5, <1>9, Sending, OverSent
<1> HIDE DEF dct
<1>11. OverAmong(dct, down)
  BY <1>9, <1>10 DEF OverAmong
<1>12. /\ winner' = NoTeam => down' = dct
       /\ winner' # NoTeam => down' \in {Append(dct, o), Append(dc, o)}
  <2>1. down \o <<c, t>> = dct
    BY <1>2, <1>4, <1>5, Singles DEF dc, dct
  <2>2. winner' # NoTeam => down \o <<c, t, o>> = Append(dct, o)
    BY <1>2, <1>4, <1>5, <1>6, Singles DEF dc, dct
  <2>3. winner' # NoTeam => down \o <<c, o>> = Append(dc, o)
    BY <1>2, <1>4, <1>6, Singles DEF dc
  <2> QED
    BY <1>1, <1>3, <1>8, <2>1, <2>2, <2>3
<1>13. /\ \A i \in DOMAIN down : down[i].line # "GAME_OVER"
       /\ winner = NoTeam /\ NoTeam \notin Team
       /\ scene = "game" => view.winner_team = NoTeam
       /\ scene # "result"
  BY <1>1
  DEF EInv, WinnerKnown, OverLines, EndShown, gameOver, NoTeam, Team, Red, Blue
<1>14. WinnerKnown' /\ EndShown'
  BY <1>1, <1>3, <1>13 DEF WinnerKnown, EndShown, clientVars
<1>15. /\ \A i \in DOMAIN dc : dc[i].line # "GAME_OVER"
       /\ \A i \in DOMAIN dct : dct[i].line # "GAME_OVER"
  BY <1>9, <1>11, <1>13 DEF OverAmong
<1>16. CASE winner' = NoTeam
  BY <1>12, <1>14, <1>15, <1>16 DEF EInv, OverLines
<1>17. CASE winner' # NoTeam
  <2>1. PICK d \in {dc, dct} : down' = Append(d, o)
    BY <1>12, <1>17
  <2>2. d \in Seq(DownLines) /\ o \in DownLines
    BY <1>6, <1>9, <1>10, <1>17
  <2>3. \A i \in DOMAIN down' : down'[i] = o \/ down'[i].line # "GAME_OVER"
    BY <1>15, <2>1, <2>2, Sending
  <2> QED
    BY <1>1, <1>7, <1>14, <1>17, <2>3 DEF EInv, OverLines
<1> QED
  BY <1>16, <1>17

\* The end, through the server's steps.
LEMMA EndServer ==
  ASSUME CInv, EInv, Server \/ OthersMove
  PROVE  EInv'
<1>1. /\ down \in Seq(DownLines) /\ up \in Seq(UpLines)
      /\ OverAmong(down, down)
  BY OverTaken DEF CInv, TypeOK
<1>2. CASE OwnHint
  <2>1. CASE MayHint(Head(up))
    <3>1. Receive("HINT") /\ Hint(Head(up).number)
      BY <1>2, <2>1 DEF OwnHint
    <3>2. Head(up) \in UpLines /\ Head(up).line = "HINT"
      BY <1>1, <3>1, TakingOne DEF Receive
    <3>3. Head(up).number \in HintNumbers
      BY <3>2 DEF UpLines
    <3> QED
      BY <3>1, <3>3, EndHint
  <2>2. CASE ~ MayHint(Head(up))
    BY <1>1, <1>2, <2>2, EndKept
    DEF OwnHint, serverVars, rulesVars, clientVars
  <2> QED
    BY <2>1, <2>2
<1>3. CASE OwnAnswer
  <2>1. CASE MayAnswer(Head(up))
    BY <1>3, <2>1, EndAnswer DEF OwnAnswer, MayAnswer
  <2>2. CASE ~ MayAnswer(Head(up))
    BY <1>1, <1>3, <2>2, EndKept
    DEF OwnAnswer, serverVars, rulesVars, clientVars
  <2> QED
    BY <2>1, <2>2
<1>4. CASE OthersMove
  BY <1>4, EndHint, EndAnswer DEF OthersMove
<1>5. CASE OpenGame
  <2> DEFINE l == TurnUpdate(turn)
  <2>1. /\ session = "registered" /\ session' = "open" /\ down' = down \o <<l>>
        /\ UNCHANGED rulesVars /\ UNCHANGED clientVars
    BY <1>5 DEF OpenGame, Broadcast
  <2>2. turn \in Team /\ revealed' \in SUBSET Word
    BY <2>1 DEF CInv, TypeOK, rulesVars
  <2>3. l \in DownLines /\ l.line # "GAME_OVER"
    BY <2>2, TurnLine DEF TurnUpdate
  <2> HIDE DEF l
  <2>4. OverAmong(down', down)
    BY <1>1, <2>1, <2>3, OverSent
  <2> QED
    BY <2>1, <2>4
    DEF EInv, WinnerKnown, OverLines, EndShown, OverAmong, gameOver, rulesVars,
        clientVars
<1>6. CASE AckSession
  <2> DEFINE l == [line |-> "SESSION_ACK"]
  <2>1. /\ down' = down \o <<l>> /\ UNCHANGED <<serverVars, clientVars>>
    BY <1>6 DEF AckSession, Broadcast
  <2>2. l \in DownLines /\ l.line # "GAME_OVER"
    BY DEF DownLines
  <2> HIDE DEF l
  <2>3. OverAmong(down', down)
    BY <1>1, <2>1, <2>2, OverSent
  <2> QED
    BY <2>1, <2>3, EndKept DEF serverVars, rulesVars, clientVars
<1>7. CASE CopyCards
  BY <1>1, <1>7, EndKept DEF CopyCards, rulesVars, clientVars
<1>8. CASE SendCards
  <2>1. PICK used \in SUBSET revealed :
          down' = down \o <<[line |-> "ALL_CARDS", used |-> used]>>
    BY <1>8 DEF SendCards, Broadcast
  <2>2. UNCHANGED <<session, rulesVars, clientVars>> /\ revealed \subseteq Word
    BY <1>8 DEF SendCards, CInv, TypeOK
  <2> DEFINE l == [line |-> "ALL_CARDS", used |-> used]
  <2>3. l \in DownLines /\ l.line # "GAME_OVER" /\ down' = down \o <<l>>
    BY <2>1, <2>2 DEF DownLines
  <2> HIDE DEF l
  <2>4. OverAmong(down', down)
    BY <1>1, <2>3, OverSent
  <2> QED
    BY <2>2, <2>4, EndKept DEF rulesVars, clientVars
<1> QED
  BY <1>2, <1>3, <1>4, <1>5, <1>6, <1>7, <1>8 DEF Server

\* A session comes and goes where nothing of a game is under way or shown.
LEMMA EndSession ==
  ASSUME CInv, EInv, ServeTcp \/ ServeQuit \/ StartRoom
  PROVE  EInv'
<1>1. CASE ServeTcp
  <2>1. /\ session = "none" /\ UNCHANGED <<rulesVars, clientVars>>
        /\ up \in Seq(UpLines)
    BY <1>1 DEF ServeTcp, CInv, TypeOK
  <2>2. \/ session' = "none"
        \/ Head(up).line = "QUERY_WAIT" /\ session' = "queued" /\ UNCHANGED down
    BY <1>1 DEF ServeTcp
  <2>3. Head(up).line = "QUERY_WAIT" => scene = "waiting" /\ down = <<>>
    <3>1. PICK n \in 1 .. Len(up) : up' = After(up, n)
      BY <1>1 DEF ServeTcp
    <3>2. 1 \in DOMAIN up /\ Head(up) = up[1]
      BY <2>1, <3>1, Taking
    <3> QED
      BY <2>1, <3>2 DEF CInv, Tidy, TokenLast, Matching
  <2> QED
    BY <2>1, <2>2, <2>3
    DEF EInv, WinnerKnown, OverLines, EndShown, gameOver, rulesVars, clientVars
<1>2. CASE ServeQuit
  BY <1>2 DEF ServeQuit, EInv, WinnerKnown, OverLines, EndShown, gameOver, clientVars
<1>3. CASE StartRoom
  <2>1. /\ session = "queued" /\ scene = "waiting" /\ session' = "registered"
        /\ down' = Append(down, [line |-> "GAME_START"])
        /\ UNCHANGED <<winner, scene>>
    BY <1>3 DEF StartRoom
  <2>2. down = <<>>
    BY <2>1 DEF CInv, Tidy, Matching
  <2>3. down' = <<Start>>
    BY <2>1, <2>2 DEF Start
  <2> QED
    BY <2>1, <2>3 DEF EInv, WinnerKnown, OverLines, EndShown, Start
<1> QED
  BY <1>1, <1>2, <1>3

\* The listener shows the winner it hears of.
LEMMA EndListener ==
  ASSUME CInv, EInv, Listener
  PROVE  EInv'
<1>1. scene = "game" /\ scene' = "game" /\ UNCHANGED serverVars
  BY DEF Listener, RequestCards, HearAck, HearAllCards, HearCard, HearTurn,
         HearHint, HearOver, Hear
<1>2. view \in Views /\ down \in Seq(DownLines) /\ OverAmong(down, down)
  BY OverTaken DEF CInv, TypeOK
<1>3. CASE RequestCards
  <2>1. view'.winner_team = view.winner_team /\ down' = down
    BY <1>2, <1>3 DEF RequestCards, Views
  <2> QED
    BY <1>1, <1>2, <2>1, EndKept DEF serverVars, rulesVars
<1>4. CASE ~ RequestCards
  <2>1. /\ \E line : Hear(line)
        /\ \/ view'.winner_team = view.winner_team
           \/ HearOver
    BY <1>2, <1>4
    DEF Listener, HearAck, HearAllCards, HearCard, HearTurn, HearHint, HearOver,
        Views
  <2>2. down # <<>> /\ down' = Tail(down)
    BY <2>1 DEF Hear
  <2>3. OverAmong(down', down)
    BY <1>2, <2>2, OverTaken
  <2>4. CASE view'.winner_team = view.winner_team
    BY <1>1, <2>3, <2>4, EndKept DEF serverVars, rulesVars
  <2>5. CASE HearOver
    <3>1. /\ Head(down).line = "GAME_OVER"
          /\ view' = [view EXCEPT !.winner_team = Head(down).team]
      BY <2>5 DEF HearOver, Hear
    <3>2. view'.winner_team = Head(down).team
      BY <1>2, <3>1 DEF Views
    <3>3. 1 \in DOMAIN down /\ Head(down) = down[1]
      BY <1>2, <2>2, TakingOne
    <3>4. session # "none" => view'.winner_team = winner
      BY <3>1, <3>2, <3>3 DEF EInv, OverLines
    <3>5. WinnerKnown' /\ EndShown'
      BY <1>1, <3>4 DEF EInv, WinnerKnown, EndShown, serverVars, rulesVars
    <3>6. OverLines'
      BY <1>1, <2>3 DEF EInv, OverLines, OverAmong, serverVars, rulesVars
    <3> QED
      BY <3>5, <3>6 DEF EInv
  <2> QED
    BY <2>1, <2>4, <2>5
<1> QED
  BY <1>3, <1>4

\* The end, through the other steps of the client.
LEMMA EndClient ==
  ASSUME CInv, EInv, Program \/ User \/ Accept \/ UNCHANGED vars
  PROVE  EInv'
<1> USE DEF serverVars, rulesVars, clientVars, screenVars, inputVars
<1>1. /\ down \in Seq(DownLines) /\ OverAmong(down, down)
      /\ login_scene \notin {"game", "result"}
  BY OverTaken DEF CInv, TypeOK
<1>2. CASE Accept \/ UNCHANGED vars
  BY <1>1, <1>2, EndKept DEF Accept, AcceptTls, AcceptTcp, AcceptOther, vars
<1>3. CASE Connected \/ EnterMain \/ CloseGame \/ ReadProfile
  <2>1. scene' \notin {"game", "result"} /\ UNCHANGED <<session, winner>>
    BY <1>3 DEF Connected, EnterMain, CloseGame, ReadProfile, Show, SameGame
  <2>2. OverAmong(down', down)
    <3>1. CASE ReadProfile
      <4>1. PICK n \in 1 .. Len(down) : down' = After(down, n)
        BY <3>1 DEF ReadProfile
      <4>2. n \in 0 .. Len(down)
        BY <1>1, <4>1, LenProperties
      <4> QED
        BY <1>1, <4>1, <4>2, OverTaken
    <3>2. CASE Connected \/ EnterMain
      BY <1>1, <3>2 DEF Connected, EnterMain
    <3>3. CASE CloseGame
      BY <3>3 DEF CloseGame, OverAmong
    <3> QED
      BY <1>3, <3>1, <3>2, <3>3
  <2> QED
    BY <2>1, <2>2, EndKept
<1>4. CASE ReadStart \/ ShowResult
  <2>1. /\ \/ scene' \notin {"game", "result"}
           \/ scene = "game" /\ gameOver /\ UNCHANGED view
        /\ UNCHANGED <<session, winner>>
    BY <1>4 DEF ReadStart, ShowResult
  <2>2. PICK n \in 0 .. Len(down) : down' = After(down, n)
    <3>1. Len(down) \in Nat
      BY <1>1, LenProperties
    <3> QED
      BY <1>4, <3>1 DEF ReadStart, ShowResult
  <2> QED
    BY <1>1, <2>1, <2>2, OverTaken, EndKept
<1>5. CASE OpenScreen
  <2>1. /\ scene' = "game" /\ view'.winner_team = NoTeam
        /\ UNCHANGED <<session, winner, down>>
    BY <1>5 DEF OpenScreen, BlankView
  <2> QED
    BY <1>1, <2>1, EndKept
<1>6. CASE Listener
  BY <1>6, EndListener
<1>7. CASE Keys \/ TakeInput \/ ActOnInput
  <2>1. scene' = scene /\ UNCHANGED <<session, winner, down, view>>
    BY <1>7
    DEF Keys, Tab, ChooseReport, EnterText, MayType, TakeInput, ActOnInput
  <2> QED
    BY <1>1, <2>1, EndKept
<1>8. CASE EditLogin \/ PressLogin \/ QuitLogin \/ OpenSignup \/ Signup
           \/ BackToMain \/ EditNickname \/ PressMatch
  <2>1. scene' \notin {"game", "result"} /\ UNCHANGED <<session, winner, down>>
    BY <1>1, <1>8
    DEF EditLogin, PressLogin, QuitLogin, OpenSignup, Signup, EditSignup,
        PressSignup, BackToMain, EditNickname, PressMatch, Show, SameGame
  <2> QED
    BY <1>1, <2>1, EndKept
<1> QED
  BY <1>2, <1>3, <1>4, <1>5, <1>6, <1>7, <1>8
  DEF Program, User, InGame, MainLoop

----------------------------------------------------------------------------
(* The theorems.                                                           *)

\* Every step keeps the invariant.
LEMMA CInvStep == CInv /\ [Next]_vars => CInv'
<1> SUFFICES ASSUME CInv, [Next]_vars
             PROVE  CInv'
  OBVIOUS
<1>1. CASE Accept \/ EditLogin \/ UNCHANGED vars
  BY <1>1, FormsStep
<1>2. CASE InGame(Server)
  BY <1>2, OpenGameStep, OwnHintStep, OwnAnswerStep, AckSessionStep,
     CopyCardsStep, SendCardsStep
  DEF InGame, Server
<1>3. CASE ServeTcp \/ ServeQuit \/ StartRoom
  BY <1>3, ServeTcpStep, ServeQuitStep, StartRoomStep
<1>4. CASE EnterMain \/ ReadProfile \/ CloseGame \/ PressMatch
  BY <1>4, EnterMainStep, ReadProfileStep, CloseGameStep, PressMatchStep
<1>5. CASE InGame(ReadStart) \/ InGame(OpenScreen)
  BY <1>5, ReadStartStep, OpenScreenStep
<1>6. CASE InGame(Listener)
  BY <1>6, RequestCardsStep, HearAckStep, HearAllCardsStep, HearCardStep,
     HearTurnStep, HearHintStep, HearOverStep
  DEF InGame, Listener
<1>7. CASE InGame(MainLoop)
  BY <1>7, TakeInputStep, ActOnInputStep, ShowResultStep DEF InGame, MainLoop
<1>8. CASE \/ Connected \/ PressLogin \/ QuitLogin \/ OpenSignup \/ Signup
           \/ BackToMain \/ EditNickname
  BY <1>8, ScreensStep
<1>9. CASE InGame(Keys)
  BY <1>9, KeysStep
<1>10. CASE InGame(OthersMove)
  BY <1>10, OthersMoveStep
<1> QED
  BY <1>1, <1>2, <1>3, <1>4, <1>5, <1>6, <1>7, <1>8, <1>9, <1>10
  DEF Next, ServerStep, Program, User

\* The program, its connections and the game on the server stay in the
\* inductive invariant: where the client and the server are in their exchange
\* limits what can be under way, and what is under way leads the screen to
\* the state of the game.
THEOREM ClientInvariance == Spec => []CInv
<1> QED
  BY CInvInit, CInvStep, PTL DEF Spec

\* Every line under way, the view and the input have their types: no thread
\* of the client meets a line that it was not made for.
THEOREM ClientTypeCorrect == Spec => []TypeOK
<1>1. CInv => TypeOK
  BY DEF CInv
<1> QED
  BY <1>1, ClientInvariance, PTL

\* How a game has ended stays with the GAME_OVER under way and with what the
\* screen shows of it.
LEMMA EndInvariance == Spec => []EInv
<1>1. Init => EInv
  BY DEF Init, RulesInit, EInv, WinnerKnown, OverLines, EndShown
<1>2. CInv /\ EInv /\ [Next]_vars => EInv'
  BY EndServer, EndSession, EndClient DEF Next, ServerStep, InGame
<1> QED
  BY <1>1, <1>2, ClientInvariance, PTL DEF Spec

\* The screen shows no card that was not turned in this game, no winner but
\* its winner, and no result before it is over (reset_game_state, and the
\* lines of an earlier game that main and the matching thread leave behind).
THEOREM ScreenOfThisGameCorrect == Spec => []ScreenOfThisGame
<1>1. CInv /\ EInv => ScreenOfThisGame
  BY DEF CInv, Fresh, EInv, WinnerKnown, EndShown, gameOver, ScreenOfThisGame
<1> QED
  BY <1>1, ClientInvariance, EndInvariance, PTL

\* When nothing is under way the screen agrees with the server, whatever the
\* listener has read in which order: the broadcasts of the game thread are
\* enough to follow the game, though the snapshot of the cards is taken
\* without game_lock, but for the cards turned while it was taken.
THEOREM ViewSettlesCorrect == Spec => []ViewSettles
<1>1. CInv => ViewSettles
  <2>1. SUFFICES ASSUME CInv, scene = "game", session = "open", Quiet,
                        view.last_card_request # 0, view.turn_team # Unknown
                 PROVE  /\ <<view.turn_team, view.phase>> = <<turn, Phase>>
                        /\ view.red = Score(Red, revealed)
                        /\ view.blue = Score(Blue, revealed)
                        /\ view.cards_initialized /\ view.used = revealed \ missed
    BY DEF ViewSettles
  <2>2. copy = NoCopy /\ up = <<>> /\ down = <<>>
    BY <2>1 DEF Quiet
  <2>3. PICK x \in Pictures : Leads(Picture, <<>>, x) /\ Agrees(x) /\ CardsToCome(x)
    BY <2>1, <2>2 DEF CInv, Foreseen
  <2>4. Picture = Shown(view) /\ Shown(view) \in Pictures
    BY <2>1, InItsGame DEF Picture, Shown, Views, Pictures
  <2>5. x = Shown(view)
    BY <2>3, <2>4, LeadsNowhere
  <2>6. /\ x.turn = view.turn_team /\ x.phase = view.phase /\ x.red = view.red
        /\ x.blue = view.blue /\ x.used = view.used
        /\ x.cards = view.cards_initialized
    BY <2>5 DEF Shown
  <2>7. x.cards
    BY <2>1, <2>2, <2>3 DEF CardsToCome, CardsAsked
  <2> QED
    BY <2>1, <2>3, <2>6, <2>7 DEF Agrees
<1> QED
  BY <1>1, ClientInvariance, PTL
=============================================================================
