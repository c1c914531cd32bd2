------------------------- MODULE GameSession_proof -------------------------
(***************************************************************************)
(* Theorems about GameSession, for every board, every team size, every set *)
(* of hint numbers and every length of the queue: its type invariant, its  *)
(* safety invariants, that it plays by CodenamesRules, and, from the       *)
(* fairness of the game thread, its liveness.                              *)
(***************************************************************************)
EXTENDS GameSession, FiniteSetTheorems, TLAPS

\* At most one of the three ends of a game is on the board.
OneEnd ==
  /\ ~ (Of(cards, "red") \subseteq used /\ Of(cards, "blue") \subseteq used)
  /\ Of(cards, "assassin") \subseteq used
       => /\ ~ (Of(cards, "red") \subseteq used)
          /\ ~ (Of(cards, "blue") \subseteq used)

\* The results follow the winner, seat by seat.
WindUpOK ==
  /\ pc \in {"save", "freed"} => winner_team = WinnerTeam
  /\ pc \notin {"save", "freed"} => saved = 0
  /\ pc = "freed" => saved = NumPlayers
  /\ \A p \in Players :
       results[p] \in IF p < saved
                      THEN {IF TeamOf(p) = winner_team THEN "WIN" ELSE "LOSS",
                            "failed"}
                      ELSE {"none"}

GameInv ==
  /\ TypeOK
  /\ ScoresMatchBoard
  /\ OverExactlyWhenDecided
  /\ TriesWithinHint
  /\ OneEnd
  /\ WindUpOK

----------------------------------------------------------------------------
(* The board.                                                              *)

\* Counting the used cards of a colour tells whether the colour is complete.
LEMMA CountTellsComplete ==
  ASSUME NEW S, IsFiniteSet(S), NEW u
  PROVE  /\ Cardinality(u \cap S) \in Nat
         /\ Cardinality(u \cap S) >= Cardinality(S) <=> S \subseteq u
<1>1. /\ IsFiniteSet(u \cap S)
      /\ Cardinality(u \cap S) <= Cardinality(S)
      /\ u \cap S = S \/ Cardinality(u \cap S) # Cardinality(S)
  BY FS_Subset
<1>2. Cardinality(u \cap S) \in Nat /\ Cardinality(S) \in Nat
  BY <1>1, FS_CardinalityType
<1>3. S \subseteq u <=> u \cap S = S
  OBVIOUS
<1> QED
  BY <1>1, <1>2, <1>3

\* Turning one more card moves the count of its colour, and no other, by one.
LEMMA CountOneMore ==
  ASSUME NEW S, IsFiniteSet(S), NEW u, NEW w, w \notin u
  PROVE  Cardinality((u \cup {w}) \cap S)
           = IF w \in S THEN Cardinality(u \cap S) + 1
                        ELSE Cardinality(u \cap S)
<1>1. IsFiniteSet(u \cap S)
  BY FS_Subset
<1>2. CASE w \in S
  <2>1. (u \cup {w}) \cap S = (u \cap S) \cup {w} /\ w \notin u \cap S
    BY <1>2
  <2> QED
    BY <1>1, <1>2, <2>1, FS_AddElement
<1>3. CASE w \notin S
  <2>1. (u \cup {w}) \cap S = u \cap S
    BY <1>3
  <2> QED
    BY <1>3, <2>1
<1> QED
  BY <1>2, <1>3

\* The colours of a board: finite, as many cards as the goals, none empty,
\* and a single assassin.
LEMMA ColoursOfBoard ==
  ASSUME NEW layout \in Layouts
  PROVE  /\ layout \in [Word -> Colours]
         /\ \A colour \in Colours : IsFiniteSet(Of(layout, colour))
         /\ Cardinality(Of(layout, "red")) = NumRed
         /\ Cardinality(Of(layout, "blue")) = NumBlue
         /\ Of(layout, "red") # {} /\ Of(layout, "blue") # {}
         /\ \E a \in Word : Of(layout, "assassin") = {a}
<1>1. /\ layout \in [Word -> Colours]
      /\ Cardinality(Of(layout, "red")) = NumRed
      /\ Cardinality(Of(layout, "blue")) = NumBlue
      /\ Cardinality(Of(layout, "assassin")) = 1
      /\ NumRed \in Nat \ {0} /\ NumBlue \in Nat \ {0}
  BY BoardAssumption
<1>2. \A colour \in Colours : IsFiniteSet(Of(layout, colour))
  BY BoardAssumption, FS_Subset DEF Of
<1>3. Of(layout, "red") # {} /\ Of(layout, "blue") # {}
  BY <1>1, FS_EmptySet
<1>4. \E a : Of(layout, "assassin") = {a}
  BY <1>1, <1>2, FS_Singleton DEF Colours
<1>5. \A a : Of(layout, "assassin") = {a} => a \in Word
  BY DEF Of
<1> QED
  BY <1>1, <1>2, <1>3, <1>4, <1>5

\* The goals of the scores are reached exactly by complete colours.
LEMMA ScoreTellsComplete ==
  ASSUME cards \in Layouts, ScoresMatchBoard
  PROVE  /\ redScore >= NumRed <=> Of(cards, "red") \subseteq used
         /\ blueScore >= NumBlue <=> Of(cards, "blue") \subseteq used
<1>1. /\ IsFiniteSet(Of(cards, "red")) /\ IsFiniteSet(Of(cards, "blue"))
      /\ Cardinality(Of(cards, "red")) = NumRed
      /\ Cardinality(Of(cards, "blue")) = NumBlue
  BY ColoursOfBoard DEF Colours
<1> QED
  BY <1>1, CountTellsComplete DEF ScoresMatchBoard

----------------------------------------------------------------------------
(* The inductive invariant.                                                *)

\* EVENT_NONE is no event a player sends.
LEMMA NoEventIsNoEvent == NoEvent \notin Events
  BY DEF NoEvent, Events

\* The fields of an event, by its type.
LEMMA EventFields ==
  ASSUME NEW e \in Events
  PROVE  /\ e.player \in Players
         /\ e.type \in {"CHAT", "HINT", "ANSWER"}
         /\ e.type = "HINT" => e.number \in HintNumbers \cup {NoNumber}
         /\ e.type = "ANSWER" => e.word \in Word \cup {OffBoard}
  BY DEF Events

\* A dealt board on which nothing is used.
LEMMA InitEstablishesGameInv == Init => GameInv
<1> SUFFICES ASSUME Init PROVE GameInv
  OBVIOUS
<1> USE DEF Init
<1>1. TypeOK
  <2>1. events \in Seq(Events) /\ Len(events) < MaxEvents
    BY SessionAssumption
  <2>2. saved \in 0 .. NumPlayers
    <3>1. NumPlayers \in Nat
      BY SessionAssumption DEF NumPlayers
    <3>2. saved = 0
      OBVIOUS
    <3> QED
      BY <3>1, <3>2
  <2>3. results \in [Players -> {"none", "WIN", "LOSS", "failed"}]
    OBVIOUS
  <2>4. ev \in Events \cup {NoEvent} /\ (pc = "handle" <=> ev \in Events)
    BY NoEventIsNoEvent
  <2>5. /\ cards \in Layouts /\ used \in SUBSET Word
        /\ redScore \in Nat /\ blueScore \in Nat
        /\ turn_team \in {0, 1} /\ phase \in {0, 1}
    OBVIOUS
  <2>6. hint_count \in HintNumbers \cup {0} /\ remaining_tries \in Int
    OBVIOUS
  <2>7. game_over \in BOOLEAN
    OBVIOUS
  <2>8. winner_team \in {0, 1, NoTeam}
    OBVIOUS
  <2>9. pc \in {"loop", "handle", "gameover", "save", "freed"}
    OBVIOUS
  <2> QED
    BY <2>1, <2>2, <2>3, <2>4, <2>5, <2>6, <2>7, <2>8, <2>9 DEF TypeOK
<1>2. ScoresMatchBoard
  <2>1. used \cap Of(cards, "red") = {} /\ used \cap Of(cards, "blue") = {}
    OBVIOUS
  <2> QED
    BY <2>1, FS_EmptySet DEF ScoresMatchBoard
<1>3. ~ Decided /\ OneEnd
  BY ColoursOfBoard DEF Decided, OneEnd
<1>4. TriesWithinHint /\ WindUpOK
  BY SessionAssumption DEF TriesWithinHint, WindUpOK, Players, NumPlayers
<1> QED
  BY <1>1, <1>2, <1>3, <1>4 DEF GameInv, OverExactlyWhenDecided

\* Steps that turn no card keep everything about the board.
LEMMA NoCardTurned ==
  ASSUME GameInv, UNCHANGED <<cards, used, redScore, blueScore>>
  PROVE  /\ ScoresMatchBoard'
         /\ OneEnd'
         /\ Decided' <=> Decided
         /\ turn_team' = turn_team => WinnerTeam' = WinnerTeam
  BY DEF GameInv, ScoresMatchBoard, OneEnd, Decided, Of, WinnerTeam

\* An event that is queued touches no part of the game.
LEMMA EnqueuePreserves ==
  ASSUME GameInv, NEW e \in Events, Enqueue(e)
  PROVE  GameInv'
<1>1. ScoresMatchBoard' /\ OneEnd' /\ (Decided' <=> Decided)
      /\ WinnerTeam' = WinnerTeam
  BY NoCardTurned DEF Enqueue, boardVars, turnVars
<1>2. TypeOK'
  <2>1. events' \in Seq(Events) /\ Len(events') < MaxEvents
    BY SessionAssumption DEF Enqueue, GameInv, TypeOK
  <2> QED
    BY <2>1 DEF Enqueue, GameInv, TypeOK, boardVars, turnVars, endVars
<1>3. OverExactlyWhenDecided' /\ TriesWithinHint' /\ WindUpOK'
  BY <1>1 DEF Enqueue, GameInv, OverExactlyWhenDecided, TriesWithinHint,
              WindUpOK, boardVars, turnVars, endVars
<1> QED
  BY <1>1, <1>2, <1>3 DEF GameInv

\* Nor does one that is taken, before it is handled.
LEMMA DequeuePreserves ==
  ASSUME GameInv, Dequeue
  PROVE  GameInv'
<1>1. ScoresMatchBoard' /\ OneEnd' /\ (Decided' <=> Decided)
      /\ WinnerTeam' = WinnerTeam
  BY NoCardTurned DEF Dequeue, boardVars, turnVars
<1>2. TypeOK'
  <2>1. /\ Head(events) \in Events
        /\ Tail(events) \in Seq(Events)
        /\ Len(Tail(events)) < MaxEvents
    BY SessionAssumption DEF Dequeue, GameInv, TypeOK
  <2> QED
    BY <2>1 DEF Dequeue, GameInv, TypeOK, boardVars, turnVars, endVars
<1>3. OverExactlyWhenDecided' /\ TriesWithinHint' /\ WindUpOK'
  BY <1>1 DEF Dequeue, GameInv, OverExactlyWhenDecided, TriesWithinHint,
              WindUpOK, boardVars, turnVars, endVars
<1> QED
  BY <1>1, <1>2, <1>3 DEF GameInv

\* The handlers that turn no card: a hint, a line that is dropped, an answer
\* that names no card.
LEMMA HandleWithoutCardPreserves ==
  ASSUME GameInv, HandleHint \/ HandleOther \/ HandleUnknownWord
  PROVE  GameInv'
<1>1. /\ UNCHANGED <<cards, used, redScore, blueScore, turn_team>>
      /\ LeaveBody("loop") /\ pc = "handle"
  BY DEF HandleHint, HandleOther, HandleUnknownWord, boardVars, turnVars
<1>2. ScoresMatchBoard' /\ OneEnd' /\ (Decided' <=> Decided)
  BY <1>1, NoCardTurned
<1>3. ~ Decided /\ game_over = FALSE /\ ev \in Events
  BY <1>1 DEF GameInv, OverExactlyWhenDecided, TypeOK
<1>4. game_over' = FALSE
  <2>1. ~ (redScore >= NumRed) /\ ~ (blueScore >= NumBlue)
    BY <1>3, ScoreTellsComplete DEF GameInv, TypeOK, Decided
  <2> QED
    BY <1>1, <1>3, <2>1
    DEF HandleHint, HandleOther, HandleUnknownWord, CheckScores
<1>5. OverExactlyWhenDecided' /\ WindUpOK'
  BY <1>1, <1>2, <1>3, <1>4
  DEF OverExactlyWhenDecided, WindUpOK, GameInv, LeaveBody, endVars
<1>6. /\ phase' \in {0, 1}
      /\ hint_count' \in HintNumbers \cup {0}
      /\ remaining_tries' \in Int
      /\ TriesWithinHint'
  <2>1. CASE HandleHint
    <3>1. ev.number \in HintNumbers
      BY <2>1, <1>3, EventFields DEF HandleHint, MayHint
    <3> DEFINE n == ev.number
    <3>2. /\ n \in HintNumbers /\ n \in Int
          /\ hint_count' = n /\ remaining_tries' = n /\ phase' = 1
      BY <2>1, <3>1, SessionAssumption DEF HandleHint
    <3> HIDE DEF n
    <3>3. n \in 1 .. n \/ n < 1
      BY <3>2
    <3> QED
      BY <3>2, <3>3 DEF TriesWithinHint
  <2>2. CASE HandleOther \/ HandleUnknownWord
    BY <2>2 DEF HandleOther, HandleUnknownWord, turnVars, GameInv, TypeOK,
                TriesWithinHint
  <2> QED
    BY <2>1, <2>2
<1>7. TypeOK'
  BY <1>1, <1>4, <1>6, NoEventIsNoEvent
  DEF GameInv, TypeOK, LeaveBody, endVars
<1> QED
  BY <1>2, <1>5, <1>6, <1>7 DEF GameInv

\* The handler of an answer that turns a card of a colour.  The card is the
\* only new one, so it completes at most the colour it has.
LEMMA HandleCardPreserves ==
  ASSUME GameInv, HandleCard
  PROVE  GameInv'
<1> DEFINE w == ev.word
<1>1. /\ cards \in Layouts /\ ev \in Events /\ game_over = FALSE
      /\ ~ Decided
  BY DEF GameInv, TypeOK, HandleCard, OverExactlyWhenDecided
<1>2. /\ w \in Word /\ w \notin used
      /\ cards[w] # "assassin"
      /\ used' = used \cup {w} /\ cards' = cards
      /\ ScoreCard(cards[w]) /\ SpendTry(cards[w])
      /\ CheckScores /\ LeaveBody("loop")
      /\ pc = "handle"
  BY DEF HandleCard
<1> HIDE DEF w
<1>3. \A colour : w \in Of(cards, colour) <=> cards[w] = colour
  BY <1>2 DEF Of
<1>4. ScoresMatchBoard' /\ redScore' \in Nat /\ blueScore' \in Nat
  <2>1. /\ IsFiniteSet(Of(cards, "red")) /\ IsFiniteSet(Of(cards, "blue"))
    BY <1>1, ColoursOfBoard DEF Colours
  <2>2. /\ redScore \in Nat /\ blueScore \in Nat
        /\ redScore = Cardinality(used \cap Of(cards, "red"))
        /\ blueScore = Cardinality(used \cap Of(cards, "blue"))
    BY DEF GameInv, TypeOK, ScoresMatchBoard
  <2>3. redScore' = Cardinality(used' \cap Of(cards, "red"))
    BY <1>2, <1>3, <2>1, <2>2, CountOneMore DEF ScoreCard
  <2>4. blueScore' = Cardinality(used' \cap Of(cards, "blue"))
    BY <1>2, <1>3, <2>1, <2>2, CountOneMore DEF ScoreCard
  <2> QED
    BY <1>2, <2>2, <2>3, <2>4 DEF ScoresMatchBoard, ScoreCard, Of
<1>5. /\ redScore' >= NumRed <=> (Of(cards, "red") \subseteq used)'
      /\ blueScore' >= NumBlue <=> (Of(cards, "blue") \subseteq used)'
  <2>1. cards' \in Layouts
    BY <1>1, <1>2
  <2>2. \A colour : Of(cards, colour)' = Of(cards, colour)
    BY <1>2 DEF Of
  <2>3. /\ IsFiniteSet(Of(cards, "red")) /\ IsFiniteSet(Of(cards, "blue"))
        /\ Cardinality(Of(cards, "red")) = NumRed
        /\ Cardinality(Of(cards, "blue")) = NumBlue
    BY <1>1, ColoursOfBoard DEF Colours
  <2> QED
    BY <1>4, <2>2, <2>3, CountTellsComplete DEF ScoresMatchBoard
<1>6. ~ (Of(cards, "assassin") \subseteq used)'
  BY <1>1, <1>2, <1>3 DEF Decided, Of
<1>7. ~ (Of(cards, "red") \subseteq used /\ Of(cards, "blue") \subseteq used)'
  <2>1. /\ ~ (Of(cards, "red") \subseteq used)
        /\ ~ (Of(cards, "blue") \subseteq used)
    BY <1>1 DEF Decided
  <2>2. w \notin Of(cards, "red") \/ w \notin Of(cards, "blue")
    BY <1>3
  <2> QED
    BY <1>2, <2>1, <2>2 DEF Of
<1>8. game_over' \in BOOLEAN /\ (game_over' <=> Decided')
  BY <1>1, <1>2, <1>5, <1>6 DEF CheckScores, Decided
<1>9. /\ turn_team' \in {0, 1} /\ phase' \in {0, 1}
      /\ hint_count' \in HintNumbers \cup {0}
      /\ remaining_tries' \in Int
      /\ TriesWithinHint'
  <2>1. /\ turn_team \in {0, 1} /\ phase = 1
        /\ hint_count \in HintNumbers \cup {0}
        /\ remaining_tries \in Int
    BY DEF GameInv, TypeOK, HandleCard, MayAnswer
  <2>2. HintNumbers \cup {0} \subseteq Int
    BY SessionAssumption
  <2>3. \/ remaining_tries \in 1 .. hint_count
        \/ hint_count < 1 /\ remaining_tries = hint_count
    BY <2>1 DEF GameInv, TriesWithinHint
  <2>4. /\ TriesAfter(cards[w]) \in Int
        /\ TriesAfter(cards[w]) < hint_count \/ TriesAfter(cards[w]) <= 0
    BY <2>1, <2>2, <2>3 DEF TriesAfter
  <2> QED
    BY <1>2, <2>1, <2>2, <2>4 DEF SpendTry, TriesWithinHint
<1>10. OverExactlyWhenDecided' /\ OneEnd' /\ WindUpOK'
  BY <1>2, <1>6, <1>7, <1>8
  DEF OverExactlyWhenDecided, OneEnd, WindUpOK, GameInv, LeaveBody, endVars
<1>11. TypeOK'
  BY <1>1, <1>2, <1>4, <1>8, <1>9, NoEventIsNoEvent
  DEF GameInv, TypeOK, LeaveBody, endVars
<1> QED
  BY <1>4, <1>9, <1>10, <1>11 DEF GameInv

\* The handler of an answer that turns the assassin.
LEMMA HandleAssassinPreserves ==
  ASSUME GameInv, HandleAssassin
  PROVE  GameInv'
<1> DEFINE w == ev.word
<1>1. /\ cards \in Layouts /\ ev \in Events /\ ~ Decided
  BY DEF GameInv, TypeOK, HandleAssassin, OverExactlyWhenDecided
<1>2. /\ w \in Word /\ w \notin used
      /\ cards[w] = "assassin"
      /\ used' = used \cup {w}
      /\ UNCHANGED <<cards, redScore, blueScore>> /\ UNCHANGED turnVars
      /\ game_over' = TRUE /\ LeaveBody("gameover")
      /\ pc = "handle"
  BY DEF HandleAssassin
<1> HIDE DEF w
<1>3. \A colour : w \in Of(cards, colour) <=> cards[w] = colour
  BY <1>2 DEF Of
<1>4. ScoresMatchBoard'
  <2>1. /\ used' \cap Of(cards, "red") = used \cap Of(cards, "red")
        /\ used' \cap Of(cards, "blue") = used \cap Of(cards, "blue")
    BY <1>2, <1>3
  <2> QED
    BY <1>2, <2>1 DEF GameInv, ScoresMatchBoard, Of
<1>5. (Of(cards, "assassin") \subseteq used)'
  BY <1>1, <1>2, <1>3, ColoursOfBoard DEF Of
<1>6. /\ ~ (Of(cards, "red") \subseteq used)'
      /\ ~ (Of(cards, "blue") \subseteq used)'
  BY <1>1, <1>2, <1>3 DEF Decided, Of
<1>7. OverExactlyWhenDecided' /\ OneEnd' /\ TriesWithinHint' /\ WindUpOK'
  BY <1>2, <1>5, <1>6
  DEF OverExactlyWhenDecided, Decided, OneEnd, TriesWithinHint, WindUpOK,
      GameInv, LeaveBody, endVars, turnVars
<1>8. TypeOK'
  BY <1>2, NoEventIsNoEvent DEF GameInv, TypeOK, LeaveBody, endVars, turnVars
<1> QED
  BY <1>4, <1>7, <1>8 DEF GameInv

\* The steps that wind the game up touch neither the board nor the turn.
LEMMA WindUpPreserves ==
  ASSUME GameInv, LeaveLoop \/ AnnounceWinner \/ SaveResult \/ Cleanup
  PROVE  GameInv'
<1>1. /\ UNCHANGED <<cards, used, redScore, blueScore, game_over>>
      /\ UNCHANGED turnVars /\ UNCHANGED <<events, ev>>
  BY DEF LeaveLoop, AnnounceWinner, SaveResult, Cleanup, boardVars
<1>2. ScoresMatchBoard' /\ OneEnd' /\ (Decided' <=> Decided)
      /\ WinnerTeam' = WinnerTeam
  BY <1>1, NoCardTurned DEF turnVars
<1>3. TriesWithinHint'
  BY <1>1 DEF GameInv, TriesWithinHint, turnVars
<1>4. OverExactlyWhenDecided'
  BY <1>1, <1>2
  DEF GameInv, OverExactlyWhenDecided, LeaveLoop, AnnounceWinner, SaveResult,
      Cleanup
<1>5. TypeOK' /\ WindUpOK'
  <2>1. CASE LeaveLoop
    BY <1>1, <1>2, <2>1
    DEF GameInv, TypeOK, WindUpOK, LeaveLoop, turnVars, endVars
  <2>2. CASE AnnounceWinner
    <3>1. WinnerTeam \in {0, 1}
      BY DEF GameInv, TypeOK, WinnerTeam
    <3>2. \A p \in Players : results[p] = "none"
      BY <2>2 DEF GameInv, TypeOK, WindUpOK, AnnounceWinner, Players
    <3> QED
      BY <1>1, <1>2, <2>2, <3>1, <3>2
      DEF GameInv, TypeOK, WindUpOK, AnnounceWinner, turnVars, Players
  <2>3. CASE SaveResult
    <3>1. saved \in Players /\ saved' \in 0 .. NumPlayers /\ saved' = saved + 1
      BY <2>3, SessionAssumption
      DEF GameInv, TypeOK, SaveResult, Players, NumPlayers
    <3>2. PICK result \in {IF TeamOf(saved) = winner_team THEN "WIN"
                                                          ELSE "LOSS",
                           "failed"} :
            results' = [results EXCEPT ![saved] = result]
      BY <2>3 DEF SaveResult
    <3>3. TypeOK'
      BY <1>1, <2>3, <3>1, <3>2 DEF GameInv, TypeOK, SaveResult, turnVars
    <3>4. \A p \in Players : p < saved' <=> p < saved \/ p = saved
      BY <3>1, SessionAssumption DEF Players, NumPlayers
    <3>5. WindUpOK'
      BY <1>2, <2>3, <3>1, <3>2, <3>4 DEF GameInv, TypeOK, WindUpOK, SaveResult
    <3> QED
      BY <3>3, <3>5
  <2>4. CASE Cleanup
    BY <1>1, <1>2, <2>4
    DEF GameInv, TypeOK, WindUpOK, Cleanup, turnVars, endVars
  <2> QED
    BY <2>1, <2>2, <2>3, <2>4 DEF LeaveLoop, AnnounceWinner, SaveResult, Cleanup
<1> QED
  BY <1>2, <1>3, <1>4, <1>5 DEF GameInv

\* No step of the session or of its players breaks the invariant.
LEMMA NextPreservesGameInv == GameInv /\ [Next]_vars => GameInv'
<1> SUFFICES ASSUME GameInv, [Next]_vars PROVE GameInv'
  OBVIOUS
<1>1. ASSUME NEW e \in Events, Enqueue(e) PROVE GameInv'
  BY <1>1, EnqueuePreserves
<1>2. CASE Dequeue
  BY <1>2, DequeuePreserves
<1>3. CASE HandleHint \/ HandleOther \/ HandleUnknownWord
  BY <1>3, HandleWithoutCardPreserves
<1>4. CASE HandleCard
  BY <1>4, HandleCardPreserves
<1>5. CASE HandleAssassin
  BY <1>5, HandleAssassinPreserves
<1>6. CASE LeaveLoop \/ AnnounceWinner \/ SaveResult \/ Cleanup
  BY <1>6, WindUpPreserves
<1>7. CASE UNCHANGED vars
  <2>1. ScoresMatchBoard' /\ OneEnd' /\ (Decided' <=> Decided)
        /\ WinnerTeam' = WinnerTeam
    BY <1>7, NoCardTurned DEF vars, boardVars, turnVars
  <2> QED
    BY <1>7, <2>1
    DEF vars, boardVars, turnVars, endVars, GameInv, TypeOK,
        OverExactlyWhenDecided, TriesWithinHint, WindUpOK
<1> QED
  BY <1>1, <1>2, <1>3, <1>4, <1>5, <1>6, <1>7 DEF Next, GameThread

\* The inductive invariant of the session holds in every state, on any board.
THEOREM GameInvariance == Spec => []GameInv
<1>1. Init => GameInv
  BY InitEstablishesGameInv
<1>2. GameInv /\ [Next]_vars => GameInv'
  BY NextPreservesGameInv
<1> QED
  BY <1>1, <1>2, PTL DEF Spec

----------------------------------------------------------------------------
(* The safety properties.                                                  *)

\* Types of the session's fields, for every board and number of players.
THEOREM TypeCorrect == Spec => []TypeOK
<1>1. GameInv => TypeOK
  BY DEF GameInv
<1> QED
  BY <1>1, GameInvariance, PTL

\* The scores count the used cards of their colour (room_manager.c:453-489).
THEOREM ScoresCorrect == Spec => []ScoresMatchBoard
<1>1. GameInv => ScoresMatchBoard
  BY DEF GameInv
<1> QED
  BY <1>1, GameInvariance, PTL

\* Events are handled exactly as long as the board is undecided
\* (room_manager.c:409, 496-502, 556-558).
THEOREM OverCorrect == Spec => []OverExactlyWhenDecided
<1>1. GameInv => OverExactlyWhenDecided
  BY DEF GameInv
<1> QED
  BY <1>1, GameInvariance, PTL

\* The tries of a turn stay between one and the hint's number
\* (room_manager.c:434-436, 522-527).
THEOREM TriesCorrect == Spec => []TriesWithinHint
<1>1. GameInv => TriesWithinHint
  BY DEF GameInv
<1> QED
  BY <1>1, GameInvariance, PTL

\* The results that reach the database agree with the board
\* (room_manager.c:566-583).
THEOREM ResultsCorrect == Spec => []ResultsMatchBoard
<1>1. ASSUME GameInv PROVE ResultsMatchBoard
  <2> SUFFICES ASSUME NEW p \in Players
               PROVE
                 /\ results[p] = "LOSS" =>
                      ~ (Of(cards, IF TeamOf(p) = 0 THEN "red" ELSE "blue")
                           \subseteq used)
                 /\ results[p] = "WIN" =>
                      \A o \in Players :
                        TeamOf(o) # TeamOf(p) => results[o] # "WIN"
                 /\ pc = "freed" => results[p] # "none"
    BY DEF ResultsMatchBoard
  <2>1. /\ saved \in Nat
        /\ \A o \in Players : o \in Int /\ 0 <= o /\ o < NumPlayers
    BY <1>1, SessionAssumption DEF GameInv, TypeOK, Players, NumPlayers
  <2>2. \A o \in Players :
          results[o] \in IF o < saved
                         THEN {IF TeamOf(o) = winner_team THEN "WIN"
                                                          ELSE "LOSS",
                               "failed"}
                         ELSE {"none"}
    BY <1>1 DEF GameInv, WindUpOK
  <2>3. p < saved => winner_team = WinnerTeam
    BY <1>1, <2>1 DEF GameInv, WindUpOK
  <2>4. ASSUME results[p] = "LOSS"
        PROVE  ~ (Of(cards, IF TeamOf(p) = 0 THEN "red" ELSE "blue")
                    \subseteq used)
    <3>1. p < saved /\ TeamOf(p) # WinnerTeam
      BY <2>2, <2>3, <2>4
    <3>2. /\ redScore >= NumRed <=> Of(cards, "red") \subseteq used
          /\ blueScore >= NumBlue <=> Of(cards, "blue") \subseteq used
          /\ ~ (Of(cards, "red") \subseteq used
                  /\ Of(cards, "blue") \subseteq used)
      BY <1>1, ScoreTellsComplete DEF GameInv, TypeOK, OneEnd
    <3> QED
      BY <3>1, <3>2 DEF WinnerTeam, TeamOf
  <2>5. ASSUME results[p] = "WIN", NEW o \in Players, TeamOf(o) # TeamOf(p)
        PROVE  results[o] # "WIN"
    BY <2>2, <2>5
  <2>6. pc = "freed" => results[p] # "none"
    BY <1>1, <2>1, <2>2 DEF GameInv, WindUpOK
  <2> QED
    BY <2>4, <2>5, <2>6
<1> QED
  BY <1>1, GameInvariance, PTL

\* A step turns no card but the one the event of a handler names.
LEMMA StepTurnsCard ==
  ASSUME GameInv, [Next]_vars, NEW w \in used' \ used
  PROVE  /\ HandleCard \/ HandleAssassin
         /\ w = ev.word
<1>1. used' = used \/ HandleCard \/ HandleAssassin
  BY DEF Next, GameThread, vars, boardVars, Enqueue, Dequeue, HandleHint,
         HandleOther, HandleUnknownWord, LeaveLoop, AnnounceWinner,
         SaveResult, Cleanup
<1> QED
  BY <1>1 DEF HandleCard, HandleAssassin

\* The team whose member turns the assassin loses (room_manager.c:495-503,
\* 566-568).
THEOREM AssassinLosesCorrect == Spec => AssassinLoses
<1>1. ASSUME GameInv, [Next]_vars, NEW w \in used' \ used,
             cards[w] = "assassin"
      PROVE  WinnerTeam' = 1 - TeamOf(ev.player)
  <2>1. /\ HandleAssassin
        /\ TeamOf(ev.player) = turn_team
    BY <1>1, StepTurnsCard DEF HandleCard, HandleAssassin, MayAnswer, OnTurn
  <2>2. ~ (redScore >= NumRed) /\ ~ (blueScore >= NumBlue)
    BY <1>1, <2>1, ScoreTellsComplete
    DEF GameInv, TypeOK, OverExactlyWhenDecided, Decided, HandleAssassin
  <2> QED
    BY <2>1, <2>2 DEF HandleAssassin, WinnerTeam, turnVars
<1>2. GameInv /\ [Next]_vars
        => [\A w \in used' \ used :
              cards[w] = "assassin"
                => WinnerTeam' = 1 - TeamOf(ev.player)]_vars
  BY <1>1
<1> QED
  BY <1>2, GameInvariance, PTL DEF Spec, AssassinLoses

----------------------------------------------------------------------------
(* Refinement of CodenamesRules.                                           *)

\* A session begins as a game does.
LEMMA InitImplementsRules == Init => Rules!RulesInit
  BY DEF Init, Rules!RulesInit, Rules!Red, Rules!NoTeam, NoTeam

\* Outside the handlers the rules see nothing.
LEMMA QuietSteps ==
  ASSUME GameInv,
         \/ UNCHANGED <<boardVars, turnVars, game_over>>
         \/ \E e \in Events : Enqueue(e)
         \/ Dequeue \/ HandleOther \/ HandleUnknownWord
         \/ LeaveLoop \/ AnnounceWinner \/ SaveResult \/ Cleanup
  PROVE  UNCHANGED Rules!rulesVars
<1>1. UNCHANGED <<boardVars, turnVars>>
  BY DEF Enqueue, Dequeue, HandleOther, HandleUnknownWord, LeaveLoop,
         AnnounceWinner, SaveResult, Cleanup
<1>2. game_over' = game_over
  <2>1. CASE HandleOther
    <3>1. game_over = FALSE /\ ~ (redScore >= NumRed)
            /\ ~ (blueScore >= NumBlue)
      BY <2>1, ScoreTellsComplete
      DEF GameInv, TypeOK, OverExactlyWhenDecided, Decided, HandleOther
    <3> QED
      BY <1>1, <2>1, <3>1 DEF HandleOther, CheckScores, boardVars
  <2>2. CASE ~ HandleOther
    BY <2>2 DEF Enqueue, Dequeue, HandleUnknownWord, LeaveLoop,
                AnnounceWinner, SaveResult, Cleanup
  <2> QED
    BY <2>1, <2>2
<1> QED
  BY <1>1, <1>2
  DEF boardVars, turnVars, Rules!rulesVars, HintAllows, WinnerTeam

\* A handled hint is the hint of the rules.
LEMMA HintGivesHint ==
  ASSUME GameInv, HandleHint
  PROVE  \E n \in HintNumbers : Rules!GiveHint(n)
<1> DEFINE n == ev.number
<1>1. n \in HintNumbers /\ n \in Int
  BY EventFields, SessionAssumption
  DEF GameInv, TypeOK, HandleHint, MayHint
<1>2. /\ phase = 0 /\ phase' = 1
      /\ hint_count' = n /\ remaining_tries' = n
      /\ UNCHANGED <<cards, used, redScore, blueScore, turn_team>>
      /\ CheckScores
      /\ game_over = FALSE /\ ~ Decided
  BY DEF HandleHint, MayHint, boardVars, GameInv, TypeOK,
         OverExactlyWhenDecided
<1> HIDE DEF n
<1>3. game_over' = FALSE
  BY <1>2, ScoreTellsComplete
  DEF CheckScores, GameInv, TypeOK, Decided
<1>4. Rules!GiveHint(n)
  BY <1>1, <1>2, <1>3 DEF Rules!GiveHint, HintAllows, Rules!NoTeam, NoTeam
<1> QED
  BY <1>1, <1>4

\* The colours the two modules speak of are the same.
LEMMA ColoursAgree ==
  /\ turn_team \in {0, 1} => /\ Rules!Colour(turn_team) = OwnColour
                             /\ Rules!Other(turn_team) = 1 - turn_team
  /\ \A u : Rules!Complete(0, u) <=> Of(cards, "red") \subseteq u
  /\ \A u : Rules!Complete(1, u) <=> Of(cards, "blue") \subseteq u
  BY DEF Rules!Colour, Rules!Other, Rules!Complete, Rules!Red, OwnColour, Of

\* A handled answer that turns a card is a guess of the rules: the turn
\* passes at the same card, and the same cards decide.
LEMMA CardIsGuess ==
  ASSUME GameInv, HandleCard
  PROVE  \E w \in Word : Rules!Guess(w)
<1> DEFINE w == ev.word
           t == TriesAfter(cards[w])
<1>1. /\ w \in Word /\ w \notin used
      /\ cards[w] # "assassin"
      /\ used' = used \cup {w} /\ cards' = cards
      /\ SpendTry(cards[w])
      /\ phase = 1 /\ turn_team \in {0, 1}
      /\ game_over = FALSE /\ ~ Decided
  BY DEF HandleCard, MayAnswer, GameInv, TypeOK, OverExactlyWhenDecided
<1>2. GameInv'
  BY HandleCardPreserves
<1> HIDE DEF w
<1>3. /\ hint_count \in Int /\ remaining_tries \in Int
      /\ \/ remaining_tries \in 1 .. hint_count
         \/ hint_count < 1 /\ remaining_tries = hint_count
  <2>1. hint_count \in HintNumbers \cup {0} /\ HintNumbers \cup {0} \subseteq Int
    BY SessionAssumption DEF GameInv, TypeOK
  <2> QED
    BY <1>1, <2>1 DEF GameInv, TypeOK, TriesWithinHint
<1>4. HintAllows \in Int /\ HintAllows > 0
  BY <1>3 DEF HintAllows
<1>5. /\ t \in Int
      /\ cards[w] = OwnColour
           => (t <= 0 <=> (hint_count - remaining_tries) + 1 = HintAllows)
      /\ cards[w] = OwnColour /\ t > 0
           => (hint_count - remaining_tries) + 1 < HintAllows
      /\ cards[w] # OwnColour => t <= 0
      /\ cards[w] = OwnColour => t = remaining_tries - 1
  BY <1>3 DEF HintAllows, TriesAfter
<1>6. /\ remaining_tries' = t /\ hint_count' = hint_count
      /\ t <= 0 => turn_team' = 1 - turn_team /\ phase' = 0
      /\ ~ (t <= 0) => UNCHANGED <<turn_team, phase>>
  BY <1>1 DEF SpendTry
<1> HIDE DEF t
<1>7. Rules!GuessRight(w) \/ Rules!GuessLast(w)
  <2>1. CASE t <= 0
    BY <1>1, <1>5, <1>6, <2>1, ColoursAgree DEF Rules!GuessLast
  <2>2. CASE ~ (t <= 0)
    <3>1. cards[w] = OwnColour /\ t = remaining_tries - 1
      BY <1>5, <2>2
    <3>2. hint_count' - remaining_tries' = (hint_count - remaining_tries) + 1
      BY <1>3, <1>6, <3>1
    <3>3. HintAllows' = HintAllows
      BY <1>6 DEF HintAllows
    <3> QED
      BY <1>1, <1>5, <1>6, <2>2, <3>1, <3>2, <3>3, ColoursAgree
      DEF Rules!GuessRight
  <2> QED
    BY <2>1, <2>2
<1>8. /\ redScore' >= NumRed <=> Of(cards, "red") \subseteq used'
      /\ blueScore' >= NumBlue <=> Of(cards, "blue") \subseteq used'
      /\ ~ (Of(cards, "red") \subseteq used'
              /\ Of(cards, "blue") \subseteq used')
      /\ game_over' <=> \/ Of(cards, "red") \subseteq used'
                        \/ Of(cards, "blue") \subseteq used'
  <2>1. /\ IsFiniteSet(Of(cards, "red")) /\ IsFiniteSet(Of(cards, "blue"))
        /\ Cardinality(Of(cards, "red")) = NumRed
        /\ Cardinality(Of(cards, "blue")) = NumBlue
    BY ColoursOfBoard DEF Colours, GameInv, TypeOK
  <2>2. \A colour : Of(cards, colour)' = Of(cards, colour)
    BY <1>1 DEF Of
  <2>3. ~ (Of(cards, "assassin") \subseteq used')
    BY <1>1 DEF Decided, Of
  <2> QED
    BY <1>2, <2>1, <2>2, <2>3, CountTellsComplete
    DEF GameInv, ScoresMatchBoard, OneEnd, OverExactlyWhenDecided, Decided
<1>9. \/ \E team \in Rules!Team :
           /\ Rules!Complete(team, used')
           /\ (IF game_over THEN WinnerTeam ELSE NoTeam)' = team
      \/ /\ ~ (\E team \in Rules!Team : Rules!Complete(team, used'))
         /\ (IF game_over THEN WinnerTeam ELSE NoTeam)' = Rules!NoTeam
  BY <1>8, ColoursAgree
  DEF Rules!Team, Rules!Red, Rules!Blue, WinnerTeam, NoTeam, Rules!NoTeam
<1>10. Rules!GuessCard(w)
  BY <1>7, <1>9 DEF Rules!GuessCard
<1>11. Rules!Guess(w)
  BY <1>1, <1>4, <1>10 DEF Rules!Guess, NoTeam, Rules!NoTeam
<1> QED
  BY <1>1, <1>11

\* A handled answer that turns the assassin is the guess that loses.
LEMMA AssassinIsGuess ==
  ASSUME GameInv, HandleAssassin
  PROVE  \E w \in Word : Rules!Guess(w)
<1> DEFINE w == ev.word
<1>1. /\ w \in Word /\ w \notin used
      /\ cards[w] = "assassin"
      /\ used' = used \cup {w}
      /\ UNCHANGED <<cards, redScore, blueScore>> /\ UNCHANGED turnVars
      /\ phase = 1 /\ turn_team \in {0, 1}
      /\ game_over = FALSE /\ game_over' = TRUE
      /\ ~ (redScore >= NumRed) /\ ~ (blueScore >= NumBlue)
  BY ScoreTellsComplete
  DEF HandleAssassin, MayAnswer, GameInv, TypeOK, OverExactlyWhenDecided,
      Decided
<1> HIDE DEF w
<1>2. HintAllows \in Int /\ HintAllows > 0
  <2>1. hint_count \in HintNumbers \cup {0} /\ HintNumbers \cup {0} \subseteq Int
    BY SessionAssumption DEF GameInv, TypeOK
  <2> QED
    BY <2>1 DEF HintAllows
<1>3. Rules!GuessAssassin(w)
  BY <1>1, ColoursAgree
  DEF Rules!GuessAssassin, WinnerTeam, turnVars, HintAllows
<1>4. Rules!Guess(w)
  BY <1>1, <1>2, <1>3 DEF Rules!Guess, NoTeam, Rules!NoTeam
<1> QED
  BY <1>1, <1>4

\* Every step of the session is a move of the game or none.
LEMMA StepImplementsRules ==
  ASSUME GameInv, [Next]_vars
  PROVE  [Rules!RulesNext]_(Rules!rulesVars)
<1>1. CASE HandleHint
  BY <1>1, HintGivesHint DEF Rules!RulesNext
<1>2. CASE HandleCard
  BY <1>2, CardIsGuess DEF Rules!RulesNext
<1>3. CASE HandleAssassin
  BY <1>3, AssassinIsGuess DEF Rules!RulesNext
<1>4. CASE \/ UNCHANGED vars
           \/ \E e \in Events : Enqueue(e)
           \/ Dequeue \/ HandleOther \/ HandleUnknownWord
           \/ LeaveLoop \/ AnnounceWinner \/ SaveResult \/ Cleanup
  BY <1>4, QuietSteps DEF vars
<1> QED
  BY <1>1, <1>2, <1>3, <1>4 DEF Next, GameThread

\* The session, with its threads, queue and counters, plays the game of
\* CodenamesRules: turns pass, guesses run out, scores complete and winners
\* are found exactly as there.
THEOREM SessionImplementsRules == Spec => ImplementsRules
<1>1. Init => Rules!RulesInit
  BY InitImplementsRules
<1>2. GameInv /\ [Next]_vars => [Rules!RulesNext]_(Rules!rulesVars)
  BY StepImplementsRules
<1> QED
  BY <1>1, <1>2, GameInvariance, PTL
  DEF Spec, ImplementsRules, Rules!RulesSpec

----------------------------------------------------------------------------
(* Liveness, from the fairness of the game thread and WaitsForEventsOnly.  *)
(* What is ENABLED is beyond the provers, so that the theorems below have  *)
(* that invariant as a hypothesis; all else is proved.                     *)

\* A full queue, and the game goes on.
Full == Len(events) = MaxEvents - 1 /\ ~ game_over

\* What QueueDrains promises again and again.
HasRoom == Len(events) < MaxEvents - 1 \/ game_over

Stalled(where) == GameInv /\ Full /\ pc = where

\* The queue of a game that goes on is full or has room, and where it is full
\* the thread is in its loop or its body, and has something to do.
LEMMA FullOrRoom ==
  ASSUME GameInv
  PROVE  /\ HasRoom \/ Stalled("loop") \/ Stalled("handle")
         /\ \A where : Stalled(where) /\ WaitsForEventsOnly
                         => ENABLED <<GameThread>>_vars
<1>1. /\ Len(events) \in Nat /\ Len(events) < MaxEvents /\ MaxEvents \in Nat
      /\ MaxEvents > 1
      /\ pc \in {"loop", "handle", "gameover", "save", "freed"}
  BY SessionAssumption DEF GameInv, TypeOK
<1>2. pc \in {"gameover", "save", "freed"} => game_over
  BY DEF GameInv, OverExactlyWhenDecided
<1>3. Full => events # <<>> /\ pc \in {"loop", "handle"}
  BY <1>1, <1>2 DEF Full
<1>4. Full \/ HasRoom
  BY <1>1 DEF Full, HasRoom
<1> QED
  BY <1>3, <1>4 DEF Stalled, WaitsForEventsOnly

\* A full queue takes no line, and no other thread moves the game.
LEMMA StalledStays ==
  ASSUME NEW where, Stalled(where), [Next]_vars, ~ GameThread
  PROVE  Stalled(where)'
<1>1. GameInv'
  BY NextPreservesGameInv DEF Stalled
<1>2. \A e \in Events : ~ Enqueue(e)
  BY DEF Stalled, Full, Enqueue
<1>3. UNCHANGED vars
  BY <1>2 DEF Next
<1> QED
  BY <1>1, <1>3 DEF Stalled, Full, vars

\* The next step of the thread leaves the body, and the one after takes a line.
LEMMA StalledGoesOn ==
  ASSUME GameThread
  PROVE  /\ Stalled("handle") => Stalled("loop")' \/ HasRoom'
         /\ Stalled("loop") => HasRoom'
<1>1. ASSUME Stalled("handle") PROVE Stalled("loop")' \/ HasRoom'
  <2>1. GameInv' /\ UNCHANGED events /\ Full
    BY <1>1, NextPreservesGameInv
    DEF Stalled, Next, GameThread, Dequeue, HandleHint, HandleOther,
        HandleUnknownWord, HandleCard, HandleAssassin, LeaveBody, LeaveLoop,
        AnnounceWinner, SaveResult, Cleanup
  <2>2. pc' = "loop" \/ (pc' = "gameover" /\ game_over')
    BY <1>1 DEF Stalled, GameThread, Dequeue, HandleHint, HandleOther,
        HandleUnknownWord, HandleCard, HandleAssassin, LeaveBody, LeaveLoop,
        AnnounceWinner, SaveResult, Cleanup
  <2>3. game_over' \in BOOLEAN
    BY <2>1 DEF GameInv, TypeOK
  <2> QED
    BY <2>1, <2>2, <2>3 DEF Stalled, Full, HasRoom
<1>2. ASSUME Stalled("loop") PROVE HasRoom'
  <2>1. Dequeue
    BY <1>2 DEF Stalled, Full, GameThread, HandleHint, HandleOther,
        HandleUnknownWord, HandleCard, HandleAssassin, LeaveLoop,
        AnnounceWinner, SaveResult, Cleanup
  <2>2. events' = Tail(events) /\ events # <<>> /\ events \in Seq(Events)
        /\ Len(events) = MaxEvents - 1 /\ MaxEvents \in Nat
    BY <1>2, <2>1, SessionAssumption DEF Stalled, Full, Dequeue, GameInv, TypeOK
  <2>3. Len(events') = Len(events) - 1
    BY <2>2
  <2> QED
    BY <2>2, <2>3 DEF HasRoom
<1> QED
  BY <1>1, <1>2

\* The game thread makes room in a full queue again and again, however fast
\* the players fill it, or the game is over (room_manager.c:409-430).
THEOREM QueueDrainsCorrect ==
  Spec /\ []WaitsForEventsOnly => QueueDrains
<1>1. GameInv => HasRoom \/ Stalled("loop") \/ Stalled("handle")
  BY FullOrRoom
<1>2. /\ Stalled("loop") /\ WaitsForEventsOnly => ENABLED <<GameThread>>_vars
      /\ Stalled("handle") /\ WaitsForEventsOnly => ENABLED <<GameThread>>_vars
  BY FullOrRoom DEF Stalled
<1>3. /\ Stalled("loop") /\ [Next]_vars => Stalled("loop")' \/ HasRoom'
      /\ Stalled("loop") /\ <<GameThread>>_vars => HasRoom'
  BY StalledStays, StalledGoesOn
<1>4. /\ Stalled("handle") /\ [Next]_vars
           => Stalled("handle")' \/ Stalled("loop")' \/ HasRoom'
      /\ Stalled("handle") /\ <<GameThread>>_vars => Stalled("loop")' \/ HasRoom'
  BY StalledStays, StalledGoesOn
<1>5. HasRoom <=> Len(events) < MaxEvents - 1 \/ game_over
  BY DEF HasRoom
<1> QED
  BY <1>1, <1>2, <1>3, <1>4, <1>5, GameInvariance, PTL DEF Spec, QueueDrains

\* How far a decided game has been wound up.
WoundUp ==
  CASE pc = "loop" -> 0
    [] pc = "gameover" -> 1
    [] pc = "save" -> 2 + saved
    [] pc = "freed" -> 3 + NumPlayers

At(k) == GameInv /\ Decided /\ WoundUp = k

\* No event of a decided game is handled any more.
LEMMA DecidedPlaces ==
  ASSUME GameInv, Decided
  PROVE  /\ pc \in {"loop", "gameover", "save", "freed"} /\ game_over
         /\ NumPlayers \in Nat /\ saved \in 0 .. NumPlayers
         /\ WoundUp \in 0 .. 3 + NumPlayers
         /\ WoundUp = 3 + NumPlayers <=> pc = "freed"
<1>1. /\ pc \in {"loop", "gameover", "save", "freed"} /\ game_over
      /\ saved \in 0 .. NumPlayers
  BY DEF GameInv, TypeOK, OverExactlyWhenDecided
<1>2. NumPlayers \in Nat
  BY SessionAssumption DEF NumPlayers
<1> QED
  BY <1>1, <1>2 DEF WoundUp

\* A decided game stays decided, and only its thread winds it up.
LEMMA DecidedStays ==
  ASSUME GameInv, Decided, [Next]_vars
  PROVE  /\ Decided'
         /\ GameThread => WoundUp' = WoundUp + 1
         /\ ~ GameThread => WoundUp' = WoundUp
<1>1. /\ pc \in {"loop", "gameover", "save", "freed"} /\ game_over
      /\ NumPlayers \in Nat /\ saved \in 0 .. NumPlayers
  BY DecidedPlaces
<1>2. saved = 0 \/ pc \in {"save", "freed"}
  BY DEF GameInv, WindUpOK
<1>3. ASSUME GameThread PROVE Decided' /\ WoundUp' = WoundUp + 1
  <2>1. LeaveLoop \/ AnnounceWinner \/ SaveResult \/ Cleanup
    BY <1>1, <1>3 DEF GameThread, Dequeue, HandleHint, HandleOther,
                      HandleUnknownWord, HandleCard, HandleAssassin
  <2>2. UNCHANGED <<cards, used>>
    BY <2>1 DEF LeaveLoop, AnnounceWinner, SaveResult, Cleanup, boardVars
  <2>3. Decided'
    BY <2>2 DEF Decided, Of
  <2>4. WoundUp' = WoundUp + 1
    <3>1. CASE LeaveLoop
      BY <3>1 DEF LeaveLoop, WoundUp
    <3>2. CASE AnnounceWinner
      BY <1>2, <3>2 DEF AnnounceWinner, WoundUp
    <3>3. CASE SaveResult
      BY <1>1, <3>3 DEF SaveResult, WoundUp
    <3>4. CASE Cleanup
      BY <1>1, <3>4 DEF Cleanup, WoundUp
    <3> QED
      BY <2>1, <3>1, <3>2, <3>3, <3>4
  <2> QED
    BY <2>3, <2>4
<1>4. ASSUME ~ GameThread PROVE Decided' /\ WoundUp' = WoundUp
  <2>1. UNCHANGED <<cards, used, pc, saved>>
    BY <1>4 DEF Next, Enqueue, vars, boardVars, endVars
  <2> QED
    BY <2>1 DEF Decided, Of, WoundUp
<1> QED
  BY <1>3, <1>4

\* One step of the thread winds the game up by one.
LEMMA WindsUp ==
  ASSUME NEW k \in 0 .. 2 + NumPlayers
  PROVE  /\ At(k) /\ WaitsForEventsOnly => ENABLED <<GameThread>>_vars
         /\ At(k) /\ [Next]_vars => At(k)' \/ At(k + 1)'
         /\ At(k) /\ <<GameThread>>_vars => At(k + 1)'
<1>1. ASSUME At(k), WaitsForEventsOnly PROVE ENABLED <<GameThread>>_vars
  BY <1>1, DecidedPlaces DEF At, WaitsForEventsOnly
<1>2. ASSUME At(k), [Next]_vars
      PROVE  /\ At(k)' \/ At(k + 1)'
             /\ GameThread => At(k + 1)'
  <2>1. GameInv' /\ Decided'
    BY <1>2, NextPreservesGameInv, DecidedStays DEF At
  <2>2. /\ GameThread => WoundUp' = k + 1
        /\ ~ GameThread => WoundUp' = k
    BY <1>2, DecidedStays DEF At
  <2> QED
    BY <2>1, <2>2 DEF At
<1>3. GameThread => Next
  BY DEF Next
<1> QED
  BY <1>1, <1>2, <1>3

\* A decided game is wound up in a room of six: whatever still waits in the
\* queue and whatever the database does, GAME_OVER is sent, each of the six
\* results is passed to the database, and the session is freed
\* (room_manager.c:558-590).
THEOREM DecidedGameIsWoundUpCorrect ==
  ASSUME TeamSize = 3
  PROVE  Spec /\ []WaitsForEventsOnly => DecidedGameIsWoundUp
<1>0. NumPlayers = 6
  BY DEF NumPlayers
<1>1. /\ At(0) /\ WaitsForEventsOnly => ENABLED <<GameThread>>_vars
      /\ At(0) /\ [Next]_vars => At(0)' \/ At(1)'
      /\ At(0) /\ <<GameThread>>_vars => At(1)'
  BY <1>0, WindsUp
<1>2. /\ At(1) /\ WaitsForEventsOnly => ENABLED <<GameThread>>_vars
      /\ At(1) /\ [Next]_vars => At(1)' \/ At(2)'
      /\ At(1) /\ <<GameThread>>_vars => At(2)'
  BY <1>0, WindsUp
<1>3. /\ At(2) /\ WaitsForEventsOnly => ENABLED <<GameThread>>_vars
      /\ At(2) /\ [Next]_vars => At(2)' \/ At(3)'
      /\ At(2) /\ <<GameThread>>_vars => At(3)'
  BY <1>0, WindsUp
<1>4. /\ At(3) /\ WaitsForEventsOnly => ENABLED <<GameThread>>_vars
      /\ At(3) /\ [Next]_vars => At(3)' \/ At(4)'
      /\ At(3) /\ <<GameThread>>_vars => At(4)'
  BY <1>0, WindsUp
<1>5. /\ At(4) /\ WaitsForEventsOnly => ENABLED <<GameThread>>_vars
      /\ At(4) /\ [Next]_vars => At(4)' \/ At(5)'
      /\ At(4) /\ <<GameThread>>_vars => At(5)'
  BY <1>0, WindsUp
<1>6. /\ At(5) /\ WaitsForEventsOnly => ENABLED <<GameThread>>_vars
      /\ At(5) /\ [Next]_vars => At(5)' \/ At(6)'
      /\ At(5) /\ <<GameThread>>_vars => At(6)'
  BY <1>0, WindsUp
<1>7. /\ At(6) /\ WaitsForEventsOnly => ENABLED <<GameThread>>_vars
      /\ At(6) /\ [Next]_vars => At(6)' \/ At(7)'
      /\ At(6) /\ <<GameThread>>_vars => At(7)'
  BY <1>0, WindsUp
<1>8. /\ At(7) /\ WaitsForEventsOnly => ENABLED <<GameThread>>_vars
      /\ At(7) /\ [Next]_vars => At(7)' \/ At(8)'
      /\ At(7) /\ <<GameThread>>_vars => At(8)'
  BY <1>0, WindsUp
<1>9. /\ At(8) /\ WaitsForEventsOnly => ENABLED <<GameThread>>_vars
      /\ At(8) /\ [Next]_vars => At(8)' \/ At(9)'
      /\ At(8) /\ <<GameThread>>_vars => At(9)'
  BY <1>0, WindsUp
<1>10. GameInv /\ Decided => \/ At(0) \/ At(1) \/ At(2) \/ At(3) \/ At(4)
                           \/ At(5) \/ At(6) \/ At(7) \/ At(8) \/ At(9)
  BY <1>0, DecidedPlaces DEF At
<1>11. At(9) => pc = "freed" /\ saved = NumPlayers
  BY <1>0, DecidedPlaces DEF At, GameInv, WindUpOK
<1> QED
  BY <1>1, <1>2, <1>3, <1>4, <1>5, <1>6, <1>7, <1>8, <1>9, <1>10, <1>11,
     GameInvariance, PTL DEF Spec, DecidedGameIsWoundUp
=============================================================================
