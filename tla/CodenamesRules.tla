--------------------------- MODULE CodenamesRules ---------------------------
(***************************************************************************)
(* The game a session plays, as the players round the table see it: no     *)
(* threads, no queue, no score counters.  The leader of the team on turn   *)
(* gives a hint, the members of the team uncover words until the turn      *)
(* passes, and the board decides who has won.  GameSession implements it.  *)
(*                                                                         *)
(* The number a leader gives allows that many guesses, and at least one.   *)
(***************************************************************************)
EXTENDS Integers

CONSTANTS Word,         \* the words on the board, one per card
          Layouts,      \* the boards: which colour is under each word
          HintNumbers   \* the numbers a leader may give

Red == 0
Blue == 1
Team == {Red, Blue}
NoTeam == -1
Other(team) == 1 - team

Colour(team) == IF team = Red THEN "red" ELSE "blue"

VARIABLES layout,     \* the colours under the words
          revealed,   \* the words uncovered so far
          turn,       \* the team on turn
          allowance,  \* how many guesses its hint allows; 0 before the hint
          guesses,    \* the guesses it has made since the hint
          winner      \* the team that has won, or NoTeam

rulesVars == <<layout, revealed, turn, allowance, guesses, winner>>

\* Every word of the team's colour is in the set.
Complete(team, words) ==
  \A w \in Word : layout[w] = Colour(team) => w \in words

RulesInit ==
  /\ layout \in Layouts
  /\ revealed = {}
  /\ turn = Red
  /\ allowance = 0
  /\ guesses = 0
  /\ winner = NoTeam

GiveHint(n) ==
  /\ winner = NoTeam
  /\ allowance = 0
  /\ allowance' = IF n < 1 THEN 1 ELSE n
  /\ UNCHANGED <<layout, revealed, turn, guesses, winner>>

\* The team on turn uncovers w and may go on.
GuessRight(w) ==
  /\ layout[w] = Colour(turn)
  /\ guesses + 1 < allowance
  /\ guesses' = guesses + 1
  /\ UNCHANGED <<turn, allowance>>

\* The team on turn uncovers w and its turn is over.
GuessLast(w) ==
  /\ layout[w] # "assassin"
  /\ layout[w] # Colour(turn) \/ guesses + 1 = allowance
  /\ turn' = Other(turn)
  /\ allowance' = 0
  /\ guesses' = 0

\* A card counts for the team of its colour, whoever uncovers it.
GuessCard(w) ==
  /\ GuessRight(w) \/ GuessLast(w)
  /\ \/ \E team \in Team : Complete(team, revealed') /\ winner' = team
     \/ ~ (\E team \in Team : Complete(team, revealed')) /\ winner' = NoTeam

\* The team that uncovers the assassin has lost.
GuessAssassin(w) ==
  /\ layout[w] = "assassin"
  /\ winner' = Other(turn)
  /\ UNCHANGED <<turn, allowance, guesses>>

Guess(w) ==
  /\ winner = NoTeam
  /\ allowance > 0
  /\ w \notin revealed
  /\ revealed' = revealed \cup {w}
  /\ GuessCard(w) \/ GuessAssassin(w)
  /\ UNCHANGED layout

RulesNext ==
  \/ \E n \in HintNumbers : GiveHint(n)
  \/ \E w \in Word : Guess(w)

RulesSpec == RulesInit /\ [][RulesNext]_rulesVars
=============================================================================
