---------------------------- MODULE RandomMatch ----------------------------
(***************************************************************************)
(* What a random match promises to the players: who asks waits, and a game *)
(* starts at one moment for RoomSize different players, all of whom have   *)
(* asked and none of whom is in the lobby or in a game; only one who has   *)
(* left since then is missing.  Matchmaking implements this where nobody   *)
(* cancels.                                                                *)
(***************************************************************************)
EXTENDS Naturals, FiniteSets

CONSTANTS Clients, RoomSize

VARIABLE place   \* where each player is

MatchInit == place = [c \in Clients |-> "lobby"]

Moves(c, from, to) ==
  /\ place[c] = from
  /\ place' = [place EXCEPT ![c] = to]

Ask(c) == Moves(c, "lobby", "waiting")

\* A game is over: each player goes back when he has heard of it.
Return(c) == Moves(c, "game", "lobby")

Leave(c) == \E from \in {"lobby", "waiting", "game"} : Moves(c, from, "gone")

Start(room) ==
  /\ Cardinality(room) = RoomSize
  /\ \A c \in room : place[c] \in {"waiting", "gone"}
  /\ place' = [c \in Clients |-> IF c \in room /\ place[c] = "waiting"
                                 THEN "game" ELSE place[c]]

MatchNext ==
  \/ \E c \in Clients : Ask(c) \/ Return(c) \/ Leave(c)
  \/ \E room \in SUBSET Clients : Start(room)

MatchSpec == MatchInit /\ [][MatchNext]_place
=============================================================================
