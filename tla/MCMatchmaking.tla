--------------------------- MODULE MCMatchmaking ---------------------------
(***************************************************************************)
(* TLC instances of Matchmaking.  MCTable.cfg: just enough clients for one *)
(* room, which play game after game.  MCOpen.cfg: more clients than a room *)
(* seats, one of whom also cancels and disconnects.  MCTwoRooms.cfg and    *)
(* MCCancel.cfg: the instances in which a barrier and a cancel go wrong.   *)
(***************************************************************************)
EXTENDS Matchmaking, TLC

\* Rooms are interchangeable, and so are the clients that stay.
OpenSymmetry == Permutations(Rooms)
                  \cup Permutations(Clients \ (Cancellers \cup Leavers))

\* Bound on the lines under way, in both directions.
FewLines ==
  /\ \A c \in Clients : Len(inbox[c]) + Len(outbox[c]) <= 2
  /\ SumFunction([c \in Clients |-> Len(inbox[c]) + Len(outbox[c])]) <= 3
=============================================================================
