------------------------------ MODULE MCClient ------------------------------
(* Instance of ClientProgram for TLC. *)
EXTENDS ClientProgram

CONSTANTS r1, r2, b     \* a red word, one more or the assassin's, a blue one

MCWord == {r1, r2, b}

MCLayouts ==
  {[w \in MCWord |-> IF w = r1 THEN "red" ELSE IF w = b THEN "blue" ELSE c] :
     c \in {"red", "assassin"}}

MCTexts == {Empty, r1}

MCDeals == {[team |-> Red, is_leader |-> TRUE],
            [team |-> Blue, is_leader |-> FALSE]}
=============================================================================
