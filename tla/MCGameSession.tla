--------------------------- MODULE MCGameSession ---------------------------
(***************************************************************************)
(* TLC instance of GameSession: a leader and a member per team, a board of *)
(* six cards with two red and two blue ones.                               *)
(***************************************************************************)
EXTENDS GameSession, TLC

CONSTANTS r1, r2, b1, b2, n1, a1

\* Boards differ only in which word has which colour, and the words are
\* interchangeable: one board stands for all.
MCLayouts == {(r1 :> "red") @@ (r2 :> "red") @@ (b1 :> "blue")
                @@ (b2 :> "blue") @@ (n1 :> "neutral") @@ (a1 :> "assassin")}
MCHintNumbers == {-1, 0, 2}
=============================================================================
