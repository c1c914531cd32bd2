----------------------------- MODULE MCAccounts -----------------------------
(* Instance of Accounts for TLC. *)
EXTENDS Accounts, TLC

\* Ids with an apostrophe and ids without are not interchangeable.
SameIds == {p \in Permutations(Ids) : \A i \in Quoted : p[i] \in Quoted}

Same == SameIds \cup Permutations(Names) \cup Permutations(Threads)
=============================================================================
