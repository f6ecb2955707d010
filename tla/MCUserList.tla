----------------------------- MODULE MCUserList -----------------------------
(* Constants of UserList for TLC: two spellings of one user, three others. *)
EXTENDS UserList, TLC

CONSTANTS bob, Bob, eve, ann, dan

FoldCase(n) == IF n = Bob THEN bob ELSE n

Addresses == Permutations(Node)
=============================================================================
