----------------------------- MODULE MCSession -----------------------------
(* Constants of Session for TLC.                                           *)
EXTENDS Session

Addresses == [p \in Peer |-> TRUE]

Symmetry == Permutations(Peer)
=============================================================================
