---------------------------- MODULE UserSequence ----------------------------
(***************************************************************************)
(* What a UserList is for: the users that are known, the latest first, at  *)
(* most MaxUsers of them.                                                  *)
(***************************************************************************)
EXTENDS Naturals, SequencesExt

CONSTANTS Name, MaxUsers

VARIABLE list

Init == list = <<>>

Enter(n) ==
    /\ Len(list) < MaxUsers
    /\ list' = <<n>> \o list

Leave(i) == list' = RemoveAt(list, i)

Next ==
    \/ \E n \in Name : Enter(n)
    \/ \E i \in DOMAIN list : Leave(i)

Spec == Init /\ [][Next]_list
=============================================================================
