------------------------------ MODULE UserList ------------------------------
(***************************************************************************)
(* UserList: a linked list of UserNodes, its size, and the two static      *)
(* variables with which getUser() remembers where it last was.             *)
(*                                                                         *)
(* A node is an address; delete frees it and a later new may return it     *)
(* again.  A user is reduced to its user@host pair.  retrieve() ignores    *)
(* case and remove() does not, so a name has a Folded form.                *)
(***************************************************************************)
EXTENDS Naturals, FiniteSets, Sequences

CONSTANTS
    Name,        \* user@host pairs, as written
    Folded(_),   \* a name without regard to case
    Node,        \* addresses
    MaxUsers,    \* LP2PM_DEFAULT_MAX_USERS
    NULL,        \* no node, and the name of no user
    Unset        \* a static variable before the first call

ASSUME ListAssumption ==
    /\ IsFiniteSet(Node)
    /\ MaxUsers \in Nat
    /\ Cardinality(Node) > MaxUsers
    /\ NULL \notin Node \cup Name
    /\ Unset \notin Node \cup {NULL}

VARIABLES
    head,        \* the first node
    next, user,  \* the fields of each node
    size,
    allocated,   \* the addresses new has returned and delete has not freed
    lastIndex,   \* last_index and last_p of getUser()
    lastNode,
    got          \* what getUser() was last asked for and returned

heap == <<head, next, user, size, allocated>>
vars == <<head, next, user, size, allocated, lastIndex, lastNode, got>>

TypeOK ==
    /\ head \in Node \cup {NULL}
    /\ next \in [Node -> Node \cup {NULL}]
    /\ user \in [Node -> Name \cup {NULL}]
    /\ size \in 0..MaxUsers
    /\ allocated \subseteq Node
    /\ lastIndex \in Nat
    /\ lastNode \in Node \cup {Unset}
    /\ got \in [index : Nat, node : Node \cup {NULL}] \cup {Unset}

Init ==
    /\ head = NULL
    /\ next = [p \in Node |-> NULL]
    /\ user = [p \in Node |-> NULL]
    /\ size = 0
    /\ allocated = {}
    /\ lastIndex = 0
    /\ lastNode = Unset
    /\ got = Unset

\* The node i links behind p.
Walk(p, i) ==
    LET at[k \in 0..i] == IF k = 0 THEN p
                          ELSE IF at[k - 1] = NULL THEN NULL
                          ELSE next[at[k - 1]]
    IN  at[i]

At(i) == Walk(head, i)

-----------------------------------------------------------------------------
\* Variant: names compared as they are written.
SameUserAsWritten(m, n) == m = n

\* compareUserHost()
SameUser(m, n) == Folded(m) = Folded(n)

\* retrieve() finds somebody.
Retrieved(n) == \E i \in 0..(size - 1) : SameUser(n, user[At(i)])

\* Variant: the limit is compared with > instead of >=.
HasRoomForOneMore == ~(size > MaxUsers)

HasRoom == ~(size >= MaxUsers)

\* insert(), which its callers reach only when retrieve() has found nobody.
\* A full list refuses: nothing changes.
Insert(n) ==
    /\ ~Retrieved(n)
    /\ HasRoom
    /\ \E p \in Node \ allocated :
          /\ allocated' = allocated \cup {p}
          /\ user' = [user EXCEPT ![p] = n]
          /\ next' = [next EXCEPT ![p] = head]
          /\ head' = p
    /\ size' = size + 1
    /\ UNCHANGED <<lastIndex, lastNode, got>>

\* shutdown() clears the user, delete frees the node; its next stays behind.
Free(p) ==
    /\ user' = [user EXCEPT ![p] = NULL]
    /\ allocated' = allocated \ {p}

\* The node t that trails p through remove()'s loop.
\* Variant: t is not moved along.
TrailingHead(i) == head

Trailing(i) == At(i - 1)

\* remove(): the first node with exactly this name.
Remove(n) ==
    \E i \in 0..(size - 1) :
        /\ user[At(i)] = n
        /\ \A j \in 0..(i - 1) : user[At(j)] /= n
        /\ IF i = 0
           THEN head' = next[head] /\ UNCHANGED next
           ELSE next' = [next EXCEPT ![Trailing(i)] = next[At(i)]] /\ UNCHANGED head
        /\ Free(At(i))
        /\ size' = size - 1
        /\ UNCHANGED <<lastIndex, lastNode, got>>

Pop ==
    /\ head /= NULL
    /\ Free(head)
    /\ head' = next[head]
    /\ size' = size - 1
    /\ UNCHANGED <<next, lastIndex, lastNode, got>>

\* getUser() sets out from last_p when the index is not before last_index.
\* From a node that was freed it may find itself anywhere.
Found(index) ==
    IF lastNode = Unset \/ index < lastIndex THEN {At(index)}
    ELSE IF lastNode \in allocated THEN {Walk(lastNode, index - lastIndex)}
    ELSE IF index = lastIndex THEN {lastNode}
    ELSE Node \cup {NULL}

\* The event loop asks for an index below getSize().
GetUser(index) ==
    \E p \in Found(index) :
        /\ got' = [index |-> index, node |-> p]
        /\ IF p = NULL
           THEN /\ lastNode' = IF lastNode = Unset THEN head ELSE lastNode
                /\ UNCHANGED lastIndex
           ELSE lastNode' = p /\ lastIndex' = index
        /\ UNCHANGED heap

Next ==
    \/ \E n \in Name : Insert(n) \/ Remove(n)
    \/ Pop
    \/ \E index \in 0..(size - 1) : GetUser(index)

Spec == Init /\ [][Next]_vars

-----------------------------------------------------------------------------
Nodes == {At(i) : i \in 0..(size - 1)}

\* The chain from head ends after exactly size nodes, visits none twice, and
\* holds every node that is allocated: nothing leaks, nothing dangles.
WellFormed ==
    /\ At(size) = NULL
    /\ NULL \notin Nodes
    /\ Cardinality(Nodes) = size
    /\ Nodes = allocated

\* No two users that retrieve() cannot tell apart: a second one would never
\* be found.
UsersAreDistinct ==
    \A p, q \in Nodes : Folded(user[p]) = Folded(user[q]) => p = q

\* Whatever the links do, the list is the sequence of users that
\* UserSequence describes, never longer than MaxUsers; a step takes out one
\* user, from where it stood, or puts one in front.
Abstract == INSTANCE UserSequence WITH
    list <- [i \in 1..size |-> user[At(i - 1)]]

ImplementsUserSequence == Abstract!Spec

\* "returns user at specified index" (LP2PM_Userlist.h:78)
GetUserReturnsIndexed ==
    [][got' /= got => got'.node = At(got'.index)]_vars

-----------------------------------------------------------------------------
(* The inductive invariant of UserListProofs.                              *)

\* c names the nodes in the order of their links, and no two of their users
\* are the same.
Chain(c) ==
    /\ {c[i] : i \in 1..size} = allocated
    /\ \A i, j \in 1..size : Folded(user[c[i]]) = Folded(user[c[j]]) => i = j
    /\ head = IF size = 0 THEN NULL ELSE c[1]
    /\ \A i \in 1..size : next[c[i]] = IF i = size THEN NULL ELSE c[i + 1]

IInv == TypeOK /\ \E c \in [1..size -> Node] : Chain(c)
=============================================================================
