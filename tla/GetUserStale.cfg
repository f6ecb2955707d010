SPECIFICATION Spec
CONSTANTS
    bob = bob
    Bob = Bob
    eve = eve
    ann = ann
    dan = dan
    n1 = n1
    n2 = n2
    n3 = n3
    n4 = n4
    Name = {bob, Bob, eve, ann, dan}
    Folded <- FoldCase
    Node = {n1, n2, n3, n4}
    MaxUsers = 3
    NULL = NULL
    Unset = Unset
PROPERTIES
    GetUserReturnsIndexed
