-------------------------- MODULE UserListProofs --------------------------
(***************************************************************************)
(* Proofs about UserList for every set of addresses and names, every       *)
(* folding of names and every limit on the number of users.                *)
(***************************************************************************)
EXTENDS UserList, SetInduction, FiniteSetTheorems, FunctionTheorems, SequenceTheorems

-----------------------------------------------------------------------------
(* Walking along the links                                                 *)

\* The walk takes whatever sequence of nodes begins at p and follows the
\* links: there is only one.
LEMMA WalkIs ==
    ASSUME NEW p, NEW m \in Nat, NEW f, f[0] = p,
           \A k \in 1..m : f[k] = IF f[k - 1] = NULL THEN NULL ELSE next[f[k - 1]]
    PROVE  Walk(p, m) = f[m]
<1> DEFINE Good(g) == g = [k \in 0..m |-> IF k = 0 THEN p
                                          ELSE IF g[k - 1] = NULL THEN NULL
                                          ELSE next[g[k - 1]]]
           at == CHOOSE g : Good(g)
           Agree == {k \in 0..m : at[k] = f[k]}
<1>1. Walk(p, m) = at[m]
  BY DEF Walk
<1>2. Good([k \in 0..m |-> f[k]])
  <2> DEFINE h == [k \in 0..m |-> f[k]]
  <2>1. \A k \in 0..m : k /= 0 => h[k - 1] = f[k - 1]
    OBVIOUS
  <2>2. \A k \in 0..m : h[k] = IF k = 0 THEN p
                               ELSE IF h[k - 1] = NULL THEN NULL
                               ELSE next[h[k - 1]]
    BY <2>1
  <2>3. h = [k \in 0..m |-> h[k]]
    OBVIOUS
  <2> HIDE DEF h
  <2>4. QED
    BY <2>2, <2>3
<1>3. Good(at)
  <2> HIDE DEF Good
  <2>1. QED
    BY <1>2
<1> HIDE DEF at
<1>4. ASSUME NEW k \in 0..m, 0..(k - 1) \subseteq Agree
      PROVE  k \in Agree
  <2>1. CASE k = 0
    BY <2>1, <1>3
  <2>2. CASE k /= 0
    <3>1. k - 1 \in 0..(k - 1)
      BY <2>2
    <3>2. at[k - 1] = f[k - 1]
      BY <1>4, <3>1
    <3>3. at[k] = IF at[k - 1] = NULL THEN NULL ELSE next[at[k - 1]]
      BY <1>3, <2>2
    <3>4. QED
      BY <2>2, <3>2, <3>3
  <2>3. QED
    BY <2>1, <2>2
<1>5. 0..m \subseteq Agree
  <2> HIDE DEF Agree
  <2>1. QED
    BY <1>4, UpwardInduction
<1>6. QED
  BY <1>1, <1>5

\* The node i links behind the head, where c lists the nodes.
Slot(c, i) == IF i < size THEN c[i + 1] ELSE NULL

\* Walking i links from the j-th node of a chain is to reach the node i
\* places behind it; beyond the last one there is none.
LEMMA WalkAlong ==
    ASSUME TypeOK, NEW c \in [1..size -> Node], Chain(c),
           NEW j \in 0..size, NEW i \in Nat
    PROVE  Walk(Slot(c, j), i) = Slot(c, j + i)
<1> DEFINE f == [k \in 0..i |-> Slot(c, j + k)]
<1>1. size \in Nat
  BY ListAssumption DEF TypeOK
<1>2. NULL \notin Node
  BY ListAssumption
<1>3. ASSUME NEW k \in 1..i
      PROVE  f[k] = IF f[k - 1] = NULL THEN NULL ELSE next[f[k - 1]]
  <2>1. f[k] = Slot(c, j + k) /\ f[k - 1] = Slot(c, j + k - 1)
    BY <1>3
  <2>2. CASE j + k - 1 < size
    <3>1. j + k \in 1..size
      BY <1>1, <1>3, <2>2
    <3>2. f[k - 1] = c[j + k] /\ c[j + k] \in Node
      BY <1>1, <2>1, <2>2, <3>1 DEF Slot
    <3>3. next[c[j + k]] = IF j + k = size THEN NULL ELSE c[j + k + 1]
      BY <3>1 DEF Chain
    <3>4. Slot(c, j + k) = IF j + k = size THEN NULL ELSE c[j + k + 1]
      BY <1>1, <3>1 DEF Slot
    <3>5. QED
      BY <1>2, <2>1, <3>2, <3>3, <3>4
  <2>3. CASE ~(j + k - 1 < size)
    <3>1. f[k - 1] = NULL /\ f[k] = NULL
      BY <1>1, <1>3, <2>1, <2>3 DEF Slot
    <3>2. QED
      BY <3>1
  <2>4. QED
    BY <2>2, <2>3
<1>4. f[0] = Slot(c, j)
  OBVIOUS
<1>6. f[i] = Slot(c, j + i)
  OBVIOUS
<1> HIDE DEF f
<1>7. QED
  BY <1>3, <1>4, <1>6, WalkIs

\* What the loops of retrieve(), remove() and getUser() reach from the head.
LEMMA AtIs ==
    ASSUME TypeOK, NEW c \in [1..size -> Node], Chain(c)
    PROVE  /\ \A i \in 0..(size - 1) : At(i) = c[i + 1]
           /\ At(size) = NULL
<1>1. size \in Nat
  BY ListAssumption DEF TypeOK
<1>2. head = Slot(c, 0)
  BY <1>1 DEF Chain, Slot
<1>3. \A i \in Nat : At(i) = Slot(c, i)
  BY <1>1, <1>2, WalkAlong DEF At
<1>4. QED
  BY <1>1, <1>3 DEF Slot

\* No address occurs twice in a chain.
LEMMA ChainInjective ==
    ASSUME NEW c, Chain(c), NEW i \in 1..size, NEW j \in 1..size, c[i] = c[j]
    PROVE  i = j
<1>1. Folded(user[c[i]]) = Folded(user[c[j]])
  OBVIOUS
<1>2. QED
  BY <1>1 DEF Chain

-----------------------------------------------------------------------------
(* What insert(), remove() and pop() make of a chain                       *)

\* A node in front.
LEMMA InsertChain ==
    ASSUME TypeOK, NEW c \in [1..size -> Node], Chain(c), NEW n \in Name, Insert(n)
    PROVE  \E d \in [1..size' -> Node] :
              /\ Chain(d)'
              /\ user'[d[1]] = n
              /\ \A i \in 1..size : user'[d[i + 1]] = user[c[i]]
<1>1. size \in Nat /\ size' = size + 1
  BY ListAssumption DEF TypeOK, Insert
<1>2. PICK p \in Node \ allocated :
         /\ allocated' = allocated \cup {p}
         /\ user' = [user EXCEPT ![p] = n]
         /\ next' = [next EXCEPT ![p] = head]
         /\ head' = p
  BY DEF Insert
<1>3. PICK d \in [1..size' -> Node] : d[1] = p /\ \A i \in 1..size : d[i + 1] = c[i]
  <2> DEFINE e == [i \in 1..size' |-> IF i = 1 THEN p ELSE c[i - 1]]
  <2>1. e \in [1..size' -> Node] /\ e[1] = p /\ \A i \in 1..size : e[i + 1] = c[i]
    BY <1>1
  <2>2. QED
    BY <2>1
<1>4. \A i \in 1..size : c[i] \in Node /\ c[i] /= p
  BY DEF Chain
<1>5. /\ user'[p] = n /\ next'[p] = head
      /\ \A i \in 1..size : user'[c[i]] = user[c[i]] /\ next'[c[i]] = next[c[i]]
  BY <1>2, <1>4 DEF TypeOK
<1>6. \A i \in 1..(size + 1) : i = 1 \/ (i - 1 \in 1..size /\ d[i] = c[i - 1])
  <2>1. ASSUME NEW i \in 1..(size + 1), i /= 1 PROVE i - 1 \in 1..size /\ i - 1 + 1 = i
    BY <1>1, <2>1
  <2>2. QED
    BY <1>3, <2>1
<1>7. {d[i] : i \in 1..size'} = allocated'
  <2>1. \A i \in 1..size' : d[i] \in allocated'
    BY <1>1, <1>2, <1>3, <1>6 DEF Chain
  <2>2. \A q \in allocated' : \E i \in 1..size' : d[i] = q
    <3>1. ASSUME NEW q \in allocated PROVE \E i \in 1..size' : d[i] = q
      <4>1. PICK i \in 1..size : c[i] = q
        BY DEF Chain
      <4>2. i + 1 \in 1..size' /\ d[i + 1] = q
        BY <1>1, <1>3, <4>1
      <4>3. QED
        BY <4>2
    <3>2. 1 \in 1..size'
      BY <1>1
    <3>3. QED
      BY <1>2, <1>3, <3>1, <3>2
  <2>3. QED
    BY <2>1, <2>2
<1>8. ASSUME NEW i \in 1..size', NEW j \in 1..size',
             Folded(user'[d[i]]) = Folded(user'[d[j]])
      PROVE  i = j
  <2>1. \A k \in 1..size : Folded(n) /= Folded(user[c[k]])
    <3>1. ASSUME NEW k \in 1..size PROVE Folded(n) /= Folded(user[c[k]])
      <4>1. k - 1 \in 0..(size - 1) /\ At(k - 1) = c[k]
        BY <1>1, AtIs
      <4>2. QED
        BY <4>1 DEF Insert, Retrieved, SameUser
    <3>2. QED
      BY <3>1
  <2>2. CASE i = 1 \/ j = 1
    BY <1>1, <1>3, <1>5, <1>6, <1>8, <2>1, <2>2
  <2>3. CASE i /= 1 /\ j /= 1
    <3>1. i - 1 \in 1..size /\ j - 1 \in 1..size /\ d[i] = c[i - 1] /\ d[j] = c[j - 1]
      BY <1>1, <1>6, <2>3
    <3>2. Folded(user[c[i - 1]]) = Folded(user[c[j - 1]])
      BY <1>5, <1>8, <3>1
    <3>3. i - 1 = j - 1
      BY <3>1, <3>2 DEF Chain
    <3>4. QED
      BY <1>1, <3>3
  <2>4. QED
    BY <2>2, <2>3
<1>9. head' = IF size' = 0 THEN NULL ELSE d[1]
  BY <1>1, <1>2, <1>3
<1>10. ASSUME NEW i \in 1..size'
       PROVE  next'[d[i]] = IF i = size' THEN NULL ELSE d[i + 1]
  <2>1. CASE i = 1
    BY <1>1, <1>3, <1>5, <2>1 DEF Chain
  <2>2. CASE i /= 1
    <3>1. i - 1 \in 1..size /\ d[i] = c[i - 1]
      BY <1>1, <1>6, <2>2
    <3>2. next'[d[i]] = IF i - 1 = size THEN NULL ELSE c[i - 1 + 1]
      BY <1>5, <3>1 DEF Chain
    <3>3. i - 1 /= size => i \in 1..size /\ c[i - 1 + 1] = c[i] /\ d[i + 1] = c[i]
      BY <1>1, <1>3, <3>1
    <3>4. QED
      BY <1>1, <3>2, <3>3
  <2>3. QED
    BY <2>1, <2>2
<1>11. Chain(d)'
  BY <1>7, <1>8, <1>9, <1>10 DEF Chain
<1>12. user'[d[1]] = n /\ \A i \in 1..size : user'[d[i + 1]] = user[c[i]]
  BY <1>3, <1>5
<1>13. QED
  BY <1>3, <1>11, <1>12

\* What remove() and pop() have in common: the i-th node is taken out of the
\* links and freed.
TakenOut(c, i) ==
    /\ Free(c[i])
    /\ size' = size - 1
    /\ IF i = 1
       THEN head' = next[head] /\ next' = next
       ELSE next' = [next EXCEPT ![c[i - 1]] = next[c[i]]] /\ head' = head
    /\ UNCHANGED <<lastIndex, lastNode, got>>

\* remove() takes out the node it stops at: the node that trails it is the
\* one before it in the chain.
LEMMA RemoveTakesOut ==
    ASSUME TypeOK, NEW c \in [1..size -> Node], Chain(c), NEW n, Remove(n)
    PROVE  \E i \in 1..size : TakenOut(c, i)
<1>1. size \in Nat
  BY ListAssumption DEF TypeOK
<1>2. PICK i \in 0..(size - 1) :
         /\ IF i = 0
            THEN head' = next[head] /\ UNCHANGED next
            ELSE next' = [next EXCEPT ![Trailing(i)] = next[At(i)]] /\ UNCHANGED head
         /\ Free(At(i))
         /\ size' = size - 1
         /\ UNCHANGED <<lastIndex, lastNode, got>>
  BY DEF Remove
<1>3. i + 1 \in 1..size /\ At(i) = c[i + 1]
  BY <1>1, AtIs
<1>4. i /= 0 => Trailing(i) = c[i]
  <2>1. i /= 0 => i - 1 \in 0..(size - 1) /\ (i - 1) + 1 = i
    BY <1>1
  <2>2. QED
    BY <2>1, AtIs DEF Trailing
<1>5. i + 1 - 1 = i /\ (i + 1 = 1 <=> i = 0)
  OBVIOUS
<1>6. TakenOut(c, i + 1)
  <2>1. CASE i = 0
    BY <1>2, <1>3, <1>5, <2>1 DEF TakenOut
  <2>2. CASE i /= 0
    BY <1>2, <1>3, <1>4, <1>5, <2>2 DEF TakenOut
  <2>3. QED
    BY <2>1, <2>2
<1>7. QED
  BY <1>3, <1>6

\* pop() takes out the first node.
LEMMA PopTakesOut ==
    ASSUME TypeOK, NEW c \in [1..size -> Node], Chain(c), Pop
    PROVE  \E i \in 1..size : TakenOut(c, i)
<1>1. size \in Nat /\ size /= 0
  BY ListAssumption DEF TypeOK, Pop, Chain
<1>2. 1 \in 1..size /\ head = c[1]
  BY <1>1 DEF Chain
<1>3. TakenOut(c, 1)
  BY <1>2 DEF Pop, TakenOut
<1>4. QED
  BY <1>2, <1>3

\* What is left is a chain of the other nodes, in their order, with their
\* users.
LEMMA TakenOutChain ==
    ASSUME TypeOK, NEW c \in [1..size -> Node], Chain(c),
           NEW i \in 1..size, TakenOut(c, i)
    PROVE  \E d \in [1..size' -> Node] :
              /\ Chain(d)'
              /\ \A k \in 1..(i - 1) : user'[d[k]] = user[c[k]]
              /\ \A k \in i..(size - 1) : user'[d[k]] = user[c[k + 1]]
<1>1. size \in Nat /\ size' = size - 1 /\ size' \in Nat
  BY ListAssumption DEF TypeOK, TakenOut
<1>2. \A k \in 1..size : c[k] \in Node /\ (c[k] = c[i] => k = i)
  BY ChainInjective
<1>3. PICK d \in [1..size' -> Node] :
         \A k \in 1..size' : d[k] = IF k < i THEN c[k] ELSE c[k + 1]
  <2> DEFINE e == [k \in 1..size' |-> IF k < i THEN c[k] ELSE c[k + 1]]
  <2>1. e \in [1..size' -> Node]
    BY <1>1, <1>2
  <2>2. QED
    BY <2>1
<1>4. /\ \A k \in 1..(i - 1) : k \in 1..size' /\ k \in 1..size /\ d[k] = c[k]
      /\ \A k \in i..(size - 1) : k \in 1..size' /\ k + 1 \in 1..size /\ d[k] = c[k + 1]
  BY <1>1, <1>3
<1>5. \A k \in 1..size : k /= i => user'[c[k]] = user[c[k]]
  BY <1>2 DEF TakenOut, Free, TypeOK
<1>6. \A k \in 1..size' : \E m \in 1..size :
         m /= i /\ d[k] = c[m] /\ m = IF k < i THEN k ELSE k + 1
  BY <1>1, <1>3
<1>7. \A m \in 1..size : m /= i => \E k \in 1..size' : d[k] = c[m]
  <2>1. ASSUME NEW m \in 1..size, m /= i PROVE \E k \in 1..size' : d[k] = c[m]
    <3>1. CASE m < i
      BY <1>1, <1>4, <3>1
    <3>2. CASE ~(m < i)
      <4>1. m - 1 \in i..(size - 1) /\ m - 1 + 1 = m
        BY <1>1, <2>1, <3>2
      <4>2. QED
        BY <1>4, <4>1
    <3>3. QED
      BY <3>1, <3>2
  <2>2. QED
    BY <2>1
<1>8. {d[k] : k \in 1..size'} = allocated'
  <2>1. \A q : q \in allocated <=> \E m \in 1..size : c[m] = q
    BY DEF Chain
  <2>2. \A q : q \in allocated' <=> \E m \in 1..size : m /= i /\ c[m] = q
    BY <1>2, <2>1 DEF TakenOut, Free
  <2>3. \A q : q \in allocated' <=> \E k \in 1..size' : d[k] = q
    BY <1>6, <1>7, <2>2
  <2>4. QED
    BY <2>3
<1>9. ASSUME NEW j \in 1..size', NEW k \in 1..size',
             Folded(user'[d[j]]) = Folded(user'[d[k]])
      PROVE  j = k
  <2>1. PICK m \in 1..size : m /= i /\ d[j] = c[m] /\ m = IF j < i THEN j ELSE j + 1
    BY <1>6
  <2>2. PICK n \in 1..size : n /= i /\ d[k] = c[n] /\ n = IF k < i THEN k ELSE k + 1
    BY <1>6
  <2>3. Folded(user[c[m]]) = Folded(user[c[n]])
    BY <1>5, <1>9, <2>1, <2>2
  <2>4. m = n
    BY <2>3 DEF Chain
  <2>5. QED
    BY <2>1, <2>2, <2>4
<1>10. next[c[i]] = IF i = size THEN NULL ELSE c[i + 1]
  BY DEF Chain
<1>11. head' = IF size' = 0 THEN NULL ELSE d[1]
  <2>1. size /= 0 /\ head = c[1]
    BY <1>1 DEF Chain
  <2>2. CASE i = 1
    <3>1. head' = next[c[i]]
      BY <2>1, <2>2 DEF TakenOut
    <3>2. i /= size => d[1] = c[i + 1]
      BY <1>1, <1>4, <2>2
    <3>3. QED
      BY <1>1, <1>10, <2>2, <3>1, <3>2
  <2>3. CASE i /= 1
    <3>1. head' = c[1]
      BY <2>1, <2>3 DEF TakenOut
    <3>2. d[1] = c[1] /\ size' /= 0
      BY <1>1, <1>4, <2>3
    <3>3. QED
      BY <3>1, <3>2
  <2>4. QED
    BY <2>2, <2>3
<1>12. ASSUME NEW k \in 1..size'
       PROVE  next'[d[k]] = IF k = size' THEN NULL ELSE d[k + 1]
  <2>1. CASE i /= 1 /\ k = i - 1
    <3>1. d[k] = c[i - 1] /\ i - 1 \in 1..size
      BY <1>1, <1>4, <2>1
    <3>2. next'[c[i - 1]] = next[c[i]]
      BY <1>2, <2>1, <3>1 DEF TakenOut, TypeOK
    <3>3. k /= size' => i /= size /\ d[k + 1] = c[i + 1]
      BY <1>1, <1>4, <2>1
    <3>4. k = size' => i = size
      BY <1>1, <2>1
    <3>5. QED
      BY <1>10, <3>1, <3>2, <3>3, <3>4
  <2>2. CASE ~(i /= 1 /\ k = i - 1)
    <3>1. PICK m \in 1..size : m /= i /\ d[k] = c[m] /\ m = IF k < i THEN k ELSE k + 1
      BY <1>6
    <3>2. i /= 1 => i - 1 \in 1..size /\ c[i - 1] /= c[m]
      <4>1. i /= 1 => i - 1 \in 1..size /\ m /= i - 1
        BY <1>1, <2>2, <3>1
      <4>2. QED
        BY <4>1, ChainInjective
    <3>3. next'[c[m]] = next[c[m]]
      BY <1>2, <3>2 DEF TakenOut, TypeOK
    <3>4. next[c[m]] = IF m = size THEN NULL ELSE c[m + 1]
      BY DEF Chain
    <3>5. k = size' <=> m = size
      BY <1>1, <2>2, <3>1
    <3>6. k /= size' => d[k + 1] = c[m + 1]
      BY <1>1, <1>3, <2>2, <3>1
    <3>7. QED
      BY <3>1, <3>3, <3>4, <3>5, <3>6
  <2>3. QED
    BY <2>1, <2>2
<1>13. Chain(d)'
  BY <1>8, <1>9, <1>11, <1>12 DEF Chain
<1>14. /\ \A k \in 1..(i - 1) : user'[d[k]] = user[c[k]]
       /\ \A k \in i..(size - 1) : user'[d[k]] = user[c[k + 1]]
  <2>1. ASSUME NEW k \in 1..(i - 1) PROVE user'[d[k]] = user[c[k]]
    <3>1. k /= i /\ k \in 1..size /\ d[k] = c[k]
      BY <1>1, <1>4
    <3>2. QED
      BY <1>5, <3>1
  <2>2. ASSUME NEW k \in i..(size - 1) PROVE user'[d[k]] = user[c[k + 1]]
    <3>1. k + 1 /= i /\ k + 1 \in 1..size /\ d[k] = c[k + 1]
      BY <1>1, <1>4
    <3>2. QED
      BY <1>5, <3>1
  <2>3. QED
    BY <2>1, <2>2
<1>15. QED
  BY <1>13, <1>14

-----------------------------------------------------------------------------
(* Types                                                                   *)

\* The empty list.
LEMMA TypeInit == Init => TypeOK
  BY ListAssumption DEF Init, TypeOK

\* insert() does not go beyond the limit.
LEMMA InsertType ==
    ASSUME TypeOK, NEW n \in Name, Insert(n)
    PROVE  TypeOK'
<1>1. size' \in 0..MaxUsers
  BY ListAssumption DEF Insert, HasRoom, TypeOK
<1>2. PICK p \in Node \ allocated :
         /\ allocated' = allocated \cup {p}
         /\ user' = [user EXCEPT ![p] = n]
         /\ next' = [next EXCEPT ![p] = head]
         /\ head' = p
  BY DEF Insert
<1>3. QED
  BY <1>1, <1>2 DEF Insert, TypeOK

\* Taking out a node.
LEMMA TakenOutType ==
    ASSUME TypeOK, NEW c \in [1..size -> Node], Chain(c), NEW i \in 1..size, TakenOut(c, i)
    PROVE  TypeOK'
<1>1. size \in Nat /\ size' \in 0..MaxUsers
  BY ListAssumption DEF TypeOK, TakenOut
<1>2. user' \in [Node -> Name \cup {NULL}] /\ allocated' \subseteq Node
  BY DEF TypeOK, TakenOut, Free
<1>3. next[c[i]] \in Node \cup {NULL}
  BY DEF TypeOK
<1>4. next' \in [Node -> Node \cup {NULL}]
  BY <1>3 DEF TypeOK, TakenOut
<1>5. head' \in Node \cup {NULL}
  <2>1. head = c[1] /\ c[1] \in Node
    BY <1>1 DEF Chain
  <2>2. QED
    BY <2>1 DEF TypeOK, TakenOut
<1>6. QED
  BY <1>1, <1>2, <1>4, <1>5 DEF TypeOK, TakenOut

\* getUser() remembers a node, and returns one or none: from the node it
\* remembers it reaches another of the chain or the end of it.
LEMMA GetUserType ==
    ASSUME TypeOK, NEW c \in [1..size -> Node], Chain(c),
           NEW index \in 0..(size - 1), GetUser(index)
    PROVE  TypeOK'
<1>1. size \in Nat /\ index \in Nat /\ size /= 0
  BY ListAssumption DEF TypeOK
<1>2. PICK p \in Found(index) :
         /\ got' = [index |-> index, node |-> p]
         /\ IF p = NULL
            THEN /\ lastNode' = IF lastNode = Unset THEN head ELSE lastNode
                 /\ UNCHANGED lastIndex
            ELSE lastNode' = p /\ lastIndex' = index
         /\ UNCHANGED heap
  BY DEF GetUser
<1>3. \A i \in Nat : Slot(c, i) \in Node \cup {NULL}
  BY <1>1 DEF Slot
<1>4. p \in Node \cup {NULL}
  <2>1. CASE lastNode = Unset \/ index < lastIndex
    <3>1. p = At(index)
      BY <1>2, <2>1 DEF Found
    <3>2. At(index) = c[index + 1] /\ index + 1 \in 1..size
      BY <1>1, AtIs
    <3>3. QED
      BY <3>1, <3>2
  <2>2. CASE ~(lastNode = Unset \/ index < lastIndex)
    <3>1. lastNode \in Node /\ lastIndex \in Nat /\ index - lastIndex \in Nat
      BY <1>1, <2>2 DEF TypeOK
    <3>2. CASE lastNode \in allocated
      <4>1. p = Walk(lastNode, index - lastIndex)
        BY <1>2, <2>2, <3>2 DEF Found
      <4>2. PICK k \in 1..size : c[k] = lastNode
        BY <3>2 DEF Chain
      <4>3. k - 1 \in 0..size /\ lastNode = Slot(c, k - 1)
        BY <1>1, <4>2 DEF Slot
      <4>4. p = Slot(c, k - 1 + (index - lastIndex))
        BY <3>1, <4>1, <4>3, WalkAlong
      <4>5. k - 1 + (index - lastIndex) \in Nat
        BY <3>1, <4>2
      <4>6. QED
        BY <1>3, <4>4, <4>5
    <3>3. CASE lastNode \notin allocated
      BY <1>2, <2>2, <3>1, <3>3 DEF Found
    <3>4. QED
      BY <3>2, <3>3
  <2>3. QED
    BY <2>1, <2>2
<1>5. head \in Node
  BY <1>1 DEF Chain
<1>6. lastNode' \in Node \cup {Unset}
  BY <1>2, <1>4, <1>5 DEF TypeOK
<1>7. got' \in [index : Nat, node : Node \cup {NULL}]
  BY <1>1, <1>2, <1>4
<1>8. lastIndex' \in Nat
  BY <1>1, <1>2 DEF TypeOK
<1>9. QED
  BY <1>2, <1>6, <1>7, <1>8 DEF TypeOK, heap

-----------------------------------------------------------------------------
(* The invariant                                                           *)

\* The empty list is a chain of no nodes.
LEMMA InvariantInit == Init => IInv
<1> SUFFICES ASSUME Init PROVE IInv
  OBVIOUS
<1>1. TypeOK
  BY TypeInit
<1> DEFINE c == [i \in 1..size |-> NULL]
<1>2. size = 0 /\ 1..size = {}
  BY DEF Init
<1>3. c \in [1..size -> Node] /\ Chain(c)
  BY <1>2 DEF Init, Chain
<1>4. QED
  BY <1>1, <1>3 DEF IInv

\* A step leaves the heap alone, puts a node in front or takes one out.
LEMMA StepOfHeap ==
    ASSUME TypeOK, NEW c \in [1..size -> Node], Chain(c), [Next]_vars
    PROVE  \/ UNCHANGED heap /\ TypeOK'
           \/ \E n \in Name : Insert(n)
           \/ \E i \in 1..size : TakenOut(c, i)
<1>1. ASSUME NEW n \in Name, Remove(n)
      PROVE  \E i \in 1..size : TakenOut(c, i)
  BY <1>1, RemoveTakesOut
<1>2. ASSUME Pop PROVE \E i \in 1..size : TakenOut(c, i)
  BY <1>2, PopTakesOut
<1>3. ASSUME NEW index \in 0..(size - 1), GetUser(index)
      PROVE  UNCHANGED heap /\ TypeOK'
  <2>1. UNCHANGED heap
    BY <1>3 DEF GetUser
  <2>2. QED
    BY <1>3, <2>1, GetUserType
<1>4. CASE UNCHANGED vars
  BY <1>4 DEF vars, heap, TypeOK
<1>5. QED
  BY <1>1, <1>2, <1>3, <1>4 DEF Next

\* Every step leaves a chain behind.
LEMMA InvariantStep == IInv /\ [Next]_vars => IInv'
<1> SUFFICES ASSUME IInv, [Next]_vars PROVE IInv'
  OBVIOUS
<1>1. PICK c \in [1..size -> Node] : Chain(c)
  BY DEF IInv
<1>2. TypeOK
  BY DEF IInv
<1>3. CASE UNCHANGED heap /\ TypeOK'
  <2>1. Chain(c)' /\ c \in [1..size' -> Node]
    BY <1>1, <1>3 DEF heap, Chain
  <2>2. QED
    BY <1>3, <2>1 DEF IInv
<1>4. ASSUME NEW n \in Name, Insert(n) PROVE IInv'
  BY <1>1, <1>2, <1>4, InsertChain, InsertType DEF IInv
<1>5. ASSUME NEW i \in 1..size, TakenOut(c, i) PROVE IInv'
  BY <1>1, <1>2, <1>5, TakenOutChain, TakenOutType DEF IInv
<1>6. QED
  BY <1>1, <1>2, <1>3, <1>4, <1>5, StepOfHeap

\* In every reachable state the nodes that are allocated are those of a chain
\* from the head, whose users retrieve() can tell apart.
THEOREM Invariance == Spec => []IInv
<1>1. QED
  BY InvariantInit, InvariantStep, PTL DEF Spec

\* Every variable keeps its type; above all size never exceeds MaxUsers.
THEOREM TypeCorrect == Spec => []TypeOK
<1>1. IInv => TypeOK
  BY DEF IInv
<1>2. QED
  BY <1>1, Invariance, PTL

-----------------------------------------------------------------------------
(* Safety                                                                  *)

\* The nodes that are reached from the head.
LEMMA NodesAre ==
    ASSUME TypeOK, NEW c \in [1..size -> Node], Chain(c)
    PROVE  Nodes = allocated /\ \A i \in 1..size : c[i] \in allocated
<1>1. size \in Nat
  BY ListAssumption DEF TypeOK
<1>2. \A i \in 0..(size - 1) : i + 1 \in 1..size /\ At(i) = c[i + 1]
  BY <1>1, AtIs
<1>3. \A i \in 1..size : i - 1 \in 0..(size - 1) /\ At(i - 1) = c[i]
  <2>1. ASSUME NEW i \in 1..size PROVE i - 1 \in 0..(size - 1) /\ At(i - 1) = c[i]
    <3>1. i - 1 \in 0..(size - 1) /\ i - 1 + 1 = i
      BY <1>1
    <3>2. QED
      BY <1>2, <3>1
  <2>2. QED
    BY <2>1
<1>4. \A q : q \in Nodes <=> \E i \in 1..size : c[i] = q
  BY <1>2, <1>3 DEF Nodes
<1>5. allocated = {c[i] : i \in 1..size}
  BY DEF Chain
<1>6. Nodes \subseteq allocated /\ allocated \subseteq Nodes
  <2> HIDE DEF Chain
  <2>1. QED
    BY <1>4, <1>5
<1>7. \A i \in 1..size : c[i] \in allocated
  <2> HIDE DEF Chain
  <2>1. QED
    BY <1>5
<1>8. QED
  BY <1>6, <1>7

\* The list is well formed: the links from the head lead to every node that
\* is allocated, once, and to the end after exactly size nodes.
LEMMA ChainIsWellFormed ==
    ASSUME TypeOK, NEW c \in [1..size -> Node], Chain(c)
    PROVE  WellFormed
<1>1. size \in Nat
  BY ListAssumption DEF TypeOK
<1>2. At(size) = NULL
  BY AtIs
<1>3. Nodes = allocated /\ \A i \in 1..size : c[i] \in allocated
  BY NodesAre
<1>4. NULL \notin Nodes
  BY <1>3, ListAssumption DEF TypeOK
<1>5. Cardinality(allocated) = size
  <2>1. c \in [1..size -> allocated]
    BY <1>3
  <2>2. \A q \in allocated : \E i \in 1..size : c[i] = q
    BY DEF Chain
  <2>3. \A i, j \in 1..size : c[i] = c[j] => i = j
    BY ChainInjective
  <2>4. c \in Bijection(1..size, allocated)
    BY <2>1, <2>2, <2>3, Fun_IsBij
  <2>5. ExistsBijection(1..size, allocated)
    BY <2>4 DEF ExistsBijection
  <2>6. IsFiniteSet(1..size) /\ Cardinality(1..size) = size
    BY <1>1, FS_Interval
  <2>7. QED
    BY <2>5, <2>6, FS_Bijection
<1>6. QED
  BY <1>2, <1>3, <1>4, <1>5 DEF WellFormed

\* No operation loses, leaks, links twice or leaves dangling a node, for any
\* number of users and whatever addresses are used again.
THEOREM ListIsWellFormed == Spec => []WellFormed
<1>1. IInv => WellFormed
  BY ChainIsWellFormed DEF IInv
<1>2. QED
  BY <1>1, Invariance, PTL

\* retrieve() before insert() keeps users apart that differ in more than
\* their case, and no removal brings two together.
THEOREM UsersStayDistinct == Spec => []UsersAreDistinct
<1>1. ASSUME IInv PROVE UsersAreDistinct
  <2>1. TypeOK
    BY <1>1 DEF IInv
  <2>2. PICK c \in [1..size -> Node] : Chain(c)
    BY <1>1 DEF IInv
  <2>3. Nodes = {c[i] : i \in 1..size}
    BY <2>1, <2>2, NodesAre DEF Chain
  <2>4. QED
    BY <2>2, <2>3 DEF UsersAreDistinct, Chain
<1>2. QED
  BY <1>1, Invariance, PTL

-----------------------------------------------------------------------------
(* Refinement                                                              *)

Users == [i \in 1..size |-> user[At(i - 1)]]

\* They are the users of a chain, in its order: a sequence of names that is
\* as long as size says.
UsersFollowChains ==
    \A c \in [1..size -> Node] :
        TypeOK /\ Chain(c) => /\ Users \in Seq(Name \cup {NULL})
                              /\ Len(Users) = size
                              /\ \A i \in 1..size : Users[i] = user[c[i]]

\* It is so in every state.
LEMMA UsersAre == UsersFollowChains
<1> SUFFICES ASSUME NEW c \in [1..size -> Node], TypeOK, Chain(c)
             PROVE  /\ Users \in Seq(Name \cup {NULL})
                    /\ Len(Users) = size
                    /\ \A i \in 1..size : Users[i] = user[c[i]]
  BY DEF UsersFollowChains
<1>1. size \in Nat
  BY ListAssumption DEF TypeOK
<1>2. \A i \in 1..size : At(i - 1) = c[i]
  <2>1. ASSUME NEW i \in 1..size PROVE At(i - 1) = c[i]
    <3>1. i - 1 \in 0..(size - 1) /\ i - 1 + 1 = i
      BY <1>1
    <3>2. QED
      BY <3>1, AtIs
  <2>2. QED
    BY <2>1
<1>3. \A i \in 1..size : Users[i] = user[c[i]]
  BY <1>2 DEF Users
<1>4. \A i \in 1..size : user[c[i]] \in Name \cup {NULL}
  BY DEF TypeOK
<1>5. Users = [i \in 1..size |-> Users[i]]
  BY DEF Users
<1>6. Users \in [1..size -> Name \cup {NULL}]
  BY <1>3, <1>4, <1>5
<1>7. QED
  BY <1>1, <1>3, <1>6

\* A step of the list is a step of the sequence: insert() puts a user in
\* front, remove() and pop() take one out and keep the order of the others.
THEOREM Refinement == Spec => ImplementsUserSequence
<1>1. Init => Abstract!Init
  BY DEF Init, Abstract!Init
<1>2. UsersFollowChains /\ UsersFollowChains'
  BY UsersAre, PTL
<1>3. IInv /\ [Next]_vars => [Abstract!Next]_Users
  <2> SUFFICES ASSUME IInv, [Next]_vars PROVE [Abstract!Next]_Users
    OBVIOUS
  <2>1. TypeOK /\ TypeOK'
    BY InvariantStep DEF IInv
  <2>2. PICK c \in [1..size -> Node] : Chain(c)
    BY DEF IInv
  <2>3. size \in Nat /\ Users \in Seq(Name \cup {NULL}) /\ Len(Users) = size
    BY <1>2, <2>1, <2>2, ListAssumption DEF TypeOK, UsersFollowChains
  <2>4. \A i \in 1..size : Users[i] = user[c[i]]
    BY <1>2, <2>1, <2>2 DEF UsersFollowChains
  <2>5. ASSUME NEW d \in [1..size' -> Node], Chain(d)'
        PROVE  /\ Users' \in Seq(Name \cup {NULL}) /\ Len(Users') = size'
               /\ \A i \in 1..size' : Users'[i] = user'[d[i]]
    BY <1>2, <2>1, <2>5 DEF UsersFollowChains
  <2>6. CASE UNCHANGED heap /\ TypeOK'
    BY <2>6 DEF heap, Users, At, Walk
  <2>7. ASSUME NEW n \in Name, Insert(n) PROVE Abstract!Next
    <3>1. PICK d \in [1..size' -> Node] :
             /\ Chain(d)'
             /\ user'[d[1]] = n
             /\ \A i \in 1..size : user'[d[i + 1]] = user[c[i]]
      BY <2>1, <2>2, <2>7, InsertChain
    <3>2. /\ Users' \in Seq(Name \cup {NULL}) /\ Len(Users') = size'
          /\ \A i \in 1..size' : Users'[i] = user'[d[i]]
      BY <2>5, <3>1
    <3>3. size' = size + 1 /\ size < MaxUsers
      <4>1. size' = size + 1 /\ ~(size >= MaxUsers)
        BY <2>7 DEF Insert, HasRoom
      <4>2. QED
        BY <2>3, <4>1, ListAssumption
    <3> DEFINE s == <<n>> \o Users
    <3>4. /\ s \in Seq(Name \cup {NULL})
          /\ Len(s) = 1 + size
          /\ \A i \in 1..(1 + size) : s[i] = IF i <= 1 THEN n ELSE Users[i - 1]
      <4>1. <<n>> \in Seq(Name \cup {NULL}) /\ Len(<<n>>) = 1 /\ <<n>>[1] = n
        OBVIOUS
      <4>2. QED
        BY <2>3, <4>1, ConcatProperties
    <3> HIDE DEF s
    <3>5. \A i \in 1..size' : Users'[i] = s[i]
      <4>1. ASSUME NEW i \in 1..size', i > 1 PROVE Users'[i] = s[i]
        <5>1. i - 1 \in 1..size /\ i - 1 + 1 = i
          BY <2>3, <3>3, <4>1
        <5>2. user'[d[i]] = user[c[i - 1]]
          BY <3>1, <5>1
        <5>3. QED
          BY <2>3, <2>4, <3>2, <3>3, <3>4, <4>1, <5>1, <5>2
      <4>2. Users'[1] = s[1]
        BY <2>3, <3>1, <3>2, <3>3, <3>4
      <4>3. QED
        BY <2>3, <3>3, <4>1, <4>2
    <3>6. Users' = s
      BY <2>3, <3>2, <3>3, <3>4, <3>5, SeqEqual
    <3>7. Abstract!Enter(n)
      BY <2>3, <3>3, <3>6 DEF Abstract!Enter, s, Users
    <3>8. QED
      BY <3>7 DEF Abstract!Next
  <2>8. ASSUME NEW i \in 1..size, TakenOut(c, i) PROVE Abstract!Next
    <3>1. PICK d \in [1..size' -> Node] :
             /\ Chain(d)'
             /\ \A k \in 1..(i - 1) : user'[d[k]] = user[c[k]]
             /\ \A k \in i..(size - 1) : user'[d[k]] = user[c[k + 1]]
      BY <2>1, <2>2, <2>8, TakenOutChain
    <3>2. /\ Users' \in Seq(Name \cup {NULL}) /\ Len(Users') = size'
          /\ \A k \in 1..size' : Users'[k] = user'[d[k]]
      BY <2>5, <3>1
    <3>3. size' = size - 1 /\ size' \in Nat
      BY <2>3, <2>8 DEF TakenOut
    <3> DEFINE front == SubSeq(Users, 1, i - 1)
               back  == SubSeq(Users, i + 1, size)
               s     == front \o back
    <3>4. \A k \in 1..size : Users[k] \in Name \cup {NULL}
      BY <2>3
    <3>5. /\ front \in Seq(Name \cup {NULL})
          /\ Len(front) = i - 1
          /\ \A k \in 1..(i - 1) : front[k] = Users[k]
      <4>1. 1 \in Int /\ i - 1 \in Int /\ \A k \in 1..(i - 1) : Users[k] \in Name \cup {NULL}
        BY <2>3, <3>4
      <4>2. /\ front \in Seq(Name \cup {NULL})
            /\ Len(front) = IF 1 <= i - 1 THEN i - 1 - 1 + 1 ELSE 0
            /\ \A k \in 1..(i - 1 - 1 + 1) : front[k] = Users[1 + k - 1]
        BY <4>1, SubSeqProperties
      <4> HIDE DEF front
      <4>3. QED
        BY <2>3, <4>2
    <3>6. /\ back \in Seq(Name \cup {NULL})
          /\ Len(back) = size - i
          /\ \A k \in 1..(size - i) : back[k] = Users[i + k]
      <4>1. i + 1 \in Int /\ size \in Int /\ \A k \in (i + 1)..size : Users[k] \in Name \cup {NULL}
        BY <2>3, <3>4
      <4>2. /\ back \in Seq(Name \cup {NULL})
            /\ Len(back) = IF i + 1 <= size THEN size - (i + 1) + 1 ELSE 0
            /\ \A k \in 1..(size - (i + 1) + 1) : back[k] = Users[i + 1 + k - 1]
        BY <4>1, SubSeqProperties
      <4> HIDE DEF back
      <4>3. QED
        BY <2>3, <4>2
    <3> HIDE DEF front, back
    <3>7. /\ s \in Seq(Name \cup {NULL})
          /\ Len(s) = (i - 1) + (size - i)
          /\ \A k \in 1..((i - 1) + (size - i)) :
                s[k] = IF k <= i - 1 THEN front[k] ELSE back[k - (i - 1)]
      BY <3>5, <3>6, ConcatProperties
    <3> HIDE DEF s
    <3>8. ASSUME NEW k \in 1..size' PROVE Users'[k] = s[k]
      <4>1. CASE k < i
        <5>1. k \in 1..(i - 1) /\ k \in 1..size
          BY <2>3, <3>3, <4>1
        <5>2. Users'[k] = user[c[k]] /\ s[k] = front[k]
          BY <2>3, <3>1, <3>2, <3>3, <3>7, <5>1
        <5>3. QED
          BY <2>4, <3>5, <5>1, <5>2
      <4>2. CASE ~(k < i)
        <5>1. k \in i..(size - 1) /\ k + 1 \in 1..size /\ k - (i - 1) \in 1..(size - i)
          BY <2>3, <3>3, <4>2
        <5>2. Users'[k] = user[c[k + 1]]
          BY <3>1, <3>2, <5>1
        <5>3. s[k] = back[k - (i - 1)]
          <6>1. k \in 1..((i - 1) + (size - i)) /\ ~(k <= i - 1)
            BY <2>3, <3>3, <4>2
          <6>2. QED
            BY <3>7, <6>1
        <5>4. back[k - (i - 1)] = Users[k + 1]
          <6>1. i + (k - (i - 1)) = k + 1
            BY <2>3, <3>3
          <6>2. back[k - (i - 1)] = Users[i + (k - (i - 1))]
            BY <3>6, <5>1
          <6>3. QED
            BY <6>1, <6>2
        <5>5. QED
          BY <2>4, <5>1, <5>2, <5>3, <5>4
      <4>3. QED
        BY <4>1, <4>2
    <3>9. Users' = s
      <4>1. Len(s) = size'
        BY <2>3, <3>3, <3>7
      <4>2. QED
        BY <3>2, <3>7, <3>8, <4>1, SeqEqual
    <3>10. Abstract!Leave(i)
      BY <2>3, <3>9 DEF Abstract!Leave, Abstract!RemoveAt, s, front, back, Users
    <3>11. i \in DOMAIN Users
      BY DEF Users
    <3>12. QED
      BY <3>10, <3>11 DEF Abstract!Next, Users
  <2>9. QED
    BY <2>1, <2>2, <2>6, <2>7, <2>8, StepOfHeap
<1>4. QED
  BY <1>1, <1>3, Invariance, PTL DEF Spec, ImplementsUserSequence, Abstract!Spec, Users
=============================================================================
