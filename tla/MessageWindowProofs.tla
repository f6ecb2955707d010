------------------------ MODULE MessageWindowProofs ------------------------
(***************************************************************************)
(* Proofs about MessageWindow.  The recursive functions of the model run   *)
(* over the offsets of a line or over the pieces of a message; that they   *)
(* exist, and what they are, is shown with the induction principles of     *)
(* SetInduction.                                                           *)
(***************************************************************************)
EXTENDS MessageWindow, SetInduction, SequenceTheorems

-----------------------------------------------------------------------------
(* Sequences and numbers.                                                  *)

\* Concatenation of sequences over S is associative,
Associates(S) == \A a, b, c \in Seq(S) : (a \o b) \o c = a \o (b \o c)

\* whatever S is.
LEMMA Associative == \A S : Associates(S)
<1>1. ASSUME NEW S, NEW a \in Seq(S), NEW b \in Seq(S), NEW c \in Seq(S)
      PROVE  (a \o b) \o c = a \o (b \o c)
  BY ConcatAssociative, SMTT(20)
<1>2. QED
  BY <1>1 DEF Associates

\* FlattenSeq() of a sequence that is not empty is the end of the chain of
\* its partial concatenations.
Flattening(f, ss, n) ==
    /\ DOMAIN f = 1..n
    /\ \A i \in 1..n : f[i] = IF i = 1 THEN ss[1] ELSE f[i - 1] \o ss[i]

\* Such a chain exists,
LEMMA FlatteningExists ==
    ASSUME NEW S, NEW ss \in Seq(Seq(S)), Len(ss) /= 0
    PROVE  \E f \in [1..Len(ss) -> Seq(S)] : Flattening(f, ss, Len(ss))
<1> DEFINE N == Len(ss)
           Done == {k \in 0..N : \E f \in [1..k -> Seq(S)] : Flattening(f, ss, k)}
<1>1. N \in Nat /\ \A i \in 1..N : ss[i] \in Seq(S)
  BY LenProperties, ElementOfSeq
<1>2. ASSUME NEW k \in 0..N, 0..(k - 1) \subseteq Done
      PROVE  k \in Done
  <2>1. CASE k = 0
    <3> DEFINE none == [i \in 1..0 |-> <<>>]
    <3>1. none \in [1..0 -> Seq(S)] /\ Flattening(none, ss, 0)
      BY DEF Flattening
    <3>2. QED
      BY <3>1, <2>1, <1>1
  <2>2. CASE k > 0
    <3>1. k - 1 \in Done
      <4>1. k - 1 \in 0..(k - 1)
        BY <2>2
      <4> HIDE DEF Done
      <4>2. QED
        BY <1>2, <4>1
    <3>2. PICK f \in [1..(k - 1) -> Seq(S)] : Flattening(f, ss, k - 1)
      BY <3>1
    <3> DEFINE g == [i \in 1..k |-> IF i < k THEN f[i]
                                    ELSE IF k = 1 THEN ss[1] ELSE f[k - 1] \o ss[k]]
    <3>3. g \in [1..k -> Seq(S)]
      <4>1. k > 1 => f[k - 1] \in Seq(S)
        BY <2>2
      <4>2. k > 1 => f[k - 1] \o ss[k] \in Seq(S)
        BY <4>1, <1>1, ConcatProperties
      <4>3. QED
        BY <4>2, <1>1, <2>2
    <3>4. Flattening(g, ss, k)
      <4>1. ASSUME NEW i \in 1..k
            PROVE  g[i] = IF i = 1 THEN ss[1] ELSE g[i - 1] \o ss[i]
        <5>1. CASE i < k
          <6>1. i \in 1..(k - 1) /\ (i /= 1 => i - 1 \in 1..(k - 1))
            BY <5>1
          <6>2. \A j \in 1..(k - 1) : g[j] = f[j]
            <7>1. k \in Nat
              BY <1>1
            <7>2. \A j \in 1..(k - 1) : j \in 1..k /\ j < k
              BY <7>1
            <7>3. QED
              BY <7>2
          <6>3. g[i] = f[i] /\ (i /= 1 => g[i - 1] = f[i - 1])
            BY <6>1, <6>2
          <6>4. QED
            BY <6>1, <6>3, <3>2 DEF Flattening
        <5>2. CASE i = k
          <6>1. i /= 1 => g[i - 1] = f[i - 1]
            BY <5>2
          <6>2. QED
            BY <6>1, <5>2
        <5>3. QED
          BY <5>1, <5>2
      <4>2. DOMAIN g = 1..k
        OBVIOUS
      <4> HIDE DEF g
      <4>3. QED
        BY <4>1, <4>2 DEF Flattening
    <3>5. QED
      BY <3>3, <3>4
  <2>3. QED
    BY <2>1, <2>2, <1>1
<1>3. N \in Done
  <2> HIDE DEF Done
  <2>1. 0..N \subseteq Done
    BY <1>1, <1>2, UpwardInduction
  <2>2. QED
    BY <2>1, <1>1
<1>4. QED
  BY <1>3

\* so FlattenSeq() is the end of one.
LEMMA FlattenIs ==
    ASSUME NEW S, NEW ss \in Seq(Seq(S)), Len(ss) /= 0,
           NEW f \in [1..Len(ss) -> Seq(S)], Flattening(f, ss, Len(ss))
    PROVE  FlattenSeq(ss) = f[Len(ss)]
<1> DEFINE N == Len(ss)
           Eq(h) == h = [i \in 1..N |-> IF i = 1 THEN ss[i] ELSE h[i - 1] \o ss[i]]
           F == CHOOSE h : Eq(h)
<1>1. N \in Nat \ {0}
  BY LenProperties
<1>2. Flattening(f, ss, N)
  OBVIOUS
<1>3. Eq(f)
  BY <1>2, <1>1 DEF Flattening
<1>4. Eq(F)
  BY <1>3
<1>5. FlattenSeq(ss) = F[N]
  BY <1>1 DEF FlattenSeq
<1> HIDE DEF F
<1>6. DOMAIN F = 1..N /\ \A i \in 1..N : F[i] = IF i = 1 THEN ss[i] ELSE F[i - 1] \o ss[i]
  BY <1>4
<1> DEFINE Same == {0} \cup {i \in 1..N : F[i] = f[i]}
<1>7. ASSUME NEW k \in 0..N, 0..(k - 1) \subseteq Same
      PROVE  k \in Same
  <2>1. k > 1 => F[k - 1] = f[k - 1]
    <3>1. k > 1 => k - 1 \in Same /\ k - 1 /= 0
      BY <1>7
    <3>2. QED
      BY <3>1
  <2>2. CASE k = 0
    BY <2>2
  <2>3. CASE k /= 0
    <3>1. k \in 1..N
      BY <2>3
    <3>2. F[k] = IF k = 1 THEN ss[1] ELSE F[k - 1] \o ss[k]
      BY <3>1, <1>6
    <3>3. f[k] = IF k = 1 THEN ss[1] ELSE f[k - 1] \o ss[k]
      BY <3>1, <1>2 DEF Flattening
    <3>4. F[k] = f[k]
      BY <3>1, <3>2, <3>3, <2>1
    <3>5. QED
      BY <3>1, <3>4
  <2>4. QED
    BY <2>2, <2>3
<1>8. N \in Same
  <2> HIDE DEF Same
  <2>1. 0..N \subseteq Same
    BY <1>1, <1>7, UpwardInduction
  <2>2. N \in 0..N
    BY <1>1
  <2>3. QED
    BY <2>1, <2>2
<1>9. QED
  BY <1>8, <1>5, <1>2, <1>1

\* Concatenating no sequences, one sequence more, one sequence before.
LEMMA FlattenNone ==
    ASSUME NEW ss, Len(ss) = 0
    PROVE  FlattenSeq(ss) = ss
BY DEF FlattenSeq

\* One sequence more at the end,
LEMMA FlattenAppend ==
    ASSUME NEW S, NEW ss \in Seq(Seq(S)), NEW x \in Seq(S)
    PROVE  /\ FlattenSeq(ss) \in Seq(S)
           /\ FlattenSeq(Append(ss, x)) = FlattenSeq(ss) \o x
<1> DEFINE N == Len(ss)
           t == Append(ss, x)
<1>1. N \in Nat /\ \A i \in 1..N : ss[i] \in Seq(S)
  BY LenProperties, ElementOfSeq
<1>2. /\ t \in Seq(Seq(S)) /\ Len(t) = N + 1
      /\ t[N + 1] = x /\ \A i \in 1..N : t[i] = ss[i]
  BY AppendProperties
<1> HIDE DEF t
<1>3. CASE N = 0
  <2>1. ss = <<>> /\ <<>> \in Seq(S)
    BY <1>3, EmptySeq
  <2> DEFINE g == [i \in 1..1 |-> x]
  <2>2. g \in [1..Len(t) -> Seq(S)]
    BY <1>2, <1>3
  <2>3. Flattening(g, t, Len(t))
    BY <1>2, <1>3 DEF Flattening
  <2>4. FlattenSeq(t) = g[Len(t)]
    <3> HIDE DEF g
    <3>1. Len(t) /= 0
      BY <1>2, <1>3
    <3>2. QED
      BY <2>2, <2>3, <3>1, <1>2, FlattenIs
  <2>5. FlattenSeq(t) = x
    BY <2>4, <1>2, <1>3
  <2>6. FlattenSeq(ss) = <<>>
    BY <2>1, <1>3, FlattenNone
  <2>7. <<>> \o x = x
    BY ConcatEmptySeq
  <2>8. QED
    BY <2>1, <2>5, <2>6, <2>7 DEF t
<1>4. CASE N /= 0
  <2>1. PICK f \in [1..N -> Seq(S)] : Flattening(f, ss, N)
    BY <1>4, FlatteningExists
  <2>2. FlattenSeq(ss) = f[N]
    BY <1>4, <2>1, FlattenIs
  <2>3. f[N] \in Seq(S)
    <3>1. N \in 1..N
      BY <1>1, <1>4
    <3>2. QED
      BY <3>1
  <2>4. f[N] \o x \in Seq(S)
    BY <2>3, ConcatProperties
  <2> DEFINE g == [i \in 1..(N + 1) |-> IF i <= N THEN f[i] ELSE f[N] \o x]
  <2>5. g \in [1..Len(t) -> Seq(S)]
    <3>1. \A i \in 1..(N + 1) : i <= N => i \in 1..N
      BY <1>1
    <3>2. QED
      BY <3>1, <2>4, <1>2
  <2>6. Flattening(g, t, Len(t))
    <3>1. ASSUME NEW i \in 1..(N + 1)
          PROVE  g[i] = IF i = 1 THEN t[1] ELSE g[i - 1] \o t[i]
      <4>1. \A j \in 1..N : j \in 1..(N + 1) /\ j <= N
        BY <1>1
      <4>2. \A j \in 1..N : g[j] = f[j]
        BY <4>1
      <4>3. CASE i \in 1..N
        <5>1. i /= 1 => i - 1 \in 1..N
          BY <4>3
        <5>2. 1 \in 1..N
          BY <1>1, <1>4
        <5>3. f[i] = IF i = 1 THEN ss[1] ELSE f[i - 1] \o ss[i]
          BY <4>3, <2>1 DEF Flattening
        <5>4. g[i] = f[i] /\ t[i] = ss[i] /\ t[1] = ss[1]
          BY <4>2, <4>3, <5>2, <1>2
        <5>5. i /= 1 => g[i - 1] = f[i - 1]
          BY <4>2, <5>1
        <5> HIDE DEF g
        <5>6. QED
          BY <5>3, <5>4, <5>5
      <4>4. CASE i = N + 1
        <5>1. ~(i <= N) /\ i /= 1 /\ i - 1 = N /\ N \in 1..N
          BY <4>4, <1>1, <1>4
        <5>2. g[i] = f[N] \o x
          BY <5>1
        <5>3. g[i - 1] = f[N]
          BY <5>1, <4>2
        <5> HIDE DEF g
        <5>4. QED
          BY <5>1, <5>2, <5>3, <4>4, <1>2
      <4>5. QED
        BY <4>3, <4>4, <1>1
    <3>2. DOMAIN g = 1..(N + 1)
      OBVIOUS
    <3> HIDE DEF g
    <3>3. QED
      BY <3>1, <3>2, <1>2 DEF Flattening
  <2>7. FlattenSeq(t) = g[N + 1]
    <3> HIDE DEF g
    <3>1. Len(t) /= 0
      BY <1>1, <1>2
    <3>2. QED
      BY <3>1, <2>5, <2>6, <1>2, FlattenIs
  <2>8. g[N + 1] = f[N] \o x
    BY <1>1
  <2> HIDE DEF g
  <2>9. QED
    BY <2>2, <2>3, <2>7, <2>8 DEF t
<1>5. QED
  BY <1>3, <1>4

\* and one more in front.
LEMMA FlattenCons ==
    ASSUME NEW S, NEW ss \in Seq(Seq(S)), NEW x \in Seq(S)
    PROVE  FlattenSeq(<<x>> \o ss) = x \o FlattenSeq(ss)
<1> DEFINE N == Len(ss)
           t == <<x>> \o ss
<1>1. N \in Nat /\ \A i \in 1..N : ss[i] \in Seq(S)
  BY LenProperties, ElementOfSeq
<1>2. /\ t \in Seq(Seq(S)) /\ Len(t) = N + 1
      /\ t[1] = x /\ \A i \in 2..(N + 1) : t[i] = ss[i - 1]
  <2>1. <<x>> \in Seq(Seq(S)) /\ Len(<<x>>) = 1 /\ <<x>>[1] = x
    OBVIOUS
  <2> HIDE DEF t
  <2>2. /\ t \in Seq(Seq(S)) /\ Len(t) = 1 + N
        /\ \A i \in 1..(1 + N) : t[i] = IF i <= 1 THEN <<x>>[i] ELSE ss[i - 1]
    BY <2>1, ConcatProperties DEF t
  <2>3. QED
    BY <2>1, <2>2, <1>1
<1> HIDE DEF t
<1>3. Associates(S)
  BY Associative
<1>4. CASE N = 0
  <2>1. ss = <<>> /\ <<>> \in Seq(S)
    BY <1>4, EmptySeq
  <2> DEFINE g == [i \in 1..1 |-> x]
  <2>2. g \in [1..Len(t) -> Seq(S)]
    BY <1>2, <1>4
  <2>3. Flattening(g, t, Len(t))
    BY <1>2, <1>4 DEF Flattening
  <2>4. FlattenSeq(t) = g[Len(t)]
    <3> HIDE DEF g
    <3>1. Len(t) /= 0
      BY <1>2, <1>4
    <3>2. QED
      BY <2>2, <2>3, <3>1, <1>2, FlattenIs
  <2>5. FlattenSeq(t) = x
    BY <2>4, <1>2, <1>4
  <2>6. FlattenSeq(ss) = <<>>
    BY <2>1, <1>4, FlattenNone
  <2>7. x \o <<>> = x
    BY ConcatEmptySeq
  <2>8. QED
    BY <2>5, <2>6, <2>7 DEF t
<1>5. CASE N /= 0
  <2>1. PICK f \in [1..N -> Seq(S)] : Flattening(f, ss, N)
    BY <1>5, FlatteningExists
  <2>2. FlattenSeq(ss) = f[N]
    BY <1>5, <2>1, FlattenIs
  <2>3. \A i \in 1..N : x \o f[i] \in Seq(S)
    <3>1. \A i \in 1..N : f[i] \in Seq(S)
      OBVIOUS
    <3>2. QED
      BY <3>1, ConcatProperties
  <2> DEFINE g == [i \in 1..(N + 1) |-> IF i = 1 THEN x ELSE x \o f[i - 1]]
  <2>4. \A i \in 2..(N + 1) : i - 1 \in 1..N /\ i /= 1 /\ i \in 1..(N + 1)
    BY <1>1
  <2>5. /\ g[1] = x
        /\ \A i \in 2..(N + 1) : g[i] = x \o f[i - 1]
        /\ DOMAIN g = 1..(N + 1)
    BY <2>4, <1>1
  <2>6. g \in [1..Len(t) -> Seq(S)]
    <3>1. \A i \in 1..(N + 1) : i /= 1 => i \in 2..(N + 1)
      BY <1>1
    <3>2. \A i \in 1..(N + 1) : i /= 1 => x \o f[i - 1] \in Seq(S)
      BY <3>1, <2>4, <2>3
    <3>3. QED
      BY <3>2, <1>2
  <2> HIDE DEF g
  <2>7. Flattening(g, t, Len(t))
    <3>1. ASSUME NEW i \in 1..(N + 1)
          PROVE  g[i] = IF i = 1 THEN t[1] ELSE g[i - 1] \o t[i]
      <4>1. CASE i = 1
        BY <4>1, <2>5, <1>2
      <4>2. CASE i = 2
        <5>1. 2 \in 2..(N + 1) /\ 2 - 1 = 1 /\ 1 \in 1..N
          BY <1>1, <1>5
        <5>2. g[2] = x \o f[1] /\ f[1] = ss[1] /\ t[2] = ss[1]
          BY <5>1, <2>5, <2>1, <1>2 DEF Flattening
        <5>3. i - 1 = 1 /\ i /= 1 /\ g[i] = x \o f[1]
          BY <5>2, <4>2
        <5>4. QED
          BY <5>2, <5>3, <4>2, <2>5
      <4>3. CASE i > 2
        <5>1. /\ i \in 2..(N + 1) /\ i - 1 \in 2..(N + 1)
              /\ i - 1 \in 1..N /\ i - 2 \in 1..N /\ i - 1 /= 1
              /\ (i - 1) - 1 = i - 2
          BY <4>3, <1>1
        <5>2. g[i] = x \o f[i - 1] /\ g[i - 1] = x \o f[i - 2] /\ t[i] = ss[i - 1]
          BY <5>1, <2>5, <1>2
        <5>3. f[i - 1] = f[i - 2] \o ss[i - 1]
          BY <5>1, <2>1 DEF Flattening
        <5>4. f[i - 2] \in Seq(S) /\ ss[i - 1] \in Seq(S)
          BY <5>1, <1>1
        <5>5. (x \o f[i - 2]) \o ss[i - 1] = x \o (f[i - 2] \o ss[i - 1])
          BY <5>4, <1>3 DEF Associates
        <5>6. i /= 1
          BY <4>3
        <5>7. QED
          BY <5>2, <5>3, <5>5, <5>6
      <4>4. QED
        BY <4>1, <4>2, <4>3, <1>1
    <3>2. QED
      BY <3>1, <2>5, <1>2 DEF Flattening
  <2>8. FlattenSeq(t) = g[N + 1]
    <3>1. Len(t) /= 0
      BY <1>1, <1>2
    <3>2. QED
      BY <3>1, <2>6, <2>7, <1>2, FlattenIs
  <2>9. g[N + 1] = x \o f[N]
    <3>1. N + 1 \in 2..(N + 1) /\ (N + 1) - 1 = N
      BY <1>1, <1>5
    <3>2. QED
      BY <3>1, <2>5
  <2>10. QED
    BY <2>2, <2>8, <2>9 DEF t
<1>6. QED
  BY <1>4, <1>5

\* What is made of sequences that are not empty has as many elements.
LEMMA FlattenLong ==
    ASSUME NEW S, NEW ss \in Seq(Seq(S)), \A i \in 1..Len(ss) : ss[i] /= <<>>
    PROVE  Len(ss) <= Len(FlattenSeq(ss))
<1> DEFINE N == Len(ss)
<1>1. N \in Nat /\ \A i \in 1..N : ss[i] \in Seq(S) /\ Len(ss[i]) \in Nat \ {0}
  BY LenProperties, ElementOfSeq, EmptySeq
<1>2. CASE N = 0
  BY <1>2, FlattenNone
<1>3. CASE N /= 0
  <2>1. PICK f \in [1..N -> Seq(S)] : Flattening(f, ss, N)
    BY <1>3, FlatteningExists
  <2>2. FlattenSeq(ss) = f[N]
    BY <1>3, <2>1, FlattenIs
  <2>3. \A i \in 1..N : /\ i = 1 => f[i] = ss[1]
                        /\ i /= 1 => f[i] = f[i - 1] \o ss[i]
    BY <2>1 DEF Flattening
  <2> DEFINE Enough == {0} \cup {i \in 1..N : i <= Len(f[i])}
  <2>4. ASSUME NEW k \in 0..N, 0..(k - 1) \subseteq Enough
        PROVE  k \in Enough
    <3>1. CASE k = 0
      BY <3>1
    <3>2. CASE k = 1
      <4> HIDE DEF N
      <4>1. 1 \in 1..N /\ f[1] = ss[1]
        <5>1. 1 \in 1..N
          BY <1>1, <1>3
        <5>2. QED
          BY <5>1, <2>3, Zenon
      <4>2. 1 <= Len(f[1])
        BY <4>1, <1>1
      <4>3. QED
        BY <4>1, <4>2, <3>2
    <3>3. CASE k > 1
      <4>1. k \in 1..N /\ k - 1 \in 1..N /\ k - 1 \in 0..(k - 1) /\ k - 1 /= 0
        BY <3>3, <1>1
      <4>2. k - 1 <= Len(f[k - 1])
        BY <4>1, <2>4
      <4>3. f[k] = f[k - 1] \o ss[k]
        <5>1. k \in 1..N /\ k /= 1
          BY <4>1, <3>3
        <5> HIDE DEF N
        <5>2. QED
          BY <5>1, <2>3, Zenon
      <4>4. f[k - 1] \in Seq(S) /\ ss[k] \in Seq(S) /\ Len(ss[k]) \in Nat \ {0}
        BY <4>1, <1>1
      <4>5. Len(f[k]) = Len(f[k - 1]) + Len(ss[k]) /\ Len(f[k - 1]) \in Nat
        BY <4>3, <4>4, ConcatProperties, LenProperties
      <4> HIDE DEF N
      <4>6. k \in Nat
        BY <1>1
      <4>7. \A c, d \in Nat : c >= k - 1 /\ d /= 0 => k <= c + d
        BY <4>6
      <4>8. k <= Len(f[k])
        BY <4>2, <4>4, <4>5, <4>7
      <4>9. QED
        BY <4>1, <4>8
    <3>4. QED
      BY <3>1, <3>2, <3>3, <1>1
  <2>5. N \in Enough
    <3> HIDE DEF Enough
    <3>1. 0..N \subseteq Enough
      BY <1>1, <2>4, UpwardInduction
    <3>2. QED
      BY <3>1, <1>1
  <2>6. QED
    BY <2>2, <2>5, <1>3
<1>4. QED
  BY <1>2, <1>3

-----------------------------------------------------------------------------
(* addNewLine().                                                           *)

\* The next row takes the line up to the last blank among the characters
\* that have room on it.
LEMMA SentenceIs ==
    ASSUME NEW line, NEW i
    PROVE  /\ Sentence(line, i) \in 0..Columns
           /\ Sentence(line, i) /= 0 => line[i + Sentence(line, i)] = Blank
           /\ \A k \in 1..Columns : Sentence(line, i) < k => line[i + k] /= Blank
<1> DEFINE B == {k \in 1..Columns : line[i + k] = Blank} \cup {0}
<1>1. Columns \in Nat
  BY WindowAssumption
<1>2. B \subseteq 0..Columns /\ B /= {}
  BY <1>1
<1>3. Sentence(line, i) = Max(B)
  BY DEF Sentence
<1>4. Max(B) \in B /\ \A k \in B : k <= Max(B)
  <2> HIDE DEF B
  <2>1. QED
    BY <1>1, <1>2, MaxIs
<1>5. Max(B) \in 0..Columns
  BY <1>2, <1>4
<1>6. Max(B) /= 0 => line[i + Max(B)] = Blank
  BY <1>4
<1>7. ASSUME NEW k \in 1..Columns, Max(B) < k, line[i + k] = Blank
      PROVE  FALSE
  <2>1. k \in B
    BY <1>7
  <2>2. k <= Max(B)
    BY <2>1, <1>4
  <2> HIDE DEF B
  <2>3. QED
    BY <2>2, <1>5, <1>7, <1>1
<1> HIDE DEF B
<1>8. QED
  BY <1>3, <1>5, <1>6, <1>7

\* From offset i on there is a word as long as a row.
LongFrom(line, i) ==
    \E j \in i..(Len(line) - Columns) : \A k \in 1..Columns : line[j + k] /= Blank

\* A row that is taken off the line holds no part of such a word.
LEMMA LongFromStep ==
    ASSUME NEW line, Len(line) \in Nat, NEW i \in 0..Len(line)
    PROVE  LongFrom(line, i) <=>
               /\ ~FitsOnRow(Len(line) - i)
               /\ Sentence(line, i) = 0 \/ LongFrom(line, i + Sentence(line, i))
<1> DEFINE n == Sentence(line, i)
           N == Len(line)
<1>1. Columns \in Nat \ {0} /\ N \in Nat /\ i \in Nat
  BY WindowAssumption
<1>2. /\ n \in 0..Columns
      /\ n /= 0 => line[i + n] = Blank
      /\ \A k \in 1..Columns : n < k => line[i + k] /= Blank
  BY SentenceIs
<1> HIDE DEF n, N
<1>3. ASSUME LongFrom(line, i)
      PROVE  ~FitsOnRow(N - i) /\ (n = 0 \/ LongFrom(line, i + n))
  <2>1. PICK j \in i..(N - Columns) : \A k \in 1..Columns : line[j + k] /= Blank
    BY <1>3 DEF LongFrom, N
  <2>2. ~FitsOnRow(N - i)
    BY <2>1, <1>1 DEF FitsOnRow
  <2>3. ASSUME n /= 0
        PROVE  j \in (i + n)..(N - Columns)
    <3>1. SUFFICES ASSUME j < i + n PROVE FALSE
      BY <3>1, <1>1, <1>2
    <3>2. (i + n) - j \in 1..Columns /\ j + ((i + n) - j) = i + n
      BY <3>1, <1>1, <1>2
    <3>3. line[i + n] /= Blank
      BY <2>1, <3>2
    <3>4. QED
      BY <3>3, <1>2, <2>3
  <2>4. QED
    BY <2>1, <2>2, <2>3 DEF LongFrom, N
<1>4. ASSUME ~FitsOnRow(N - i), n = 0 \/ LongFrom(line, i + n)
      PROVE  LongFrom(line, i)
  <2>1. i \in i..(N - Columns)
    BY <1>1, <1>4 DEF FitsOnRow
  <2>2. CASE n = 0
    <3>1. \A k \in 1..Columns : n < k
      BY <1>1, <2>2
    <3>2. \A k \in 1..Columns : line[i + k] /= Blank
      BY <1>2, <3>1
    <3>3. QED
      BY <2>1, <3>2 DEF LongFrom, N
  <2>3. CASE LongFrom(line, i + n)
    <3>1. PICK j \in (i + n)..(N - Columns) : \A k \in 1..Columns : line[j + k] /= Blank
      BY <2>3 DEF LongFrom, N
    <3>2. j \in i..(N - Columns)
      BY <1>1, <1>2
    <3>3. QED
      BY <3>1, <3>2 DEF LongFrom, N
  <2>4. QED
    BY <1>4, <2>2, <2>3
<1>5. QED
  BY <1>3, <1>4 DEF n, N

\* addNewLine() calls itself without end for the lines with a word as long
\* as a row, and for no others.
LEMMA EndlessIs ==
    ASSUME NEW line, Len(line) \in Nat
    PROVE  Endless(line) \in BOOLEAN /\ (Endless(line) <=> HasLongWord(line))
<1> DEFINE N == Len(line)
           n(i) == Sentence(line, i)
           Body(h, i) == ~FitsOnRow(Len(line) - i) /\ (n(i) = 0 \/ h[i + n(i)])
           Eq(h) == h = [i \in 0..N |-> Body(h, i)]
           F == CHOOSE h : Eq(h)
           w == [i \in 0..N |-> LongFrom(line, i)]
<1>1. Columns \in Nat \ {0} /\ N \in Nat
  BY WindowAssumption
<1>2. \A i \in 0..N : n(i) \in 0..Columns
  BY SentenceIs
<1>3. \A i \in 0..N : ~FitsOnRow(N - i) => i + n(i) \in 0..N
  BY <1>1, <1>2 DEF FitsOnRow
<1> HIDE DEF n
<1>4. ASSUME NEW i \in 0..N
      PROVE  LongFrom(line, i) = Body(w, i)
  <2>1. LongFrom(line, i) <=> ~FitsOnRow(N - i) /\ (n(i) = 0 \/ LongFrom(line, i + n(i)))
    BY LongFromStep DEF n
  <2>2. CASE FitsOnRow(N - i)
    BY <2>1, <2>2 DEF LongFrom
  <2>3. CASE ~FitsOnRow(N - i)
    <3>1. w[i + n(i)] = LongFrom(line, i + n(i))
      BY <1>3, <2>3
    <3>2. Body(w, i) <=> ~FitsOnRow(N - i) /\ (n(i) = 0 \/ LongFrom(line, i + n(i)))
      BY <3>1
    <3>3. QED
      BY <2>1, <3>2 DEF LongFrom
  <2>4. QED
    BY <2>2, <2>3
<1>5. Eq(w)
  BY <1>4
<1>6. Eq(F)
  <2> HIDE DEF w, Eq
  <2>1. QED
    BY <1>5
<1>7. Endless(line) = F[0]
  BY DEF Endless, n
<1> DEFINE Same == {i \in 0..N : F[i] = w[i]}
<1>8. \A i \in 0..N : F[i] = Body(F, i) /\ w[i] = Body(w, i)
  <2> HIDE DEF F
  <2>1. QED
    BY <1>4, <1>6
<1> HIDE DEF F, w, Eq
<1>9. ASSUME NEW k \in 0..N, (k + 1)..N \subseteq Same
      PROVE  k \in Same
  <2>1. CASE FitsOnRow(N - k) \/ n(k) = 0
    BY <2>1, <1>8
  <2>2. CASE ~FitsOnRow(N - k) /\ n(k) /= 0
    <3>1. k + n(k) \in (k + 1)..N
      BY <1>1, <1>2, <1>3, <2>2
    <3>2. F[k + n(k)] = w[k + n(k)]
      BY <1>9, <3>1
    <3>3. QED
      BY <3>2, <1>8
  <2>3. QED
    BY <2>1, <2>2
<1>10. 0 \in Same
  <2> HIDE DEF Same
  <2>1. 0..N \subseteq Same
    BY <1>1, <1>9, DownwardInduction
  <2>2. QED
    BY <2>1, <1>1
<1>11. F[0] = w[0]
  BY <1>10
<1>12. w[0] = LongFrom(line, 0)
  BY <1>1 DEF w
<1>13. LongFrom(line, 0) \in BOOLEAN /\ (LongFrom(line, 0) <=> HasLongWord(line))
  BY DEF LongFrom, HasLongWord
<1>14. QED
  BY <1>7, <1>11, <1>12, <1>13

\* Without such a word every row but the last ends with a blank.
LEMMA SentenceFound ==
    ASSUME NEW line, Len(line) \in Nat, ~HasLongWord(line),
           NEW i \in 0..Len(line), ~FitsOnRow(Len(line) - i)
    PROVE  /\ Sentence(line, i) \in 1..Columns
           /\ i + Sentence(line, i) \in (i + 1)..Len(line)
           /\ Columns <= Len(line) - i
           /\ line[i + Sentence(line, i)] = Blank
<1> DEFINE n == Sentence(line, i)
           N == Len(line)
<1>1. Columns \in Nat \ {0} /\ N \in Nat /\ i \in Nat
  BY WindowAssumption
<1>2. /\ n \in 0..Columns
      /\ n /= 0 => line[i + n] = Blank
      /\ \A k \in 1..Columns : n < k => line[i + k] /= Blank
  BY SentenceIs
<1> HIDE DEF n
<1>3. Columns <= N - i
  BY <1>1 DEF FitsOnRow
<1>4. n /= 0
  <2>1. SUFFICES ASSUME n = 0 PROVE FALSE
    OBVIOUS
  <2>2. \A k \in 1..Columns : n < k
    BY <1>1, <2>1
  <2>3. \A k \in 1..Columns : line[i + k] /= Blank
    BY <1>2, <2>2
  <2>4. i \in 0..(N - Columns)
    BY <1>1, <1>3
  <2>5. QED
    BY <2>3, <2>4 DEF HasLongWord
<1>5. QED
  BY <1>1, <1>2, <1>3, <1>4 DEF n

\* The pieces of the line from offset i on, from those behind them.
Cut(line, f, i) ==
    IF FitsOnRow(Len(line) - i)
    THEN <<SubSeq(line, i + 1, Len(line))>>
    ELSE <<SubSeq(line, i + 1, i + Sentence(line, i))>> \o f[i + Sentence(line, i)]

\* The pieces of what is left of a line are sequences of characters.
LEMMA CutType ==
    ASSUME NEW line \in Seq(Char), ~HasLongWord(line), NEW i \in 0..Len(line), NEW f,
           ~FitsOnRow(Len(line) - i) => f[i + Sentence(line, i)] \in Seq(Seq(Char))
    PROVE  Cut(line, f, i) \in Seq(Seq(Char))
<1>1. Len(line) \in Nat /\ \A k \in 1..Len(line) : line[k] \in Char
  BY LenProperties, ElementOfSeq
<1>2. CASE FitsOnRow(Len(line) - i)
  <2>1. SubSeq(line, i + 1, Len(line)) \in Seq(Char)
    <3>1. \A k \in (i + 1)..Len(line) : line[k] \in Char
      BY <1>1
    <3>2. i + 1 \in Int /\ Len(line) \in Int
      BY <1>1
    <3>3. QED
      BY <3>1, <3>2, SubSeqProperties
  <2>2. QED
    BY <1>2, <2>1 DEF Cut
<1>3. CASE ~FitsOnRow(Len(line) - i)
  <2> DEFINE n == Sentence(line, i)
  <2>1. n \in 1..Columns /\ i + n \in (i + 1)..Len(line)
    BY <1>1, <1>3, SentenceFound
  <2> HIDE DEF n
  <2>2. SubSeq(line, i + 1, i + n) \in Seq(Char)
    <3>1. \A k \in (i + 1)..(i + n) : line[k] \in Char
      BY <1>1, <2>1
    <3>2. i + 1 \in Int /\ i + n \in Int
      BY <1>1, <2>1
    <3>3. QED
      BY <3>1, <3>2, SubSeqProperties
  <2>3. <<SubSeq(line, i + 1, i + n)>> \in Seq(Seq(Char))
    BY <2>2
  <2>4. f[i + n] \in Seq(Seq(Char))
    BY <1>3 DEF n
  <2>5. <<SubSeq(line, i + 1, i + n)>> \o f[i + n] \in Seq(Seq(Char))
    BY <2>3, <2>4, ConcatProperties
  <2>6. QED
    BY <1>3, <2>5 DEF Cut, n
<1>4. QED
  BY <1>2, <1>3

\* The recursion of addNewLine(), from the end of the line back.
LEMMA PiecesExist ==
    ASSUME NEW line \in Seq(Char), ~HasLongWord(line)
    PROVE  \E f \in [0..Len(line) -> Seq(Seq(Char))] :
               \A i \in 0..Len(line) : f[i] = Cut(line, f, i)
<1> DEFINE N == Len(line)
           PS == Seq(Seq(Char))
           Done == {a \in 0..N : \E f \in [a..N -> PS] :
                                     \A i \in a..N : f[i] = Cut(line, f, i)}
<1>1. N \in Nat
  BY LenProperties
<1>2. ASSUME NEW i \in 0..N, ~FitsOnRow(N - i)
      PROVE  i + Sentence(line, i) \in (i + 1)..N
  BY <1>1, <1>2, SentenceFound
<1>3. \A i \in 0..N : \A f, g :
         (~FitsOnRow(N - i) => f[i + Sentence(line, i)] = g[i + Sentence(line, i)])
            => Cut(line, f, i) = Cut(line, g, i)
  BY DEF Cut
<1>4. FitsOnRow(N - N)
  BY <1>1, WindowAssumption DEF FitsOnRow
<1>5. ASSUME NEW a \in 0..N, (a + 1)..N \subseteq Done
      PROVE  a \in Done
  <2>1. PICK f \in [(a + 1)..N -> PS] : \A i \in (a + 1)..N : f[i] = Cut(line, f, i)
    <3>1. CASE a = N
      <4>1. (a + 1)..N = {}
        BY <1>1, <3>1
      <4>2. [i \in (a + 1)..N |-> <<>>] \in [(a + 1)..N -> PS]
        BY <4>1
      <4>3. QED
        BY <4>1, <4>2
    <3>2. CASE a /= N
      <4>1. a + 1 \in (a + 1)..N
        BY <1>1, <3>2
      <4>2. a + 1 \in Done
        <5> HIDE DEF Done
        <5>1. QED
          BY <4>1, <1>5
      <4>3. QED
        BY <4>2
    <3>3. QED
      BY <3>1, <3>2
  <2> DEFINE g == [i \in a..N |-> IF i = a THEN Cut(line, f, a) ELSE f[i]]
  <2>2. ~FitsOnRow(N - a) => f[a + Sentence(line, a)] \in PS
    BY <1>2
  <2>3. Cut(line, f, a) \in PS
    BY <2>2, CutType
  <2>4. \A i \in a..N : i /= a => i \in (a + 1)..N
    BY <1>1
  <2>5. g \in [a..N -> PS]
    BY <2>3, <2>4
  <2>6. \A i \in (a + 1)..N : i \in a..N /\ i /= a
    BY <1>1
  <2>7. \A i \in (a + 1)..N : g[i] = f[i]
    BY <2>6
  <2>8. g[a] = Cut(line, f, a)
    BY <1>1
  <2> HIDE DEF g
  <2>9. ASSUME NEW i \in a..N
        PROVE  g[i] = Cut(line, g, i)
    <3>1. i \in 0..N
      BY <1>1
    <3>2. ASSUME ~FitsOnRow(N - i)
          PROVE  f[i + Sentence(line, i)] = g[i + Sentence(line, i)]
      <4>1. i + Sentence(line, i) \in (i + 1)..N
        BY <1>2, <3>1, <3>2
      <4>2. i + Sentence(line, i) \in (a + 1)..N
        BY <4>1, <1>1
      <4>3. QED
        BY <4>2, <2>7
    <3>3. Cut(line, f, i) = Cut(line, g, i)
      BY <1>3, <3>1, <3>2
    <3>4. g[i] = Cut(line, f, i)
      BY <2>1, <2>4, <2>7, <2>8
    <3>5. QED
      BY <3>3, <3>4
  <2>10. QED
    BY <2>5, <2>9
<1>6. 0 \in Done
  <2> HIDE DEF Done
  <2>1. 0..N \subseteq Done
    BY <1>1, <1>5, DownwardInduction
  <2>2. QED
    BY <2>1, <1>1
<1>7. QED
  BY <1>6

\* A line that fits is its own wrapping.
LEMMA WrapLast ==
    ASSUME NEW p \in Seq(Char), Len(p) < Columns
    PROVE  IsWrapping(p, <<p>>)
<1>1. FlattenSeq(<<p>>) = p
  <2>1. <<>> \in Seq(Seq(Char)) /\ Len(<<>>) = 0
    BY EmptySeq
  <2>2. FlattenSeq(<<p>> \o <<>>) = p \o FlattenSeq(<<>>)
    BY <2>1, FlattenCons
  <2>3. FlattenSeq(<<>>) = <<>>
    BY <2>1, FlattenNone
  <2>4. <<p>> \in Seq(Seq(Char))
    OBVIOUS
  <2>5. <<p>> \o <<>> = <<p>> /\ p \o <<>> = p
    BY <2>4, ConcatEmptySeq
  <2>6. QED
    BY <2>2, <2>3, <2>5
<1>2. Len(<<p>>) = 1 /\ <<p>>[1] = p
  OBVIOUS
<1>3. Last(<<p>>) = p
  BY <1>2 DEF Last
<1>4. 1..(Len(<<p>>) - 1) = {}
  BY <1>2
<1>5. QED
  BY <1>1, <1>3, <1>4 DEF IsWrapping

\* What is left of a sequence without its first elements, when one more is
\* put before it.
LEMMA SubSeqOfCons ==
    ASSUME NEW S, NEW s \in Seq(S), NEW p \in S
    PROVE  /\ <<p>> \o s \in Seq(S)
           /\ Len(<<p>> \o s) = Len(s) + 1
           /\ (<<p>> \o s)[1] = p
           /\ \A j \in 1..Len(s) : (<<p>> \o s)[j + 1] = s[j]
           /\ \A j \in 1..(Len(s) + 1) :
                 SubSeq(<<p>> \o s, j + 1, Len(s) + 1) = SubSeq(s, j, Len(s))
<1> DEFINE t == <<p>> \o s
           N == Len(s)
<1>1. N \in Nat /\ \A j \in 1..N : s[j] \in S
  BY LenProperties, ElementOfSeq
<1>2. <<p>> \in Seq(S) /\ Len(<<p>>) = 1 /\ <<p>>[1] = p
  OBVIOUS
<1>3. /\ t \in Seq(S) /\ Len(t) = 1 + N
      /\ \A j \in 1..(1 + N) : t[j] = IF j <= 1 THEN <<p>>[j] ELSE s[j - 1]
  <2> HIDE DEF t
  <2>1. QED
    BY <1>2, ConcatProperties DEF t
<1> HIDE DEF t, N
<1>4. t[1] = p /\ \A j \in 2..(N + 1) : t[j] = s[j - 1]
  BY <1>1, <1>2, <1>3
<1>5. \A j \in 1..N : j + 1 \in 2..(N + 1) /\ (j + 1) - 1 = j
  BY <1>1
<1>6. \A j \in 1..N : t[j + 1] = s[j]
  BY <1>4, <1>5
<1>7. ASSUME NEW j \in 1..(N + 1)
      PROVE  SubSeq(t, j + 1, N + 1) = SubSeq(s, j, N)
  <2> DEFINE u == SubSeq(t, j + 1, N + 1)
             v == SubSeq(s, j, N)
  <2>1. j \in Int /\ j + 1 \in Int /\ N + 1 \in Int /\ N \in Int
    BY <1>1
  <2>2. \A i \in (j + 1)..(N + 1) : t[i] \in S
    <3>1. \A i \in (j + 1)..(N + 1) : i \in 2..(N + 1) /\ i - 1 \in 1..N
      BY <1>1
    <3>2. QED
      BY <3>1, <1>1, <1>4
  <2>3. \A i \in j..N : s[i] \in S
    BY <1>1
  <2>4. /\ u \in Seq(S)
        /\ Len(u) = IF j + 1 <= N + 1 THEN (N + 1) - (j + 1) + 1 ELSE 0
        /\ \A i \in 1..((N + 1) - (j + 1) + 1) : u[i] = t[(j + 1) + i - 1]
    BY <2>1, <2>2, SubSeqProperties
  <2>5. /\ v \in Seq(S)
        /\ Len(v) = IF j <= N THEN N - j + 1 ELSE 0
        /\ \A i \in 1..(N - j + 1) : v[i] = s[j + i - 1]
    BY <2>1, <2>3, SubSeqProperties
  <2> HIDE DEF u, v
  <2>6. Len(u) = N - j + 1 /\ Len(v) = N - j + 1 /\ (N + 1) - (j + 1) + 1 = N - j + 1
    BY <2>1, <2>4, <2>5
  <2>7. ASSUME NEW i \in 1..(N - j + 1)
        PROVE  u[i] = v[i]
    <3>1. j + i - 1 \in 1..N /\ (j + 1) + i - 1 = (j + i - 1) + 1
      BY <1>1
    <3>2. u[i] = t[(j + i - 1) + 1]
      BY <2>4, <2>6, <3>1
    <3>3. QED
      BY <2>5, <3>1, <3>2, <1>6
  <2>8. u = v
    BY <2>4, <2>5, <2>6, <2>7, SeqEqual
  <2>9. QED
    BY <2>8 DEF u, v
<1>8. QED
  BY <1>1, <1>3, <1>4, <1>6, <1>7 DEF t, N

\* One more row before a wrapping, when it takes all the words it can.
LEMMA WrapStep ==
    ASSUME NEW rest \in Seq(Char), NEW s \in Seq(Seq(Char)), s /= <<>>,
           IsWrapping(rest, s),
           NEW p \in Seq(Char), Len(p) \in 1..Columns, Last(p) = Blank,
           Columns - Len(p) <= Len(rest),
           \A k \in 1..(Columns - Len(p)) : rest[k] /= Blank
    PROVE  IsWrapping(p \o rest, <<p>> \o s)
<1> DEFINE t == <<p>> \o s
           N == Len(s)
<1>1. N \in Nat \ {0}
  BY EmptySeq
<1>2. /\ t \in Seq(Seq(Char)) /\ Len(t) = N + 1 /\ t[1] = p
      /\ \A j \in 1..N : t[j + 1] = s[j]
      /\ \A j \in 1..(N + 1) : SubSeq(t, j + 1, N + 1) = SubSeq(s, j, N)
  BY SubSeqOfCons
<1>3. FlattenSeq(t) = p \o FlattenSeq(s)
  BY FlattenCons
<1>4. FlattenSeq(s) = rest
  BY DEF IsWrapping
<1> HIDE DEF t, N
<1>5. Last(t) = Last(s)
  <2>1. N \in 1..N
    BY <1>1
  <2>2. t[N + 1] = s[N]
    BY <1>2, <2>1
  <2>3. QED
    BY <2>2, <1>2 DEF Last, N
<1>6. Len(Last(t)) < Columns
  BY <1>5 DEF IsWrapping
<1>7. ASSUME NEW i \in 1..N
      PROVE  LET left == FlattenSeq(SubSeq(t, i + 1, N + 1))
                 room == Columns - Len(t[i])
             IN  /\ Len(t[i]) \in 1..Columns
                 /\ Last(t[i]) = Blank
                 /\ Len(left) >= room
                 /\ \A k \in 1..room : left[k] /= Blank
  <2>1. CASE i = 1
    <3>1. SubSeq(t, i + 1, N + 1) = SubSeq(s, 1, N)
      BY <1>2, <2>1, <1>1
    <3>2. SubSeq(s, 1, N) = s
      BY SubSeqFull DEF N
    <3>3. FlattenSeq(SubSeq(t, i + 1, N + 1)) = rest /\ t[i] = p
      BY <3>1, <3>2, <1>4, <1>2, <2>1
    <3>4. Len(rest) \in Nat /\ Len(p) \in Nat /\ Columns \in Nat
      BY LenProperties, WindowAssumption
    <3>5. Len(rest) >= Columns - Len(p)
      BY <3>4
    <3>6. QED
      BY <3>3, <3>5
  <2>2. CASE i /= 1
    <3>1. i - 1 \in 1..(N - 1) /\ i - 1 \in 1..N /\ (i - 1) + 1 = i /\ i \in 1..(N + 1)
      BY <1>1, <2>2
    <3>2. t[i] = s[i - 1]
      BY <1>2, <3>1
    <3>3. SubSeq(t, i + 1, N + 1) = SubSeq(s, (i - 1) + 1, N)
      BY <1>2, <3>1
    <3>4. \A j \in 1..(N - 1) :
             LET left == FlattenSeq(SubSeq(s, j + 1, N))
                 room == Columns - Len(s[j])
             IN  /\ Len(s[j]) \in 1..Columns
                 /\ Last(s[j]) = Blank
                 /\ Len(left) >= room
                 /\ \A k \in 1..room : left[k] /= Blank
      BY DEF IsWrapping, N
    <3>5. QED
      BY <3>1, <3>2, <3>3, <3>4
  <2>3. QED
    BY <2>1, <2>2
<1>8. Len(t) - 1 = N
  BY <1>1, <1>2
<1>9. IsWrapping(p \o rest, t)
  BY <1>2, <1>3, <1>4, <1>6, <1>7, <1>8 DEF IsWrapping
<1>10. QED
  BY <1>9 DEF t

\* What addNewLine() inserts, for a line it comes to an end with.
LEMMA PiecesWrap ==
    ASSUME NEW line \in Seq(Char), ~HasLongWord(line)
    PROVE  /\ Pieces(line) \in Seq(Seq(Char))
           /\ Pieces(line) /= <<>>
           /\ IsWrapping(line, Pieces(line))
<1> DEFINE N == Len(line)
           n(i) == Sentence(line, i)
           PS == Seq(Seq(Char))
           Eq(f) == f = [i \in 0..N |->
                            IF FitsOnRow(Len(line) - i)
                            THEN <<SubSeq(line, i + 1, Len(line))>>
                            ELSE <<SubSeq(line, i + 1, i + n(i))>> \o f[i + n(i)]]
           F == CHOOSE f : Eq(f)
           Rest(i) == SubSeq(line, i + 1, N)
           Good == {i \in 0..N : F[i] \in PS /\ F[i] /= <<>> /\ IsWrapping(Rest(i), F[i])}
<1>1. /\ N \in Nat /\ Columns \in Nat \ {0} /\ FitsOnRow(N - N)
      /\ \A k \in 1..N : line[k] \in Char
  BY LenProperties, ElementOfSeq, WindowAssumption DEF FitsOnRow
<1>2. Eq(F)
  <2>1. PICK f \in [0..N -> PS] : \A i \in 0..N : f[i] = Cut(line, f, i)
    BY PiecesExist
  <2>2. Eq(f)
    BY <2>1 DEF Cut
  <2> HIDE DEF Eq
  <2>3. QED
    BY <2>2
<1>3. Pieces(line) = F[0]
  BY DEF Pieces
<1> HIDE DEF F
<1>4. \A i \in 0..N :
         F[i] = IF FitsOnRow(N - i) THEN <<Rest(i)>>
                ELSE <<SubSeq(line, i + 1, i + n(i))>> \o F[i + n(i)]
  BY <1>2
<1> HIDE DEF n, N, Rest, Eq
<1>5. ASSUME NEW a \in 0..N, NEW b \in a..N
      PROVE  LET p == SubSeq(line, a + 1, b)
             IN  /\ p \in Seq(Char) /\ Len(p) = b - a
                 /\ \A k \in 1..(b - a) : p[k] = line[a + k]
  <2> DEFINE p == SubSeq(line, a + 1, b)
  <2>1. a + 1 \in Int /\ b \in Int /\ a \in Nat
    BY <1>1
  <2>2. \A k \in (a + 1)..b : line[k] \in Char
    BY <1>1
  <2>3. /\ p \in Seq(Char)
        /\ Len(p) = IF a + 1 <= b THEN b - (a + 1) + 1 ELSE 0
        /\ \A k \in 1..(b - (a + 1) + 1) : p[k] = line[(a + 1) + k - 1]
    BY <2>1, <2>2, SubSeqProperties
  <2> HIDE DEF p
  <2>4. b - (a + 1) + 1 = b - a /\ \A k \in 1..(b - a) : (a + 1) + k - 1 = a + k
    BY <2>1
  <2>5. Len(p) = b - a
    BY <2>1, <2>3
  <2>6. QED
    BY <2>3, <2>4, <2>5 DEF p
<1>6. ASSUME NEW i \in 0..N
      PROVE  /\ Rest(i) \in Seq(Char) /\ Len(Rest(i)) = N - i
             /\ \A k \in 1..(N - i) : Rest(i)[k] = line[i + k]
  <2>1. N \in i..N
    BY <1>1
  <2>2. QED
    BY <1>5, <2>1 DEF Rest
<1>7. ASSUME NEW a \in 0..N, (a + 1)..N \subseteq Good
      PROVE  a \in Good
  <2>1. CASE FitsOnRow(N - a)
    <3>1. F[a] = <<Rest(a)>> /\ Rest(a) \in Seq(Char) /\ Len(Rest(a)) < Columns
      BY <2>1, <1>4, <1>6 DEF FitsOnRow
    <3>2. IsWrapping(Rest(a), F[a])
      BY <3>1, WrapLast
    <3>3. <<Rest(a)>> \in PS /\ <<Rest(a)>> /= <<>>
      BY <3>1
    <3>4. QED
      BY <3>1, <3>2, <3>3
  <2>2. CASE ~FitsOnRow(N - a)
    <3> DEFINE m == n(a)
               p == SubSeq(line, a + 1, a + m)
               rest == Rest(a + m)
    <3>1. /\ m \in 1..Columns /\ a + m \in (a + 1)..N
          /\ Columns <= N - a /\ line[a + m] = Blank
      BY <2>2, <1>1, SentenceFound DEF n, N
    <3>2. \A k \in 1..Columns : m < k => line[a + k] /= Blank
      BY SentenceIs DEF n
    <3> HIDE DEF m
    <3>3. a + m \in 0..N /\ a + m \in a..N /\ (a + m) - a = m
      BY <3>1, <1>1
    <3>4. F[a + m] \in PS /\ F[a + m] /= <<>> /\ IsWrapping(rest, F[a + m])
      <4>1. a + m \in Good
        BY <3>1, <1>7
      <4>2. QED
        BY <4>1
    <3>5. p \in Seq(Char) /\ Len(p) = m /\ \A k \in 1..m : p[k] = line[a + k]
      BY <3>3, <1>5
    <3>6. /\ rest \in Seq(Char) /\ Len(rest) = N - (a + m)
          /\ \A k \in 1..(N - (a + m)) : rest[k] = line[(a + m) + k]
      BY <3>3, <1>6
    <3>7. F[a] = <<p>> \o F[a + m]
      BY <2>2, <1>4 DEF m
    <3> HIDE DEF p, rest
    <3>8. Last(p) = Blank
      <4>1. m \in 1..m
        BY <3>1
      <4>2. QED
        BY <4>1, <3>5, <3>1 DEF Last
    <3>9. Columns - Len(p) <= Len(rest)
      BY <3>1, <3>5, <3>6, <1>1
    <3>10. ASSUME NEW k \in 1..(Columns - Len(p))
           PROVE  rest[k] /= Blank
      <4>1. k \in 1..(N - (a + m)) /\ m + k \in 1..Columns /\ m < m + k
        <5>1. k \in 1..(Columns - m)
          BY <3>5
        <5>2. QED
          BY <5>1, <3>1, <1>1
      <4>2. (a + m) + k = a + (m + k)
        BY <3>1, <1>1
      <4>3. QED
        BY <4>1, <4>2, <3>2, <3>6
    <3>11. Len(p) \in 1..Columns
      BY <3>1, <3>5
    <3>12. IsWrapping(p \o rest, <<p>> \o F[a + m])
      BY <3>4, <3>5, <3>6, <3>8, <3>9, <3>10, <3>11, WrapStep
    <3>13. p \o rest = Rest(a)
      <4>1. /\ p \o rest \in Seq(Char) /\ Len(p \o rest) = Len(p) + Len(rest)
            /\ \A k \in 1..(Len(p) + Len(rest)) :
                  (p \o rest)[k] = IF k <= Len(p) THEN p[k] ELSE rest[k - Len(p)]
        <5>1. p \in Seq(Char) /\ rest \in Seq(Char)
          BY <3>5, <3>6
        <5>2. QED
          BY <5>1, ConcatProperties
      <4>2. Len(p) + Len(rest) = N - a
        BY <3>1, <3>5, <3>6, <1>1
      <4>3. ASSUME NEW k \in 1..(N - a)
            PROVE  (p \o rest)[k] = Rest(a)[k]
        <5>1. Rest(a)[k] = line[a + k]
          BY <1>6
        <5>2. CASE k <= m
          <6>1. k \in 1..m
            BY <5>2
          <6>2. (p \o rest)[k] = p[k]
            BY <4>1, <4>2, <3>5, <5>2
          <6>3. QED
            BY <5>1, <6>1, <6>2, <3>5
        <5>3. CASE ~(k <= m)
          <6>1. k - m \in 1..(N - (a + m)) /\ (a + m) + (k - m) = a + k
            BY <5>3, <3>1, <1>1
          <6>2. (p \o rest)[k] = rest[k - m]
            BY <4>1, <4>2, <3>5, <5>3
          <6>3. QED
            BY <5>1, <6>1, <6>2, <3>6
        <5>4. QED
          BY <5>2, <5>3
      <4>4. QED
        BY <4>1, <4>2, <4>3, <1>6, SeqEqual
    <3>14. <<p>> \o F[a + m] \in PS /\ Len(<<p>> \o F[a + m]) = Len(F[a + m]) + 1
      BY <3>4, <3>5, SubSeqOfCons
    <3>15. <<p>> \o F[a + m] /= <<>>
      BY <3>4, <3>14, EmptySeq
    <3>16. QED
      BY <3>7, <3>12, <3>13, <3>14, <3>15
  <2>3. QED
    BY <2>1, <2>2
<1>8. 0 \in Good
  <2> HIDE DEF Good
  <2>1. 0..N \subseteq Good
    BY <1>1, <1>7, DownwardInduction
  <2>2. QED
    BY <2>1, <1>1
<1>9. Rest(0) = line
  BY SubSeqFull DEF Rest, N
<1>10. QED
  BY <1>3, <1>8, <1>9

-----------------------------------------------------------------------------
(* Rows.                                                                   *)

RowsOf(n) == [1..n -> Seq(Char)]

\* The row that moveMsgsUp() puts last.
LEMMA BlanksAre ==
    ASSUME NEW n \in Nat
    PROVE  /\ Blanks(n) \in Seq(Char) /\ Len(Blanks(n)) = n
           /\ \A k \in 1..n : Blanks(n)[k] = Blank
<1>1. Blank \in Char
  BY WindowAssumption
<1>2. Blanks(n) \in [1..n -> Char] /\ \A k \in 1..n : Blanks(n)[k] = Blank
  BY <1>1 DEF Blanks
<1>3. QED
  BY <1>2

\* A row that is copied looks the same in all columns but the last.
LEMMA CopiedIs ==
    ASSUME NEW row \in Seq(Char), NEW width \in Nat \ {0}
    PROVE  /\ Copied(row, width) \in Seq(Char)
           /\ Len(Copied(row, width)) = width - 1
           /\ \A k \in 1..(width - 1) : Copied(row, width)[k] = Seen(row, k)
<1>1. Len(row) \in Nat /\ \A k \in 1..Len(row) : row[k] \in Char
  BY LenProperties, ElementOfSeq
<1>2. CASE Len(row) < width
  <2> DEFINE n == width - 1 - Len(row)
             c == row \o Blanks(n)
  <2>1. n \in Nat
    BY <1>1, <1>2
  <2> HIDE DEF n
  <2>2. /\ Blanks(n) \in Seq(Char) /\ Len(Blanks(n)) = n
        /\ \A k \in 1..n : Blanks(n)[k] = Blank
    BY <2>1, BlanksAre
  <2>3. /\ c \in Seq(Char) /\ Len(c) = Len(row) + n
        /\ \A k \in 1..(Len(row) + n) :
              c[k] = IF k <= Len(row) THEN row[k] ELSE Blanks(n)[k - Len(row)]
    BY <2>2, ConcatProperties
  <2>4. Copied(row, width) = c
    BY <1>2 DEF Copied, n
  <2> HIDE DEF c
  <2>5. Len(row) + n = width - 1
    BY <1>1 DEF n
  <2>6. ASSUME NEW k \in 1..(width - 1)
        PROVE  c[k] = Seen(row, k)
    <3>1. CASE k <= Len(row)
      BY <3>1, <2>3, <2>5 DEF Seen
    <3>2. CASE ~(k <= Len(row))
      <4>1. k - Len(row) \in 1..n
        BY <3>2, <2>5, <1>1, <2>1
      <4>2. QED
        BY <4>1, <3>2, <2>2, <2>3, <2>5 DEF Seen
    <3>3. QED
      BY <3>1, <3>2
  <2>7. QED
    BY <2>3, <2>4, <2>5, <2>6
<1>3. CASE ~(Len(row) < width)
  <2> DEFINE c == SubSeq(row, 1, width - 1)
  <2>1. 1 \in Int /\ width - 1 \in Int /\ \A k \in 1..(width - 1) : k \in 1..Len(row)
    BY <1>1, <1>3
  <2>2. \A k \in 1..(width - 1) : row[k] \in Char
    BY <2>1, <1>1
  <2>3. /\ c \in Seq(Char)
        /\ Len(c) = IF 1 <= width - 1 THEN (width - 1) - 1 + 1 ELSE 0
        /\ \A k \in 1..((width - 1) - 1 + 1) : c[k] = row[1 + k - 1]
    BY <2>1, <2>2, SubSeqProperties
  <2>4. Copied(row, width) = c
    BY <1>3 DEF Copied
  <2> HIDE DEF c
  <2>5. Len(c) = width - 1 /\ (width - 1) - 1 + 1 = width - 1
    BY <2>3
  <2>6. \A k \in 1..(width - 1) : c[k] = row[k] /\ k <= Len(row)
    BY <2>1, <2>3, <2>5
  <2>7. QED
    BY <2>3, <2>4, <2>5, <2>6 DEF Seen
<1>4. QED
  BY <1>2, <1>3

\* Each row is the one below it, short of what a full row runs on with.
LEMMA MovedUpIs ==
    ASSUME NEW n \in Nat, NEW rows \in RowsOf(n), NEW width \in Nat \ {0}
    PROVE  /\ MovedUp(rows, width) \in RowsOf(n)
           /\ \A i \in 1..n : Len(MovedUp(rows, width)[i]) = width - 1
           /\ \A i \in 1..(n - 1), k \in 1..(width - 1) :
                 MovedUp(rows, width)[i][k] = Seen(rows[i + 1], k)
           /\ n > 0 => MovedUp(rows, width)[n] = Blanks(width - 1)
<1> DEFINE new == MovedUp(rows, width)
<1>1. DOMAIN rows = 1..n /\ Len(rows) = n /\ \A i \in 1..n : rows[i] \in Seq(Char)
  BY DEF RowsOf
<1>2. /\ DOMAIN new = 1..n
      /\ \A i \in 1..n : new[i] = IF i < n THEN Copied(rows[i + 1], width)
                                  ELSE Blanks(width - 1)
      /\ new = [i \in 1..n |-> new[i]]
  BY <1>1 DEF MovedUp
<1> HIDE DEF new
<1>3. /\ Blanks(width - 1) \in Seq(Char) /\ Len(Blanks(width - 1)) = width - 1
  BY BlanksAre
<1>4. ASSUME NEW i \in 1..(n - 1)
      PROVE  /\ i \in 1..n /\ new[i] \in Seq(Char) /\ Len(new[i]) = width - 1
             /\ \A k \in 1..(width - 1) : new[i][k] = Seen(rows[i + 1], k)
  <2>1. i \in 1..n /\ i + 1 \in 1..n /\ i < n
    OBVIOUS
  <2> DEFINE row == rows[i + 1]
  <2>2. new[i] = Copied(row, width) /\ row \in Seq(Char)
    BY <2>1, <1>1, <1>2
  <2> HIDE DEF row
  <2>3. /\ Copied(row, width) \in Seq(Char) /\ Len(Copied(row, width)) = width - 1
        /\ \A k \in 1..(width - 1) : Copied(row, width)[k] = Seen(row, k)
    BY <2>2, CopiedIs
  <2>4. QED
    BY <2>1, <2>2, <2>3 DEF row
<1>5. ASSUME n > 0
      PROVE  n \in 1..n /\ new[n] = Blanks(width - 1)
  BY <1>2, <1>5
<1>6. \A i \in 1..n : i \in 1..(n - 1) \/ (i = n /\ n > 0)
  OBVIOUS
<1>7. \A i \in 1..n : new[i] \in Seq(Char) /\ Len(new[i]) = width - 1
  BY <1>3, <1>4, <1>5, <1>6
<1>8. QED
  BY <1>2, <1>4, <1>5, <1>7 DEF new, RowsOf

\* What is written over the beginning of a row, and what is left behind it.
LEMMA OverwrittenIs ==
    ASSUME NEW row \in Seq(Char), NEW s \in Seq(Char), NEW n \in Nat,
           NEW m \in Nat, m = IF Len(s) < n THEN Len(s) ELSE n
    PROVE  /\ Overwritten(row, s, n) \in Seq(Char)
           /\ Len(Overwritten(row, s, n)) = IF m < Len(row) THEN Len(row) ELSE m
           /\ \A k \in 1..m : Overwritten(row, s, n)[k] = s[k]
           /\ \A k \in (m + 1)..Len(row) : Overwritten(row, s, n)[k] = row[k]
<1> DEFINE new == SubSeq(s, 1, m)
           L == Len(row)
           old == SubSeq(row, m + 1, L)
           o == new \o old
<1>1. /\ L \in Nat /\ \A k \in 1..L : row[k] \in Char
      /\ Len(s) \in Nat /\ \A k \in 1..Len(s) : s[k] \in Char
  BY LenProperties, ElementOfSeq
<1> HIDE DEF L
<1>2. m <= Len(s) /\ m <= n
  BY <1>1
<1>3. new \in Seq(Char) /\ Len(new) = m /\ \A k \in 1..m : new[k] = s[k]
  <2>1. \A k \in 1..m : s[k] \in Char
    BY <1>1, <1>2
  <2>2. 1 \in Int /\ m \in Int
    OBVIOUS
  <2>3. /\ new \in Seq(Char)
        /\ Len(new) = IF 1 <= m THEN m - 1 + 1 ELSE 0
        /\ \A k \in 1..(m - 1 + 1) : new[k] = s[1 + k - 1]
    BY <2>1, <2>2, SubSeqProperties
  <2> HIDE DEF new
  <2>4. m - 1 + 1 = m /\ \A k \in 1..m : 1 + k - 1 = k
    OBVIOUS
  <2>5. QED
    BY <2>3, <2>4
<1>4. /\ old \in Seq(Char) /\ Len(old) = IF m < L THEN L - m ELSE 0
      /\ \A k \in 1..(L - m) : old[k] = row[m + k]
  <2>1. \A k \in (m + 1)..L : row[k] \in Char
    BY <1>1
  <2>2. m + 1 \in Int /\ L \in Int
    BY <1>1
  <2>3. /\ old \in Seq(Char)
        /\ Len(old) = IF m + 1 <= L THEN L - (m + 1) + 1 ELSE 0
        /\ \A k \in 1..(L - (m + 1) + 1) : old[k] = row[(m + 1) + k - 1]
    <3>1. ASSUME NEW a \in Int, NEW b \in Int, \A k \in a..b : row[k] \in Char
          PROVE  /\ SubSeq(row, a, b) \in Seq(Char)
                 /\ Len(SubSeq(row, a, b)) = IF a <= b THEN b - a + 1 ELSE 0
                 /\ \A k \in 1..(b - a + 1) : SubSeq(row, a, b)[k] = row[a + k - 1]
      BY <3>1, SubSeqProperties
    <3>2. QED
      BY <2>1, <2>2, <3>1
  <2> HIDE DEF old
  <2>4. L - (m + 1) + 1 = L - m /\ \A k \in 1..(L - m) : (m + 1) + k - 1 = m + k
    BY <1>1
  <2>5. QED
    BY <2>3, <2>4, <1>1
<1>5. Overwritten(row, s, n) = o
  <2>1. SubSeq(s, 1, IF Len(s) < n THEN Len(s) ELSE n) = new
    OBVIOUS
  <2> HIDE DEF new
  <2>2. QED
    BY <2>1, <1>3 DEF Overwritten, L
<1> HIDE DEF new, old
<1>6. /\ o \in Seq(Char) /\ Len(o) = Len(new) + Len(old)
      /\ \A k \in 1..(Len(new) + Len(old)) :
            o[k] = IF k <= Len(new) THEN new[k] ELSE old[k - Len(new)]
  <2>1. new \in Seq(Char) /\ old \in Seq(Char)
    BY <1>3, <1>4
  <2>2. QED
    BY <2>1, ConcatProperties
<1> HIDE DEF o
<1>7. Len(new) + Len(old) = IF m < L THEN L ELSE m
  <2>1. Len(new) = m /\ Len(old) = IF m < L THEN L - m ELSE 0
    BY <1>3, <1>4
  <2>2. L \in Nat
    BY <1>1
  <2>3. CASE m < L
    <3>1. m + (L - m) = L
      BY <2>2
    <3>2. QED
      BY <2>1, <2>3, <3>1
  <2>4. CASE ~(m < L)
    <3>1. m + 0 = m
      OBVIOUS
    <3>2. QED
      BY <2>1, <2>4, <3>1
  <2>5. QED
    BY <2>3, <2>4
<1>8. ASSUME NEW k \in 1..m
      PROVE  o[k] = s[k]
  <2>1. k \in 1..(Len(new) + Len(old)) /\ k <= Len(new)
    BY <1>1, <1>3, <1>7
  <2>2. QED
    BY <2>1, <1>3, <1>6
<1>9. ASSUME NEW k \in (m + 1)..L
      PROVE  o[k] = row[k]
  <2>1. k \in 1..(Len(new) + Len(old)) /\ ~(k <= Len(new))
    BY <1>1, <1>3, <1>7
  <2>2. k - Len(new) \in 1..(L - m) /\ m + (k - Len(new)) = k
    BY <1>1, <1>3
  <2>3. QED
    BY <2>1, <2>2, <1>4, <1>6
<1>10. QED
  BY <1>5, <1>6, <1>7, <1>8, <1>9 DEF L

\* The window after one piece: every row looks as the one below it did, the
\* last one as the piece.
LEMMA InsertMsgLineIs ==
    ASSUME NEW rows \in RowsOf(Lines), NEW s \in Seq(Char), Len(s) <= Columns
    PROVE  LET new == InsertMsgLine(rows, s)
           IN  /\ new \in RowsOf(Lines)
               /\ \A i \in 1..(Lines - 1) :
                     /\ Len(new[i]) < Columns
                     /\ \A k \in 1..(Columns - 1) : Seen(new[i], k) = Seen(rows[i + 1], k)
               /\ Len(s) < Columns => Len(new[Lines]) < Columns
               /\ \A k \in 1..Columns : Seen(new[Lines], k) = Seen(s, k)
<1> DEFINE new == InsertMsgLine(rows, s)
           up == MovedUp(rows, Columns)
           last == Overwritten(up[Lines], s, Columns)
<1>1. Columns \in Nat \ {0} /\ Lines \in Nat /\ Lines > 1 /\ Lines \in 1..Lines
  BY WindowAssumption
<1>2. /\ up \in RowsOf(Lines)
      /\ \A i \in 1..Lines : Len(up[i]) = Columns - 1
      /\ \A i \in 1..(Lines - 1), k \in 1..(Columns - 1) : up[i][k] = Seen(rows[i + 1], k)
      /\ up[Lines] = Blanks(Columns - 1)
  <2> HIDE DEF up
  <2>1. /\ up \in RowsOf(Lines)
        /\ \A i \in 1..Lines : Len(up[i]) = Columns - 1
        /\ \A i \in 1..(Lines - 1), k \in 1..(Columns - 1) :
              up[i][k] = Seen(rows[i + 1], k)
        /\ Lines > 0 => up[Lines] = Blanks(Columns - 1)
    BY <1>1, MovedUpIs DEF up
  <2>2. QED
    BY <2>1, <1>1
<1>3. new = [up EXCEPT ![Lines] = last]
  BY DEF InsertMsgLine
<1> HIDE DEF new, up
<1>4. Len(s) \in Nat
  BY LenProperties
<1>5. /\ up[Lines] \in Seq(Char) /\ Len(up[Lines]) = Columns - 1
      /\ \A k \in 1..(Columns - 1) : up[Lines][k] = Blank
  <2>1. Columns - 1 \in Nat
    BY <1>1
  <2>2. QED
    BY <1>2, <2>1, BlanksAre
<1>6. /\ last \in Seq(Char)
      /\ Len(last) = IF Len(s) < Columns - 1 THEN Columns - 1 ELSE Len(s)
      /\ \A k \in 1..Len(s) : last[k] = s[k]
      /\ \A k \in (Len(s) + 1)..(Columns - 1) : last[k] = Blank
  <2>1. Len(s) = IF Len(s) < Columns THEN Len(s) ELSE Columns
    BY <1>1, <1>4
  <2>2. /\ last \in Seq(Char)
        /\ Len(last) = IF Len(s) < Len(up[Lines]) THEN Len(up[Lines]) ELSE Len(s)
        /\ \A k \in 1..Len(s) : last[k] = s[k]
        /\ \A k \in (Len(s) + 1)..Len(up[Lines]) : last[k] = up[Lines][k]
    <3> DEFINE row == up[Lines]
    <3>1. row \in Seq(Char)
      BY <1>5
    <3> HIDE DEF row
    <3>2. Columns \in Nat
      BY <1>1
    <3>3. /\ Overwritten(row, s, Columns) \in Seq(Char)
          /\ Len(Overwritten(row, s, Columns))
                = IF Len(s) < Len(row) THEN Len(row) ELSE Len(s)
          /\ \A k \in 1..Len(s) : Overwritten(row, s, Columns)[k] = s[k]
          /\ \A k \in (Len(s) + 1)..Len(row) : Overwritten(row, s, Columns)[k] = row[k]
      BY <2>1, <1>4, <3>1, <3>2, OverwrittenIs
    <3>4. QED
      BY <3>3 DEF row
  <2> HIDE DEF last
  <2>3. \A k \in (Len(s) + 1)..(Columns - 1) : k \in 1..(Columns - 1)
    BY <1>4
  <2>4. QED
    BY <2>2, <2>3, <1>5
<1> HIDE DEF last
<1>7. new[Lines] = last /\ \A i \in 1..(Lines - 1) : new[i] = up[i]
  BY <1>1, <1>2, <1>3 DEF RowsOf
<1>8. new \in RowsOf(Lines)
  BY <1>2, <1>3, <1>6 DEF RowsOf
<1>9. ASSUME NEW i \in 1..(Lines - 1)
      PROVE  /\ Len(new[i]) < Columns
             /\ \A k \in 1..(Columns - 1) : Seen(new[i], k) = Seen(rows[i + 1], k)
  <2>1. new[i] = up[i] /\ i \in 1..Lines
    BY <1>1, <1>7
  <2>2. Len(new[i]) = Columns - 1
    BY <2>1, <1>2
  <2>3. \A k \in 1..(Columns - 1) : Seen(new[i], k) = up[i][k]
    BY <2>1, <2>2 DEF Seen
  <2>4. QED
    BY <2>2, <2>3, <1>1, <1>2
<1>10. Len(s) < Columns => Len(last) < Columns
  BY <1>1, <1>4, <1>6
<1>11. ASSUME NEW k \in 1..Columns
       PROVE  Seen(last, k) = Seen(s, k)
  <2>1. CASE k <= Len(s)
    <3>1. k \in 1..Len(s) /\ k <= Len(last)
      BY <2>1, <1>1, <1>4, <1>6
    <3>2. QED
      BY <3>1, <2>1, <1>6 DEF Seen
  <2>2. CASE ~(k <= Len(s))
    <3>1. Seen(s, k) = Blank
      BY <2>2 DEF Seen
    <3>2. CASE k <= Len(last)
      <4>1. k \in (Len(s) + 1)..(Columns - 1)
        BY <2>2, <3>2, <1>1, <1>4, <1>6
      <4>2. QED
        BY <4>1, <3>1, <3>2, <1>6 DEF Seen
    <3>3. CASE ~(k <= Len(last))
      BY <3>1, <3>3 DEF Seen
    <3>4. QED
      BY <3>2, <3>3
  <2>3. QED
    BY <2>1, <2>2
<1>12. QED
  BY <1>7, <1>8, <1>9, <1>10, <1>11 DEF new

\* The rows as they come out of addNewLine(): not too long, and a row without
\* '\0' ends with a blank.
Row == {p \in Seq(Char) : Len(p) <= Columns /\ (Len(p) = Columns => p[Columns] = Blank)}

\* The pieces of a line that can be cut are such rows.
LEMMA PiecesAreRows ==
    ASSUME NEW line \in Seq(Char), ~HasLongWord(line)
    PROVE  Pieces(line) \in Seq(Row)
<1> DEFINE ps == Pieces(line)
           N == Len(ps)
<1>1. ps \in Seq(Seq(Char)) /\ ps /= <<>> /\ IsWrapping(line, ps)
  BY PiecesWrap
<1> HIDE DEF ps
<1>2. N \in Nat \ {0} /\ ps \in [1..N -> Seq(Char)] /\ Columns \in Nat
  BY <1>1, EmptySeq, LenProperties, WindowAssumption
<1> HIDE DEF N
<1>3. ASSUME NEW i \in 1..N
      PROVE  ps[i] \in Row
  <2>1. ps[i] \in Seq(Char) /\ Len(ps[i]) \in Nat
    <3>1. ps[i] \in Seq(Char)
      BY <1>2
    <3>2. QED
      BY <3>1, LenProperties
  <2>2. CASE i = N
    <3>1. Len(ps[i]) < Columns
      BY <1>1, <2>2 DEF IsWrapping, Last, N
    <3>2. QED
      BY <2>1, <3>1, <1>2 DEF Row
  <2>3. CASE i /= N
    <3>1. i \in 1..(N - 1)
      BY <1>2, <2>3
    <3>2. Len(ps[i]) \in 1..Columns /\ Last(ps[i]) = Blank
      BY <1>1, <3>1 DEF IsWrapping, N
    <3>3. QED
      BY <2>1, <3>2, <1>2 DEF Row, Last
  <2>4. QED
    BY <2>2, <2>3
<1>4. ps \in [1..N -> Row]
  BY <1>2, <1>3
<1>5. QED
  BY <1>2, <1>4 DEF ps

\* addNewLine() makes one window out of another, piece by piece.
LEMMA InsertedIs ==
    ASSUME NEW rows \in RowsOf(Lines), NEW ps \in Seq(Row)
    PROVE  \E f \in [0..Len(ps) -> RowsOf(Lines)] :
               /\ f[0] = rows
               /\ \A k \in 1..Len(ps) : f[k] = InsertMsgLine(f[k - 1], ps[k])
               /\ Inserted(rows, ps) = f[Len(ps)]
<1> DEFINE N == Len(ps)
           R == RowsOf(Lines)
           Eq(h) == h = [k \in 0..N |-> IF k = 0 THEN rows
                                        ELSE InsertMsgLine(h[k - 1], ps[k])]
           F == CHOOSE h : Eq(h)
           Done == {k \in 0..N : \E f \in [0..k -> R] :
                       /\ f[0] = rows
                       /\ \A j \in 1..k : f[j] = InsertMsgLine(f[j - 1], ps[j])}
<1>1. N \in Nat /\ \A i \in 1..N : ps[i] \in Row
  BY LenProperties, ElementOfSeq
<1>2. \A h \in R, i \in 1..N : InsertMsgLine(h, ps[i]) \in R
  <2>1. \A p \in Row : p \in Seq(Char) /\ Len(p) <= Columns
    BY DEF Row
  <2>2. \A h \in R, p \in Row : InsertMsgLine(h, p) \in R
    BY <2>1, InsertMsgLineIs
  <2>3. QED
    BY <1>1, <2>2
<1> HIDE DEF N, R
<1>3. rows \in R
  BY DEF R
<1>4. ASSUME NEW k \in 0..N, 0..(k - 1) \subseteq Done
      PROVE  k \in Done
  <2>1. CASE k = 0
    <3> DEFINE f == [j \in 0..0 |-> rows]
    <3>1. f \in [0..0 -> R] /\ f[0] = rows
      BY <1>3
    <3> HIDE DEF f
    <3>2. \A j \in 1..0 : f[j] = InsertMsgLine(f[j - 1], ps[j])
      OBVIOUS
    <3>3. QED
      BY <2>1, <3>1, <3>2, <1>1
  <2>2. CASE k /= 0
    <3>1. k - 1 \in 0..(k - 1) /\ k \in 1..N /\ k - 1 \in 0..N
      BY <1>1, <2>2
    <3>2. k - 1 \in Done
      <4> HIDE DEF Done
      <4>1. QED
        BY <3>1, <1>4
    <3>3. PICK f \in [0..(k - 1) -> R] :
             /\ f[0] = rows
             /\ \A j \in 1..(k - 1) : f[j] = InsertMsgLine(f[j - 1], ps[j])
      BY <3>2
    <3> DEFINE g == [j \in 0..k |-> IF j < k THEN f[j] ELSE InsertMsgLine(f[k - 1], ps[k])]
    <3>4. f[k - 1] \in R
      BY <3>1
    <3>5. InsertMsgLine(f[k - 1], ps[k]) \in R
      BY <3>1, <3>4, <1>2
    <3>6. \A j \in 0..k : j < k => j \in 0..(k - 1)
      BY <1>1
    <3>7. g \in [0..k -> R]
      BY <3>5, <3>6
    <3>8. \A j \in 0..(k - 1) : j \in 0..k /\ j < k
      BY <1>1
    <3>9. \A j \in 0..(k - 1) : g[j] = f[j]
      BY <3>8
    <3>10. g[k] = InsertMsgLine(f[k - 1], ps[k])
      <4>1. k \in 0..k /\ ~(k < k)
        BY <1>1
      <4>2. QED
        BY <4>1
    <3> HIDE DEF g
    <3>11. g[0] = rows
      BY <3>1, <3>3, <3>9, <2>2
    <3>12. ASSUME NEW j \in 1..k
           PROVE  g[j] = InsertMsgLine(g[j - 1], ps[j])
      <4>1. j - 1 \in 0..(k - 1)
        BY <1>1
      <4>2. g[j - 1] = f[j - 1]
        BY <4>1, <3>9
      <4>3. CASE j = k
        BY <4>2, <4>3, <3>10
      <4>4. CASE j /= k
        <5>1. j \in 1..(k - 1) /\ j \in 0..(k - 1)
          BY <4>4, <1>1
        <5>2. QED
          BY <5>1, <4>2, <3>3, <3>9
      <4>5. QED
        BY <4>3, <4>4
    <3>13. QED
      BY <3>7, <3>11, <3>12
  <2>3. QED
    BY <2>1, <2>2
<1>5. N \in Done
  <2> HIDE DEF Done
  <2>1. 0..N \subseteq Done
    BY <1>1, <1>4, UpwardInduction
  <2>2. QED
    BY <2>1, <1>1
<1>6. PICK f \in [0..N -> R] :
         f[0] = rows /\ \A j \in 1..N : f[j] = InsertMsgLine(f[j - 1], ps[j])
  BY <1>5
<1>7. Eq(f)
  <2>1. \A k \in 0..N : k /= 0 => k \in 1..N
    BY <1>1
  <2>2. \A k \in 0..N : f[k] = IF k = 0 THEN rows ELSE InsertMsgLine(f[k - 1], ps[k])
    BY <1>6, <2>1
  <2>3. QED
    BY <2>2
<1>8. Eq(F)
  <2> HIDE DEF Eq
  <2>1. QED
    BY <1>7
<1>9. Inserted(rows, ps) = F[N]
  BY DEF Inserted, N
<1> HIDE DEF F
<1>10. DOMAIN F = 0..N /\ F = [k \in 0..N |-> F[k]]
  BY <1>8
<1>11. F[0] = rows
  BY <1>8, <1>1
<1>12. \A k \in 1..N : F[k] = InsertMsgLine(F[k - 1], ps[k])
  <2>1. \A k \in 1..N : k \in 0..N /\ k /= 0
    BY <1>1
  <2>2. QED
    BY <2>1, <1>8
<1> HIDE DEF Eq
<1> DEFINE Typed == {k \in 0..N : F[k] \in R}
<1>13. ASSUME NEW k \in 0..N, 0..(k - 1) \subseteq Typed
       PROVE  k \in Typed
  <2>1. CASE k = 0
    BY <2>1, <1>11, <1>3
  <2>2. CASE k /= 0
    <3>1. k - 1 \in 0..(k - 1) /\ k \in 1..N
      BY <1>1, <2>2
    <3>2. F[k - 1] \in R
      BY <3>1, <1>13
    <3>3. QED
      BY <3>1, <3>2, <1>2, <1>12
  <2>3. QED
    BY <2>1, <2>2
<1>14. 0..N \subseteq Typed
  <2> HIDE DEF Typed
  <2>1. QED
    BY <1>1, <1>13, UpwardInduction
<1>15. F \in [0..N -> R]
  BY <1>10, <1>14
<1>16. QED
  BY <1>9, <1>11, <1>12, <1>15 DEF N, R

-----------------------------------------------------------------------------
(* What the window shows of the rows that were inserted.                   *)

\* The rows of all lines of s.
AllRows(s) == FlattenSeq([k \in DOMAIN s |-> Pieces(s[k])])

\* The one for row i of the window.
RowOf(all, i) == LET k == Len(all) + i
                 IN  IF k > Lines THEN all[k - Lines] ELSE <<>>

\* Its two cases.
LEMMA RowOfIs ==
    ASSUME NEW all, NEW i
    PROVE  /\ \A j : Len(all) + i > Lines /\ (Len(all) + i) - Lines = j
                  => RowOf(all, i) = all[j]
           /\ ~(Len(all) + i > Lines) => RowOf(all, i) = <<>>
<1>1. Len(all) + i > Lines => RowOf(all, i) = all[(Len(all) + i) - Lines]
  BY Zenon DEF RowOf
<1>2. ~(Len(all) + i > Lines) => RowOf(all, i) = <<>>
  BY Zenon DEF RowOf
<1>3. QED
  BY <1>1, <1>2, Zenon

\* Where no console line strays.
Shows(rows, all) ==
    \A i \in 1..Lines, k \in 1..Columns :
        i > ConsoleLines \/ k > ConsoleLines =>
            Seen(rows[i], k) = Seen(RowOf(all, i), k)

\* What LastRowsShown says, with these names.
LEMMA ShownIs == LastRowsShown <=> (~crashed => Shows(messages, AllRows(said)))
BY DEF LastRowsShown, Shows, RowSaid, RowOf, AllRows

\* One row more.
LEMMA ShowsNextRow ==
    ASSUME NEW rows \in RowsOf(Lines), NEW all \in Seq(Row), NEW p \in Row,
           Shows(rows, all)
    PROVE  Shows(InsertMsgLine(rows, p), Append(all, p))
<1> DEFINE new == InsertMsgLine(rows, p)
           more == Append(all, p)
           N == Len(all)
<1>1. /\ Columns \in Nat \ {0} /\ Lines \in Nat /\ Lines > 1
      /\ ConsoleLines \in 1..(Lines - 1) /\ ConsoleLines < Columns
      /\ N \in Nat /\ \A j \in 1..N : all[j] \in Row
  BY WindowAssumption, LenProperties, ElementOfSeq
<1>2. /\ \A i \in 1..(Lines - 1) :
            /\ Len(new[i]) < Columns
            /\ \A k \in 1..(Columns - 1) : Seen(new[i], k) = Seen(rows[i + 1], k)
      /\ \A k \in 1..Columns : Seen(new[Lines], k) = Seen(p, k)
  <2>1. p \in Seq(Char) /\ Len(p) <= Columns
    BY DEF Row
  <2>2. QED
    BY <2>1, InsertMsgLineIs
<1>3. Len(more) = N + 1 /\ more[N + 1] = p /\ \A j \in 1..N : more[j] = all[j]
  BY AppendProperties
<1> HIDE DEF new, more, N
<1>4. RowOf(more, Lines) = p
  <2>1. (N + 1) + Lines > Lines /\ ((N + 1) + Lines) - Lines = N + 1
    BY <1>1
  <2>2. QED
    BY <2>1, <1>3 DEF RowOf
<1>5. ASSUME NEW i \in 1..(Lines - 1)
      PROVE  /\ RowOf(more, i) = RowOf(all, i + 1)
             /\ RowOf(all, i + 1) \in Row
  <2>1. CASE N + (i + 1) > Lines
    <3>1. /\ (N + 1) + i > Lines /\ ((N + 1) + i) - Lines = (N + (i + 1)) - Lines
          /\ (N + (i + 1)) - Lines \in 1..N
      BY <2>1, <1>1
    <3>2. RowOf(more, i) = more[(N + (i + 1)) - Lines]
      <4>1. Len(more) + i > Lines /\ (Len(more) + i) - Lines = (N + (i + 1)) - Lines
        BY <3>1, <1>3
      <4>2. QED
        BY <4>1, RowOfIs, Zenon
    <3>3. RowOf(all, i + 1) = all[(N + (i + 1)) - Lines]
      <4>1. Len(all) + (i + 1) > Lines /\ (Len(all) + (i + 1)) - Lines = (N + (i + 1)) - Lines
        BY <2>1 DEF N
      <4>2. QED
        BY <4>1, RowOfIs, Zenon DEF N
    <3>4. QED
      BY <3>1, <3>2, <3>3, <1>1, <1>3
  <2>2. CASE ~(N + (i + 1) > Lines)
    <3>1. ~((N + 1) + i > Lines)
      BY <2>2, <1>1
    <3>2. RowOf(more, i) = <<>> /\ RowOf(all, i + 1) = <<>>
      BY <3>1, <2>2, <1>3 DEF RowOf, N
    <3>3. <<>> \in Row
      <4>1. <<>> \in Seq(Char) /\ Len(<<>>) = 0
        BY EmptySeq
      <4>2. Len(<<>>) <= Columns /\ Len(<<>>) /= Columns
        BY <4>1, <1>1
      <4>3. QED
        BY <4>1, <4>2 DEF Row
    <3>4. QED
      BY <3>2, <3>3
  <2>3. QED
    BY <2>1, <2>2
<1>6. ASSUME NEW i \in 1..Lines, NEW k \in 1..Columns,
             i > ConsoleLines \/ k > ConsoleLines
      PROVE  Seen(new[i], k) = Seen(RowOf(more, i), k)
  <2>1. CASE i = Lines
    BY <2>1, <1>2, <1>4
  <2>2. CASE i /= Lines /\ k /= Columns
    <3>1. i \in 1..(Lines - 1) /\ k \in 1..(Columns - 1) /\ i + 1 \in 1..Lines
      BY <2>2, <1>1
    <3>2. i + 1 > ConsoleLines \/ k > ConsoleLines
      BY <1>1, <1>6
    <3>3. Seen(rows[i + 1], k) = Seen(RowOf(all, i + 1), k)
      BY <3>1, <3>2 DEF Shows
    <3>4. QED
      BY <3>1, <3>3, <1>2, <1>5
  <2>3. CASE i /= Lines /\ k = Columns
    <3>1. i \in 1..(Lines - 1)
      BY <2>3, <1>1
    <3> DEFINE r == RowOf(all, i + 1)
    <3>2. r \in Row /\ RowOf(more, i) = r
      BY <3>1, <1>5
    <3> HIDE DEF r
    <3>3. Seen(r, k) = Blank
      BY <3>2, <2>3, <1>1, LenProperties DEF Row, Seen
    <3>4. ~(k <= Len(new[i]))
      <4>1. Len(new[i]) < Columns
        BY <3>1, <1>2
      <4>2. new[i] \in Seq(Char)
        <5>1. p \in Seq(Char) /\ Len(p) <= Columns
          BY DEF Row
        <5>2. new \in RowsOf(Lines)
          BY <5>1, InsertMsgLineIs DEF new
        <5>3. QED
          BY <5>2 DEF RowsOf
      <4>3. QED
        BY <4>1, <4>2, <2>3, <1>1, LenProperties
    <3>5. Seen(new[i], k) = Blank
      BY <3>4 DEF Seen
    <3>6. QED
      BY <3>2, <3>3, <3>5
  <2>4. QED
    BY <2>1, <2>2, <2>3
<1>7. QED
  BY <1>6 DEF Shows, new, more

\* All rows of a message.
LEMMA ShowsMessage ==
    ASSUME NEW rows \in RowsOf(Lines), NEW all \in Seq(Row), NEW ps \in Seq(Row),
           Shows(rows, all)
    PROVE  Shows(Inserted(rows, ps), all \o ps)
<1> DEFINE N == Len(ps)
<1>1. N \in Nat /\ \A i \in 1..N : ps[i] \in Row
  BY LenProperties, ElementOfSeq
<1>2. PICK f \in [0..N -> RowsOf(Lines)] :
         /\ f[0] = rows
         /\ \A k \in 1..N : f[k] = InsertMsgLine(f[k - 1], ps[k])
         /\ Inserted(rows, ps) = f[N]
  BY InsertedIs
<1> HIDE DEF N
<1> DEFINE Done == {k \in 0..N : Shows(f[k], all \o SubSeq(ps, 1, k))}
<1>3. ASSUME NEW k \in 0..N, 0..(k - 1) \subseteq Done
      PROVE  k \in Done
  <2>1. CASE k = 0
    <3>1. SubSeq(ps, 1, 0) = <<>>
      BY SubSeqEmpty
    <3>2. all \o <<>> = all
      BY ConcatEmptySeq
    <3>3. QED
      BY <2>1, <3>1, <3>2, <1>2
  <2>2. CASE k /= 0
    <3>1. k - 1 \in 0..(k - 1) /\ k \in 1..N /\ k - 1 \in 0..N /\ k \in 1..k
      BY <1>1, <2>2
    <3>2. Shows(f[k - 1], all \o SubSeq(ps, 1, k - 1))
      BY <3>1, <1>3
    <3> DEFINE h == SubSeq(ps, 1, k - 1)
    <3>3. h \in Seq(Row)
      <4>1. 1 \in Int /\ k - 1 \in Int /\ \A i \in 1..(k - 1) : ps[i] \in Row
        BY <1>1, <3>1
      <4>2. QED
        BY <4>1, SubSeqProperties
    <3>4. SubSeq(ps, 1, k) = h \o <<ps[k]>>
      <4>1. 1 \in 1..N /\ k \in 1..N
        BY <3>1, <1>1
      <4>2. QED
        BY <4>1, <1>1, SubSeqRecursiveSecond DEF N
    <3> HIDE DEF h
    <3>5. all \o h \in Seq(Row)
      BY <3>3, ConcatProperties
    <3>6. <<ps[k]>> \in Seq(Row) /\ ps[k] \in Row
      BY <1>1, <3>1
    <3>7. all \o (h \o <<ps[k]>>) = (all \o h) \o <<ps[k]>>
      <4>1. Associates(Row)
        BY Associative
      <4>2. QED
        BY <3>3, <3>6, <4>1 DEF Associates
    <3>8. (all \o h) \o <<ps[k]>> = Append(all \o h, ps[k])
      BY <3>5, <3>6, AppendIsConcat
    <3>9. f[k - 1] \in RowsOf(Lines)
      BY <3>1
    <3>10. Shows(InsertMsgLine(f[k - 1], ps[k]), Append(all \o h, ps[k]))
      BY <3>2, <3>5, <3>6, <3>9, ShowsNextRow DEF h
    <3>11. f[k] = InsertMsgLine(f[k - 1], ps[k])
      BY <3>1, <1>2
    <3>12. QED
      BY <3>4, <3>7, <3>8, <3>10, <3>11
  <2>3. QED
    BY <2>1, <2>2
<1>4. N \in Done
  <2> HIDE DEF Done
  <2>1. 0..N \subseteq Done
    BY <1>1, <1>3, UpwardInduction
  <2>2. QED
    BY <2>1, <1>1
<1>5. SubSeq(ps, 1, N) = ps
  BY SubSeqFull DEF N
<1>6. QED
  BY <1>2, <1>4, <1>5

\* Rows that have left the window are forgotten.
LEMMA ShowsLastRows ==
    ASSUME NEW rows, NEW x \in Seq(Row), NEW all \in Seq(Row), Lines <= Len(all),
           Shows(rows, x \o all)
    PROVE  Shows(rows, all)
<1>1. Lines \in Nat /\ Len(x) \in Nat /\ Len(all) \in Nat
  BY WindowAssumption, LenProperties
<1>2. /\ Len(x \o all) = Len(x) + Len(all)
      /\ \A i \in 1..(Len(x) + Len(all)) :
            (x \o all)[i] = IF i <= Len(x) THEN x[i] ELSE all[i - Len(x)]
  BY ConcatProperties
<1>3. ASSUME NEW i \in 1..Lines
      PROVE  RowOf(x \o all, i) = RowOf(all, i)
  <2> DEFINE k == (Len(all) + i) - Lines
             j == Len(x) + k
  <2>1. k \in 1..Len(all) /\ Len(all) + i > Lines
    BY <1>1
  <2>2. /\ (Len(x) + Len(all)) + i > Lines /\ ((Len(x) + Len(all)) + i) - Lines = j
        /\ j \in 1..(Len(x) + Len(all)) /\ ~(j <= Len(x)) /\ j - Len(x) = k
    BY <1>1, <2>1
  <2>3. RowOf(all, i) = all[k]
    <3>1. Len(all) + i > Lines /\ (Len(all) + i) - Lines = k
      BY <2>1
    <3> HIDE DEF k
    <3>2. QED
      BY <3>1, RowOfIs, Zenon
  <2>4. RowOf(x \o all, i) = (x \o all)[j]
    <3>1. Len(x \o all) + i > Lines /\ (Len(x \o all) + i) - Lines = j
      BY <2>2, <1>2
    <3> HIDE DEF j
    <3>2. QED
      BY <3>1, RowOfIs, Zenon
  <2> HIDE DEF k, j
  <2>5. (x \o all)[j] = all[k]
    BY <2>2, <1>2
  <2>6. QED
    BY <2>3, <2>4, <2>5
<1>4. QED
  BY <1>3 DEF Shows

\* The rows of lines that addNewLine() came to an end with.
LEMMA AllRowsAre ==
    ASSUME NEW s \in Seq(Seq(Char)), \A i \in 1..Len(s) : ~HasLongWord(s[i])
    PROVE  /\ [k \in DOMAIN s |-> Pieces(s[k])] \in Seq(Seq(Row))
           /\ AllRows(s) \in Seq(Row)
           /\ Len(s) <= Len(AllRows(s))
<1> DEFINE N == Len(s)
           ss == [k \in DOMAIN s |-> Pieces(s[k])]
<1>1. N \in Nat /\ DOMAIN s = 1..N /\ \A i \in 1..N : s[i] \in Seq(Char)
  BY LenProperties, ElementOfSeq
<1>2. \A i \in 1..N : Pieces(s[i]) \in Seq(Row) /\ Pieces(s[i]) /= <<>>
  BY <1>1, PiecesAreRows, PiecesWrap
<1>3. ss \in [1..N -> Seq(Row)] /\ \A i \in 1..N : ss[i] /= <<>>
  BY <1>1, <1>2
<1> HIDE DEF ss, N
<1>4. ss \in Seq(Seq(Row)) /\ Len(ss) = N
  BY <1>1, <1>3
<1>5. <<>> \in Seq(Row)
  BY EmptySeq
<1>6. FlattenSeq(ss) \in Seq(Row)
  BY <1>4, <1>5, FlattenAppend
<1>7. Len(ss) <= Len(FlattenSeq(ss))
  BY <1>3, <1>4, FlattenLong
<1>8. QED
  BY <1>4, <1>6, <1>7 DEF AllRows, ss, N

-----------------------------------------------------------------------------
(* The inductive invariant.                                                *)

\* The window shows what was said only as far as addNewLine() comes to an
\* end, and it does so for messages without long words: none of the parts is
\* inductive alone.
IInv == TypeOK /\ EndsUnlessLongWord /\ LastRowsShown

\* What is shown of a message is a sequence of characters.
LEMMA MessagesAre == Message \subseteq Seq(Char)
<1>1. Header \subseteq Seq(Char) /\ Text \subseteq Seq(Char)
  BY WindowAssumption
<1>2. \A h \in Header, t \in Text : h \o t \in Seq(Char)
  BY <1>1, ConcatProperties
<1>3. ASSUME NEW m \in Message
      PROVE  m \in Seq(Char)
  <2>1. \E h \in Header, t \in Text : m = h \o t
    BY DEF Message
  <2>2. QED
    BY <1>2, <2>1
<1>4. QED
  BY <1>3

\* After a message every row has its '\0' again.
LEMMA InsertedType ==
    ASSUME NEW rows \in RowsOf(Lines), NEW line \in Seq(Char), ~HasLongWord(line)
    PROVE  /\ Inserted(rows, Pieces(line)) \in RowsOf(Lines)
           /\ \A i \in 1..Lines : Len(Inserted(rows, Pieces(line))[i]) < Columns
<1> DEFINE ps == Pieces(line)
           N == Len(ps)
<1>1. /\ ps \in Seq(Row) /\ N \in Nat \ {0} /\ Len(ps[N]) < Columns
  <2>1. ps \in Seq(Row) /\ ps /= <<>> /\ IsWrapping(line, ps)
    BY PiecesAreRows, PiecesWrap
  <2>2. Len(ps[N]) < Columns
    BY <2>1 DEF IsWrapping, Last
  <2> HIDE DEF ps
  <2>3. QED
    BY <2>1, <2>2, EmptySeq
<1> HIDE DEF ps
<1>2. PICK f \in [0..N -> RowsOf(Lines)] :
         /\ \A k \in 1..N : f[k] = InsertMsgLine(f[k - 1], ps[k])
         /\ Inserted(rows, ps) = f[N]
  BY <1>1, InsertedIs
<1> HIDE DEF N
<1>3. N \in 1..N /\ N - 1 \in 0..N /\ N \in 0..N
  BY <1>1
<1>4. ps[N] \in Seq(Char) /\ Len(ps[N]) <= Columns
  <2>1. ps[N] \in Row
    BY <1>1, <1>3, ElementOfSeq DEF N
  <2>2. QED
    BY <2>1 DEF Row
<1>5. f[N - 1] \in RowsOf(Lines) /\ f[N] = InsertMsgLine(f[N - 1], ps[N])
  BY <1>2, <1>3
<1>6. /\ f[N] \in RowsOf(Lines)
      /\ \A i \in 1..(Lines - 1) : Len(f[N][i]) < Columns
      /\ Len(f[N][Lines]) < Columns
  BY <1>1, <1>4, <1>5, InsertMsgLineIs
<1>7. \A i \in 1..Lines : i \in 1..(Lines - 1) \/ i = Lines
  BY WindowAssumption
<1>8. QED
  BY <1>2, <1>6, <1>7 DEF ps

\* The messages that are remembered with a new one.
Kept(s) == IF Len(s) < Lines THEN s ELSE Tail(s)

\* Of the messages no more than the rows of the window are kept.
LEMMA KeptIs ==
    ASSUME NEW T, NEW s \in Seq(T), Len(s) <= Lines, NEW m \in T
    PROVE  /\ Kept(s) \in Seq(T) /\ Len(Kept(s)) \in 0..(Lines - 1)
           /\ \A i \in 1..Len(Kept(s)) : \E j \in 1..Len(s) : Kept(s)[i] = s[j]
           /\ LastOf(Append(s, m), Lines) = Append(Kept(s), m)
           /\ Kept(s) /= s => /\ Len(Kept(s)) = Lines - 1
                              /\ s[1] \in T /\ s = <<s[1]>> \o Kept(s)
                              /\ 1 \in 1..Len(s)
<1> DEFINE L == Len(s)
           a == Append(s, m)
<1>1. L \in Nat /\ Lines \in Nat /\ Lines > 1 /\ \A i \in 1..L : s[i] \in T
  BY LenProperties, ElementOfSeq, WindowAssumption
<1>2. a \in Seq(T) /\ Len(a) = L + 1 /\ a[L + 1] = m /\ \A i \in 1..L : a[i] = s[i]
  BY AppendProperties
<1> HIDE DEF a
<1>3. CASE L < Lines
  <2>1. Kept(s) = s
    BY <1>3 DEF Kept
  <2>2. ~(Len(a) > Lines)
    BY <1>1, <1>2, <1>3
  <2>3. LastOf(a, Lines) = a
    BY <2>2, <1>2, SubSeqFull DEF LastOf
  <2>4. L \in 0..(Lines - 1)
    BY <1>1, <1>3
  <2>5. QED
    BY <2>1, <2>3, <2>4 DEF a
<1>4. CASE ~(L < Lines)
  <2> DEFINE t == Tail(s)
             b == Append(t, m)
  <2>1. L = Lines /\ L \in 1..L /\ 1 \in 1..L /\ s /= <<>> /\ a /= <<>>
    <3>1. L = Lines /\ L > 0 /\ L + 1 > 0
      BY <1>1, <1>4
    <3>2. s /= <<>> /\ a /= <<>>
      BY <3>1, <1>2, EmptySeq
    <3>3. QED
      BY <3>1, <3>2, <1>1
  <2>2. Kept(s) = t
    BY <1>4 DEF Kept
  <2>3. t \in Seq(T) /\ Len(t) = L - 1 /\ \A i \in 1..Len(t) : t[i] = s[i + 1]
    BY <2>1, HeadTailProperties
  <2>4. Tail(a) \in Seq(T) /\ Len(Tail(a)) = L /\ \A i \in 1..L : Tail(a)[i] = a[i + 1]
    <3>1. /\ Tail(a) \in Seq(T) /\ Len(Tail(a)) = Len(a) - 1
          /\ \A i \in 1..Len(Tail(a)) : Tail(a)[i] = a[i + 1]
      BY <1>2, <2>1, HeadTailProperties
    <3>2. QED
      BY <3>1, <1>1, <1>2
  <2>5. s = <<s[1]>> \o t
    <3>1. SubSeq(s, 1, L) = <<s[1]>> \o SubSeq(s, 1 + 1, L)
      BY <2>1, SubSeqRecursiveFirst
    <3>2. SubSeq(s, 1, L) = s
      BY SubSeqFull
    <3>3. t = SubSeq(s, 2, L)
      BY <2>1, TailIsSubSeq
    <3>4. QED
      BY <3>1, <3>2, <3>3
  <2> HIDE DEF t
  <2>6. b \in Seq(T) /\ Len(b) = Len(t) + 1 /\ b[Len(t) + 1] = m
        /\ \A i \in 1..Len(t) : b[i] = t[i]
    BY <2>3, AppendProperties
  <2> HIDE DEF b
  <2>7. ASSUME NEW i \in 1..L
        PROVE  Tail(a)[i] = b[i]
    <3>1. CASE i = L
      <4>1. Tail(a)[L] = a[L + 1] /\ Len(t) + 1 = L
        BY <2>1, <2>3, <2>4, <1>1
      <4>2. QED
        BY <4>1, <3>1, <2>6, <1>2
    <3>2. CASE i /= L
      <4>1. i \in 1..Len(t) /\ i + 1 \in 1..L
        BY <3>2, <2>3, <1>1
      <4>2. Tail(a)[i] = s[i + 1]
        BY <4>1, <2>4, <1>2
      <4>3. QED
        BY <4>1, <4>2, <2>3, <2>6
    <3>3. QED
      BY <3>1, <3>2
  <2>8. Tail(a) = b
    <3>1. Len(b) = L
      BY <2>3, <2>6, <1>1
    <3>2. QED
      BY <3>1, <2>4, <2>6, <2>7, SeqEqual
  <2>9. LastOf(a, Lines) = Tail(a)
    <3>1. Len(a) > Lines /\ (Len(a) - Lines) + 1 = 2
      BY <1>1, <1>2, <2>1
    <3>2. LastOf(a, Lines) = SubSeq(a, 2, Len(a))
      BY <3>1 DEF LastOf
    <3>3. QED
      BY <3>2, <1>2, <2>1, TailIsSubSeq
  <2>10. \A i \in 1..Len(t) : i + 1 \in 1..L /\ t[i] = s[i + 1]
    BY <2>3, <1>1
  <2>11. Len(t) \in 0..(Lines - 1) /\ Len(t) = Lines - 1
    BY <2>1, <2>3, <1>1
  <2>12. s[1] \in T
    BY <2>1, <1>1
  <2>13. QED
    BY <2>1, <2>2, <2>3, <2>5, <2>8, <2>9, <2>10, <2>11, <2>12 DEF a, b
<1>5. QED
  BY <1>3, <1>4

\* The invariant is inductive: it holds at first,
LEMMA InvariantInit == Init => IInv
<1> SUFFICES ASSUME Init PROVE IInv
  OBVIOUS
<1>1. /\ Lines \in Nat /\ ConsoleLines \in Nat
      /\ Columns \in Nat \ {0} /\ ConsoleColumns \in Nat \ {0}
  BY WindowAssumption
<1>2. \A S : <<>> \in Seq(S) /\ Len(<<>>) = 0
  BY EmptySeq
<1>3. TypeOK
  <2>1. said \in Seq(Message) /\ Len(said) = 0
    BY <1>2 DEF Init
  <2>2. <<>> \in Seq(Char) /\ Len(<<>>) < Columns /\ Len(<<>>) < ConsoleColumns
    BY <1>1, <1>2
  <2>3. /\ messages \in [1..Lines -> Seq(Char)]
        /\ \A i \in 1..Lines : Len(messages[i]) < Columns
    BY <2>2 DEF Init
  <2>4. /\ console \in [1..ConsoleLines -> Seq(Char)]
        /\ \A i \in 1..ConsoleLines : Len(console[i]) < ConsoleColumns
    BY <2>2 DEF Init
  <2>5. Len(said) <= Lines /\ crashed \in BOOLEAN
    <3>1. crashed \in BOOLEAN
      BY DEF Init
    <3>2. QED
      BY <2>1, <1>1, <3>1
  <2>6. QED
    BY <2>1, <2>3, <2>4, <2>5 DEF TypeOK
<1>4. DOMAIN said = {} /\ said = <<>> /\ ~crashed
  BY DEF Init
<1>5. EndsUnlessLongWord
  BY <1>4 DEF EndsUnlessLongWord
<1>6. LastRowsShown
  <2>1. /\ \A i \in 1..Len(<<>>) : ~HasLongWord(<<>>[i])
        /\ <<>> \in Seq(Seq(Char))
    BY <1>2
  <2> DEFINE none == [k \in DOMAIN <<>> |-> Pieces(<<>>[k])]
  <2>2. none \in Seq(Seq(Row)) /\ none \in [1..0 -> Seq(Row)]
    BY <2>1, AllRowsAre
  <2>3. Len(none) = 0 /\ none = <<>>
    <3> HIDE DEF none
    <3>1. DOMAIN none = 1..0
      BY <2>2
    <3>2. Len(none) = 0
      BY <2>2, <3>1, LenProperties
    <3>3. QED
      BY <2>2, <3>2, EmptySeq
  <2>4. AllRows(said) = <<>>
    <3>1. AllRows(<<>>) = FlattenSeq(none)
      BY DEF AllRows
    <3> HIDE DEF none
    <3>2. QED
      BY <3>1, <2>3, <1>4, FlattenNone
  <2>5. ASSUME NEW i \in 1..Lines
        PROVE  RowOf(<<>>, i) = <<>> /\ messages[i] = <<>>
    <3>1. ~(Len(<<>>) + i > Lines)
      BY <1>1, <1>2
    <3>2. QED
      BY <3>1, RowOfIs DEF Init
  <2>6. Shows(messages, AllRows(said))
    BY <2>4, <2>5 DEF Shows
  <2>7. QED
    BY <2>6, ShownIs
<1>7. QED
  BY <1>3, <1>5, <1>6 DEF IInv

\* a message keeps it,
LEMMA MessageStep ==
    ASSUME IInv, NEW m \in Message, AddNewMessage(m)
    PROVE  IInv'
<1> DEFINE kept == Kept(said)
           ps == Pieces(m)
<1>1. /\ ~crashed /\ TypeOK
      /\ messages \in RowsOf(Lines)
      /\ said \in Seq(Message) /\ Len(said) \in Nat /\ Len(said) <= Lines
      /\ DOMAIN said = 1..Len(said)
      /\ \A j \in 1..Len(said) : ~HasLongWord(said[j])
  <2>1. TypeOK /\ ~crashed /\ EndsUnlessLongWord
    BY DEF IInv, AddNewMessage
  <2>2. said \in Seq(Message)
    BY <2>1 DEF TypeOK
  <2>3. Len(said) \in Nat /\ DOMAIN said = 1..Len(said)
    BY <2>2, LenProperties
  <2>4. \A j \in 1..Len(said) : ~HasLongWord(said[j])
    BY <2>1, <2>3 DEF EndsUnlessLongWord
  <2>5. QED
    BY <2>1, <2>2, <2>3, <2>4 DEF TypeOK, RowsOf
<1>2. m \in Seq(Char) /\ Len(m) \in Nat
  BY MessagesAre, LenProperties
<1>3. Endless(m) \in BOOLEAN /\ (Endless(m) <=> HasLongWord(m))
  BY <1>2, EndlessIs
<1>4. /\ kept \in Seq(Message) /\ Len(kept) \in 0..(Lines - 1)
      /\ \A i \in 1..Len(kept) : \E j \in 1..Len(said) : kept[i] = said[j]
      /\ said' = Append(kept, m)
      /\ kept /= said => /\ Len(kept) = Lines - 1
                         /\ said[1] \in Message /\ said = <<said[1]>> \o kept
                         /\ 1 \in 1..Len(said)
  BY <1>1, KeptIs DEF AddNewMessage
<1> HIDE DEF kept
<1>5. /\ said' \in Seq(Message) /\ Len(said') = Len(kept) + 1
      /\ said'[Len(kept) + 1] = m /\ \A i \in 1..Len(kept) : said'[i] = kept[i]
  BY <1>4, AppendProperties
<1>6. Lines \in Nat /\ Lines > 1 /\ Len(kept) + 1 <= Lines /\ Len(kept) \in Nat
  BY <1>4, WindowAssumption
<1>7. DOMAIN (said') = 1..(Len(kept) + 1)
  BY <1>5, LenProperties
<1>8. \A i \in 1..Len(kept) : ~HasLongWord(kept[i])
  BY <1>1, <1>4
<1>9. crashed' <=> HasLongWord(m)
  BY <1>3 DEF AddNewMessage
<1>10. EndsUnlessLongWord'
  <2>1. \A i \in 1..(Len(kept) + 1) : i \in 1..Len(kept) \/ i = Len(kept) + 1
    BY <1>6
  <2>2. Len(kept) + 1 \in 1..(Len(kept) + 1)
    BY <1>6
  <2>3. (\E i \in DOMAIN (said') : HasLongWord(said'[i])) <=> HasLongWord(m)
    BY <2>1, <2>2, <1>5, <1>7, <1>8
  <2>4. QED
    BY <2>3, <1>9 DEF EndsUnlessLongWord
<1>11. TypeOK'
  <2>1. crashed' \in BOOLEAN
    BY <1>3 DEF AddNewMessage
  <2>2. messages' \in RowsOf(Lines) /\ \A i \in 1..Lines : Len(messages'[i]) < Columns
    <3>1. CASE Endless(m)
      BY <3>1, <1>1 DEF AddNewMessage, TypeOK
    <3>2. CASE ~Endless(m)
      <4>1. messages' = Inserted(messages, ps)
        BY <3>2 DEF AddNewMessage
      <4>2. /\ Inserted(messages, ps) \in RowsOf(Lines)
            /\ \A i \in 1..Lines : Len(Inserted(messages, ps)[i]) < Columns
        BY <3>2, <1>1, <1>2, <1>3, InsertedType
      <4>3. QED
        BY <4>1, <4>2
    <3>3. QED
      BY <3>1, <3>2
  <2>3. QED
    BY <2>1, <2>2, <1>1, <1>5, <1>6 DEF TypeOK, RowsOf, AddNewMessage
<1>12. LastRowsShown'
  <2>1. SUFFICES ASSUME ~crashed' PROVE Shows(messages', AllRows(said'))
    BY DEF LastRowsShown, Shows, RowSaid, RowOf, AllRows
  <2>2. ~Endless(m) /\ ~HasLongWord(m) /\ messages' = Inserted(messages, ps)
    BY <2>1, <1>3, <1>9 DEF AddNewMessage
  <2>3. ps \in Seq(Row) /\ ps /= <<>> /\ Len(ps) \in Nat \ {0}
    <3>1. ps \in Seq(Row) /\ ps /= <<>>
      BY <2>2, <1>2, PiecesAreRows, PiecesWrap
    <3>2. QED
      BY <3>1, EmptySeq
  <2>4. kept \in Seq(Seq(Char)) /\ said \in Seq(Seq(Char))
    BY <1>1, <1>4, MessagesAre, SeqMonotonic
  <2> DEFINE rowsOf(s) == [k \in DOMAIN s |-> Pieces(s[k])]
  <2>5. /\ rowsOf(kept) \in Seq(Seq(Row)) /\ AllRows(kept) \in Seq(Row)
        /\ Len(kept) <= Len(AllRows(kept))
    BY <2>4, <1>8, AllRowsAre
  <2>6. AllRows(said) \in Seq(Row)
    BY <2>4, <1>1, AllRowsAre
  <2>7. AllRows(said') = AllRows(kept) \o ps
    <3>1. rowsOf(said') = Append(rowsOf(kept), ps)
      <4> DEFINE u == rowsOf(said')
                 v == Append(rowsOf(kept), ps)
      <4>1. DOMAIN kept = 1..Len(kept)
        BY <1>4, LenProperties
      <4>2. Len(rowsOf(kept)) = Len(kept)
        BY <4>1, <1>6
      <4>3. /\ v \in Seq(Seq(Row)) /\ Len(v) = Len(kept) + 1 /\ v[Len(kept) + 1] = ps
            /\ \A i \in 1..Len(kept) : v[i] = rowsOf(kept)[i]
        <5> HIDE DEF rowsOf
        <5>1. QED
          BY <2>3, <2>5, <4>2, AppendProperties
      <4>4. \A i \in 1..Len(kept) : rowsOf(kept)[i] = Pieces(kept[i])
        BY <4>1
      <4>5. DOMAIN u = 1..(Len(kept) + 1) /\ u = [i \in 1..(Len(kept) + 1) |-> u[i]]
        BY <1>7
      <4>6. ASSUME NEW i \in 1..(Len(kept) + 1)
            PROVE  u[i] = v[i]
        <5>1. u[i] = Pieces(said'[i])
          BY <1>7
        <5>2. CASE i = Len(kept) + 1
          BY <5>1, <5>2, <4>3, <1>5
        <5>3. CASE i /= Len(kept) + 1
          <6>1. i \in 1..Len(kept)
            BY <5>3, <1>6
          <6>2. QED
            BY <6>1, <5>1, <4>3, <4>4, <1>5
        <5>4. QED
          BY <5>2, <5>3
      <4> HIDE DEF u, v
      <4>7. v = [i \in 1..(Len(kept) + 1) |-> v[i]]
        BY <4>3, LenProperties
      <4>8. QED
        BY <4>5, <4>6, <4>7 DEF u, v
    <3>2. FlattenSeq(Append(rowsOf(kept), ps)) = FlattenSeq(rowsOf(kept)) \o ps
      <4> HIDE DEF rowsOf
      <4>1. QED
        BY <2>3, <2>5, FlattenAppend
    <3>3. QED
      BY <3>1, <3>2 DEF AllRows
  <2>8. Shows(messages, AllRows(said))
    BY <1>1, ShownIs DEF IInv
  <2>9. Shows(messages', AllRows(said) \o ps)
    BY <2>2, <2>3, <2>6, <2>8, <1>1, ShowsMessage
  <2>10. CASE kept = said
    BY <2>7, <2>9, <2>10
  <2>11. CASE kept /= said
    <3> DEFINE x == Pieces(said[1])
               all == AllRows(kept) \o ps
    <3>1. /\ said = <<said[1]>> \o kept /\ Len(kept) = Lines - 1
          /\ said[1] \in Seq(Char) /\ ~HasLongWord(said[1])
      BY <2>11, <1>1, <1>4, MessagesAre
    <3>2. x \in Seq(Row)
      BY <3>1, PiecesAreRows
    <3>3. AllRows(said) = x \o AllRows(kept)
      <4>1. rowsOf(said) = <<x>> \o rowsOf(kept)
        <5> DEFINE v == <<x>> \o rowsOf(kept)
        <5>1. DOMAIN kept = 1..Len(kept)
          BY <1>4, LenProperties
        <5>2. Len(rowsOf(kept)) = Len(kept)
          BY <5>1, <1>6
        <5>3. /\ v \in Seq(Seq(Row)) /\ Len(v) = Len(kept) + 1 /\ v[1] = x
              /\ \A j \in 1..Len(kept) : v[j + 1] = rowsOf(kept)[j]
          <6> HIDE DEF rowsOf, x
          <6>1. QED
            BY <2>5, <3>2, <5>2, SubSeqOfCons
        <5>4. \A j \in 1..Len(kept) : rowsOf(kept)[j] = Pieces(kept[j])
          BY <5>1
        <5>5. /\ Len(said) = Len(kept) + 1
              /\ \A j \in 1..Len(kept) : said[j + 1] = kept[j]
          <6>1. said[1] \in Message
            BY <2>11, <1>4
          <6>2. /\ Len(<<said[1]>> \o kept) = Len(kept) + 1
                /\ \A j \in 1..Len(kept) : (<<said[1]>> \o kept)[j + 1] = kept[j]
            BY <6>1, <1>4, SubSeqOfCons
          <6>3. QED
            BY <6>2, <3>1
        <5>6. ASSUME NEW i \in 1..(Len(kept) + 1)
              PROVE  v[i] = Pieces(said[i])
          <6>1. CASE i = 1
            BY <6>1, <5>3
          <6>2. CASE i /= 1
            <7>1. i - 1 \in 1..Len(kept) /\ (i - 1) + 1 = i
              BY <6>2, <1>6
            <7>2. v[i] = Pieces(kept[i - 1]) /\ said[i] = kept[i - 1]
              BY <7>1, <5>3, <5>4, <5>5
            <7>3. QED
              BY <7>2
          <6>3. QED
            BY <6>1, <6>2
        <5> HIDE DEF v
        <5>7. v = [i \in 1..(Len(kept) + 1) |-> v[i]]
          BY <5>3, LenProperties
        <5>8. DOMAIN said = 1..(Len(kept) + 1)
          BY <5>5, <1>1
        <5>9. QED
          BY <5>6, <5>7, <5>8 DEF v
      <4>2. FlattenSeq(<<x>> \o rowsOf(kept)) = x \o FlattenSeq(rowsOf(kept))
        <5> HIDE DEF rowsOf, x
        <5>1. QED
          BY <2>5, <3>2, FlattenCons
      <4>3. QED
        BY <4>1, <4>2 DEF AllRows
    <3> HIDE DEF x
    <3>4. AllRows(said) \o ps = x \o all
      <4>1. Associates(Row)
        BY Associative
      <4>2. AllRows(kept) \in Seq(Row) /\ ps \in Seq(Row)
        BY <2>3, <2>5
      <4>3. (x \o AllRows(kept)) \o ps = x \o (AllRows(kept) \o ps)
        BY <3>2, <4>1, <4>2 DEF Associates
      <4>4. QED
        BY <3>3, <4>3
    <3>5. all \in Seq(Row) /\ Lines <= Len(all)
      <4>1. all \in Seq(Row) /\ Len(all) = Len(AllRows(kept)) + Len(ps)
        BY <2>3, <2>5, ConcatProperties
      <4>2. Len(AllRows(kept)) \in Nat
        BY <2>5, LenProperties
      <4>3. QED
        BY <4>1, <4>2, <2>3, <2>5, <3>1, <1>6
    <3>6. Shows(messages', all)
      BY <2>9, <3>2, <3>4, <3>5, ShowsLastRows
    <3>7. QED
      BY <2>7, <3>6
  <2>12. QED
    BY <2>10, <2>11
<1>13. QED
  BY <1>10, <1>11, <1>12 DEF IInv

\* A console line changes no row of the window behind its first columns.
LEMMA ConsoleStep ==
    ASSUME IInv, NEW t \in ConsoleText, AddNewConsoleLine(t)
    PROVE  IInv'
<1> DEFINE row == messages[ConsoleLines]
           new == Overwritten(row, t, ConsoleLines)
           m == IF Len(t) < ConsoleLines THEN Len(t) ELSE ConsoleLines
<1>1. /\ TypeOK /\ EndsUnlessLongWord /\ LastRowsShown
      /\ Columns \in Nat \ {0} /\ ConsoleColumns \in Nat \ {0} /\ Lines \in Nat
      /\ ConsoleLines \in 1..(Lines - 1) /\ ConsoleLines < Columns
  BY WindowAssumption DEF IInv
<1>2. /\ ConsoleLines \in 1..Lines /\ ConsoleLines \in Nat
      /\ messages \in RowsOf(Lines) /\ console \in RowsOf(ConsoleLines)
      /\ \A i \in 1..Lines : Len(messages[i]) < Columns
  BY <1>1 DEF TypeOK, RowsOf
<1>3. t \in Seq(Char) /\ Len(t) \in Nat
  BY WindowAssumption, LenProperties
<1>4. row \in Seq(Char) /\ Len(row) \in Nat /\ Len(row) < Columns
  <2>1. row \in Seq(Char) /\ Len(row) < Columns
    BY <1>2 DEF RowsOf
  <2> HIDE DEF row
  <2>2. QED
    BY <2>1, LenProperties
<1>5. m \in Nat /\ m <= ConsoleLines
  BY <1>2, <1>3
<1> HIDE DEF row
<1>6. /\ new \in Seq(Char)
      /\ Len(new) = IF m < Len(row) THEN Len(row) ELSE m
      /\ \A k \in (m + 1)..Len(row) : new[k] = row[k]
  BY <1>2, <1>3, <1>4, <1>5, OverwrittenIs
<1> HIDE DEF new, m
<1>7. Len(new) < Columns
  BY <1>1, <1>2, <1>4, <1>5, <1>6
<1>8. /\ messages' = [messages EXCEPT ![ConsoleLines] = new]
      /\ console' = MovedUp(console, ConsoleColumns)
      /\ crashed' = crashed /\ said' = said
  BY DEF AddNewConsoleLine, ConsoleRow, new, row
<1>9. messages'[ConsoleLines] = new
  BY <1>2, <1>8 DEF RowsOf
<1>10. \A i \in 1..Lines : i /= ConsoleLines => messages'[i] = messages[i]
  BY <1>2, <1>8 DEF RowsOf
<1>11. TypeOK'
  <2>1. messages' \in RowsOf(Lines)
    BY <1>2, <1>6, <1>8 DEF RowsOf
  <2>2. \A i \in 1..Lines : Len(messages'[i]) < Columns
    BY <1>2, <1>7, <1>9, <1>10
  <2>3. /\ console' \in RowsOf(ConsoleLines)
        /\ \A i \in 1..ConsoleLines : Len(console'[i]) = ConsoleColumns - 1
    <3> DEFINE up == MovedUp(console, ConsoleColumns)
    <3>1. /\ up \in RowsOf(ConsoleLines)
          /\ \A i \in 1..ConsoleLines : Len(up[i]) = ConsoleColumns - 1
      <4> HIDE DEF up
      <4>1. QED
        BY <1>1, <1>2, MovedUpIs DEF up
    <3> HIDE DEF up
    <3>2. console' = up
      BY <1>8 DEF up
    <3>3. QED
      BY <3>1, <3>2
  <2>4. \A i \in 1..ConsoleLines : Len(console'[i]) < ConsoleColumns
    BY <2>3, <1>1
  <2>5. QED
    BY <2>1, <2>2, <2>3, <2>4, <1>1, <1>8 DEF TypeOK, RowsOf
<1>12. EndsUnlessLongWord'
  BY <1>1, <1>8 DEF EndsUnlessLongWord
<1>13. LastRowsShown'
  <2>1. SUFFICES ASSUME ~crashed' PROVE Shows(messages', AllRows(said'))
    BY DEF LastRowsShown, Shows, RowSaid, RowOf, AllRows
  <2>2. Shows(messages, AllRows(said))
    BY <2>1, <1>1, <1>8, ShownIs
  <2>3. ASSUME NEW i \in 1..Lines, NEW k \in 1..Columns,
               i > ConsoleLines \/ k > ConsoleLines
        PROVE  Seen(messages'[i], k) = Seen(messages[i], k)
    <3>1. CASE i /= ConsoleLines
      BY <3>1, <1>10
    <3>2. CASE i = ConsoleLines
      <4>1. k \in Nat /\ k > m
        BY <2>3, <3>2, <1>1, <1>2, <1>5
      <4>2. CASE k <= Len(row)
        <5>1. k \in (m + 1)..Len(row) /\ k <= Len(new)
          BY <4>1, <4>2, <1>4, <1>5, <1>6
        <5>2. QED
          BY <5>1, <4>2, <3>2, <1>6, <1>9 DEF Seen, row
      <4>3. CASE ~(k <= Len(row))
        <5>1. ~(k <= Len(new))
          BY <4>1, <4>3, <1>4, <1>5, <1>6
        <5>2. QED
          BY <5>1, <4>3, <3>2, <1>9 DEF Seen, row
      <4>4. QED
        BY <4>2, <4>3
    <3>3. QED
      BY <3>1, <3>2
  <2>4. QED
    BY <2>2, <2>3, <1>8 DEF Shows
<1>14. QED
  BY <1>11, <1>12, <1>13 DEF IInv

\* and so does every step.
LEMMA InvariantStep == IInv /\ [Next]_vars => IInv'
<1> SUFFICES ASSUME IInv, [Next]_vars PROVE IInv'
  OBVIOUS
<1>1. ASSUME NEW m \in Message, AddNewMessage(m) PROVE IInv'
  BY <1>1, MessageStep
<1>2. ASSUME NEW t \in ConsoleText, AddNewConsoleLine(t) PROVE IInv'
  BY <1>2, ConsoleStep
<1>3. CASE UNCHANGED vars
  <2>1. /\ messages' = messages /\ console' = console
        /\ crashed' = crashed /\ said' = said
    BY <1>3 DEF vars
  <2>2. TypeOK'
    BY <2>1 DEF TypeOK, IInv
  <2>3. EndsUnlessLongWord'
    BY <2>1 DEF EndsUnlessLongWord, IInv
  <2>4. LastRowsShown'
    BY <2>1 DEF LastRowsShown, IInv, RowSaid
  <2>5. QED
    BY <2>2, <2>3, <2>4 DEF IInv
<1>4. QED
  BY <1>1, <1>2, <1>3 DEF Next

\* It holds in every reachable state.
LEMMA Invariance == Spec => []IInv
BY InvariantInit, InvariantStep, PTL DEF Spec

\* Between two calls of LP2PM_Display every row has its '\0': no row runs on
\* into the one behind it.
THEOREM TypeCorrect == Spec => []TypeOK
<1>1. IInv => TypeOK
  BY DEF IInv
<1>2. QED
  BY <1>1, Invariance, PTL

\* addNewLine() stops calling itself exactly for the messages without a word
\* as long as a row, whatever the sizes of the window and the messages.
THEOREM EndsExactly == Spec => []EndsUnlessLongWord
<1>1. IInv => EndsUnlessLongWord
  BY DEF IInv
<1>2. QED
  BY <1>1, Invariance, PTL

\* The window shows the last rows of what was said, in order, with nothing
\* lost between them, wherever no console line strays.
THEOREM RowsAreShown == Spec => []LastRowsShown
<1>1. IInv => LastRowsShown
  BY DEF IInv
<1>2. QED
  BY <1>1, Invariance, PTL

\* addNewLine() cuts every message it comes to an end with between words,
\* loses nothing of it, and puts as many words on each row as there is room
\* for.
THEOREM WrapsBetweenWords == Spec => []WrapsAtWords
<1>1. IInv => WrapsAtWords
  <2> SUFFICES ASSUME IInv, ~crashed, NEW i \in DOMAIN said
               PROVE  IsWrapping(said[i], Pieces(said[i]))
    BY DEF WrapsAtWords
  <2>1. said \in Seq(Message) /\ ~HasLongWord(said[i])
    BY DEF IInv, TypeOK, EndsUnlessLongWord
  <2>2. i \in 1..Len(said)
    BY <2>1, LenProperties
  <2>3. said[i] \in Message
    BY <2>1, <2>2, ElementOfSeq
  <2>4. QED
    BY <2>1, <2>3, MessagesAre, PiecesWrap
<1>2. QED
  BY <1>1, Invariance, PTL
=============================================================================
