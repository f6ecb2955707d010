---------------------------- MODULE InputProofs ----------------------------
(***************************************************************************)
(* Proofs about InputLines for every set of characters and commands and    *)
(* every size of the lines and of the arrays.                              *)
(***************************************************************************)
EXTENDS InputLines, SetInduction, SequenceTheorems, FiniteSetTheorems

\* What erase() leaves of a line when the cursor is at its end.
LEMMA ErasedLast ==
    ASSUME NEW S, NEW line \in Seq(S), Len(line) > 0
    PROVE  /\ Erased(line, Len(line) - 1) \in Seq(S)
           /\ Len(Erased(line, Len(line) - 1)) = Len(line) - 1
<1> DEFINE n == Len(line)
           s == SubSeq(line, 1, n - 1)
           t == SubSeq(line, n + 1, n)
<1>1. n \in Nat /\ n > 0
  BY LenProperties
<1>2. s \in Seq(S) /\ Len(s) = n - 1
  <2>1. n - 1 \in Int /\ 1 \in Int /\ \A i \in 1..(n - 1) : line[i] \in S
    BY <1>1
  <2>2. /\ s \in Seq(S)
        /\ Len(s) = IF 1 <= n - 1 THEN n - 1 - 1 + 1 ELSE 0
    <3> HIDE DEF n
    <3>1. QED
      BY <2>1, SubSeqProperties
  <2> HIDE DEF n, s
  <2>3. QED
    BY <1>1, <2>2
<1>3. t \in Seq(S) /\ Len(t) = 0
  BY <1>1, SubSeqProperties
<1>4. Erased(line, n - 1) = s \o t
  BY <1>1 DEF Erased
<1> HIDE DEF n, s, t
<1>5. s \o t \in Seq(S) /\ Len(s \o t) = Len(s) + Len(t)
  BY <1>2, <1>3, ConcatProperties
<1>6. QED
  BY <1>1, <1>2, <1>3, <1>4, <1>5 DEF n

\* A line with a character more.
LEMMA AppendedLine ==
    ASSUME NEW line \in Seq(Char), NEW ch \in Char, NEW limit \in Nat, HasRoom(line, limit)
    PROVE  /\ Append(line, ch) \in Seq(Char)
           /\ Len(Append(line, ch)) = Len(line) + 1
           /\ Len(line) + 1 <= limit
<1>1. Append(line, ch) \in Seq(Char) /\ Len(Append(line, ch)) = Len(line) + 1
  BY AppendProperties
<1>2. QED
  BY <1>1, LenProperties DEF HasRoom

\* A line from which nothing is left.
LEMMA ClearedLine == <<>> \in Seq(Char) /\ Len(<<>>) = 0
  OBVIOUS

\* Two lines are shown one after the other.
LEMMA PairOfLines ==
    ASSUME NEW a, NEW b
    PROVE  /\ Len(<<a>> \o <<b>>) = 2
           /\ \A i \in 1..2 : (<<a>> \o <<b>>)[i] \in {a, b}
<1>1. <<a>> \in Seq({a, b}) /\ <<b>> \in Seq({a, b}) /\ Len(<<a>>) = 1 /\ Len(<<b>>) = 1
  OBVIOUS
<1>2. <<a>> \o <<b>> \in Seq({a, b}) /\ Len(<<a>> \o <<b>>) = 1 + 1
  BY <1>1, ConcatProperties
<1>3. QED
  BY <1>2, ElementOfSeq

-----------------------------------------------------------------------------
(* The words of a line.                                                    *)

\* The words of a line are the last of the words of its beginnings.
WordsSoFar == {words \in Seq(Seq(Char)) : Len(words) >= 1}

\* A character more is a new word, or belongs to the last one.
LEMMA WithCharacterIs ==
    ASSUME NEW words \in WordsSoFar, NEW ch \in Char
    PROVE  /\ WithCharacter(words, ch) \in WordsSoFar
           /\ ch = Blank =>
                 /\ Len(WithCharacter(words, ch)) = Len(words) + 1
                 /\ \A k \in 1..Len(words) : WithCharacter(words, ch)[k] = words[k]
                 /\ WithCharacter(words, ch)[Len(words) + 1] = <<>>
           /\ ch /= Blank =>
                 /\ Len(WithCharacter(words, ch)) = Len(words)
                 /\ \A k \in 1..(Len(words) - 1) : WithCharacter(words, ch)[k] = words[k]
                 /\ WithCharacter(words, ch)[Len(words)] = Append(words[Len(words)], ch)
<1> DEFINE n == Len(words)
           new == WithCharacter(words, ch)
<1>1. words \in Seq(Seq(Char)) /\ n \in Nat /\ n >= 1 /\ words \in [1..n -> Seq(Char)]
  <2>1. words \in Seq(Seq(Char)) /\ n >= 1
    BY DEF WordsSoFar
  <2>2. QED
    BY <2>1, LenProperties
<1>2. CASE ch = Blank
  <2>1. new = Append(words, <<>>)
    BY <1>2 DEF WithCharacter
  <2>2. <<>> \in Seq(Char)
    OBVIOUS
  <2>3. /\ new \in Seq(Seq(Char)) /\ Len(new) = n + 1
        /\ \A k \in 1..n : new[k] = words[k]
        /\ new[n + 1] = <<>>
    <3> HIDE DEF new
    <3>1. QED
      BY <1>1, <2>1, <2>2, AppendProperties
  <2>4. QED
    BY <1>1, <1>2, <2>3 DEF WordsSoFar
<1>3. CASE ch /= Blank
  <2> DEFINE last == Append(words[n], ch)
  <2>1. n \in 1..n /\ words[n] \in Seq(Char)
    BY <1>1
  <2>2. last \in Seq(Char)
    BY <2>1, AppendProperties
  <2>3. new = [words EXCEPT ![n] = last]
    BY <1>3 DEF WithCharacter
  <2> HIDE DEF last, new, n
  <2>4. new \in [1..n -> Seq(Char)]
    BY <1>1, <2>1, <2>2, <2>3
  <2>5. new \in Seq(Seq(Char)) /\ Len(new) = n
    BY <1>1, <2>4
  <2>6. new[n] = last /\ \A k \in 1..(n - 1) : new[k] = words[k]
    BY <1>1, <2>1, <2>3
  <2>7. QED
    BY <1>1, <1>3, <2>5, <2>6 DEF WordsSoFar, last, new, n
<1>4. QED
  BY <1>2, <1>3

\* parseToLineArguments() goes through the line once.
LEMMA WordsAre ==
    ASSUME NEW line \in Seq(Char)
    PROVE  \E f \in [0..Len(line) -> WordsSoFar] :
               /\ f[0] = <<<<>>>>
               /\ \A k \in 1..Len(line) : f[k] = WithCharacter(f[k - 1], line[k])
               /\ Words(line) = f[Len(line)]
<1> DEFINE N == Len(line)
           R == WordsSoFar
           Eq(h) == h = [k \in 0..N |-> IF k = 0 THEN <<<<>>>>
                                        ELSE WithCharacter(h[k - 1], line[k])]
           F == CHOOSE h : Eq(h)
           Done == {k \in 0..N : \E f \in [0..k -> R] :
                       /\ f[0] = <<<<>>>>
                       /\ \A j \in 1..k : f[j] = WithCharacter(f[j - 1], line[j])}
<1>1. N \in Nat /\ \A i \in 1..N : line[i] \in Char
  BY LenProperties, ElementOfSeq
<1>2. \A h \in R, i \in 1..N : WithCharacter(h, line[i]) \in R
  <2>1. \A h \in R, ch \in Char : WithCharacter(h, ch) \in R
    BY WithCharacterIs
  <2>2. QED
    BY <1>1, <2>1
<1>3. <<<<>>>> \in R
  <2>1. <<>> \in Seq(Char)
    OBVIOUS
  <2>2. <<<<>>>> \in Seq(Seq(Char)) /\ Len(<<<<>>>>) = 1
    BY <2>1
  <2>3. QED
    BY <2>2 DEF WordsSoFar
<1> HIDE DEF N, R
<1>4. ASSUME NEW k \in 0..N, 0..(k - 1) \subseteq Done
      PROVE  k \in Done
  <2>1. CASE k = 0
    <3> DEFINE f == [j \in 0..0 |-> <<<<>>>>]
    <3>1. f \in [0..0 -> R] /\ f[0] = <<<<>>>>
      BY <1>3
    <3> HIDE DEF f
    <3>2. \A j \in 1..0 : f[j] = WithCharacter(f[j - 1], line[j])
      OBVIOUS
    <3>3. QED
      BY <2>1, <3>1, <3>2, <1>1
  <2>2. CASE k /= 0
    <3>1. k - 1 \in 0..(k - 1) /\ k \in 1..N /\ k - 1 \in 0..N
      BY <1>1, <2>2
    <3>2. k - 1 \in Done
      <4> HIDE DEF Done
      <4>1. QED
        BY <3>1, <1>4
    <3>3. PICK f \in [0..(k - 1) -> R] :
             /\ f[0] = <<<<>>>>
             /\ \A j \in 1..(k - 1) : f[j] = WithCharacter(f[j - 1], line[j])
      BY <3>2
    <3> DEFINE g == [j \in 0..k |-> IF j < k THEN f[j] ELSE WithCharacter(f[k - 1], line[k])]
    <3>4. f[k - 1] \in R
      BY <3>1
    <3>5. WithCharacter(f[k - 1], line[k]) \in R
      BY <3>1, <3>4, <1>2
    <3>6. \A j \in 0..k : j < k => j \in 0..(k - 1)
      BY <1>1
    <3>7. g \in [0..k -> R]
      BY <3>5, <3>6
    <3>8. \A j \in 0..(k - 1) : j \in 0..k /\ j < k
      BY <1>1
    <3>9. \A j \in 0..(k - 1) : g[j] = f[j]
      BY <3>8
    <3>10. g[k] = WithCharacter(f[k - 1], line[k])
      <4>1. k \in 0..k /\ ~(k < k)
        BY <1>1
      <4>2. QED
        BY <4>1
    <3> HIDE DEF g
    <3>11. g[0] = <<<<>>>>
      BY <3>1, <3>3, <3>9, <2>2
    <3>12. ASSUME NEW j \in 1..k
           PROVE  g[j] = WithCharacter(g[j - 1], line[j])
      <4>1. j - 1 \in 0..(k - 1)
        BY <1>1
      <4>2. g[j - 1] = f[j - 1]
        BY <4>1, <3>9
      <4>3. CASE j = k
        BY <4>2, <4>3, <3>10
      <4>4. CASE j /= k
        <5>1. j \in 1..(k - 1) /\ j \in 0..(k - 1)
          BY <4>4, <1>1
        <5>2. QED
          BY <5>1, <4>2, <3>3, <3>9
      <4>5. QED
        BY <4>3, <4>4
    <3>13. QED
      BY <3>7, <3>11, <3>12
  <2>3. QED
    BY <2>1, <2>2
<1>5. N \in Done
  <2> HIDE DEF Done
  <2>1. 0..N \subseteq Done
    BY <1>1, <1>4, UpwardInduction
  <2>2. QED
    BY <2>1, <1>1
<1>6. PICK f \in [0..N -> R] :
         f[0] = <<<<>>>> /\ \A j \in 1..N : f[j] = WithCharacter(f[j - 1], line[j])
  BY <1>5
<1>7. Eq(f)
  <2>1. \A k \in 0..N : k /= 0 => k \in 1..N
    BY <1>1
  <2>2. \A k \in 0..N : f[k] = IF k = 0 THEN <<<<>>>> ELSE WithCharacter(f[k - 1], line[k])
    BY <1>6, <2>1
  <2>3. QED
    BY <2>2
<1>8. Eq(F)
  <2> HIDE DEF Eq
  <2>1. QED
    BY <1>7
<1>9. Words(line) = F[N]
  BY DEF Words, N
<1> HIDE DEF F
<1>10. DOMAIN F = 0..N /\ F = [k \in 0..N |-> F[k]]
  BY <1>8
<1>11. F[0] = <<<<>>>>
  BY <1>8, <1>1
<1>12. \A k \in 1..N : F[k] = WithCharacter(F[k - 1], line[k])
  <2>1. \A k \in 1..N : k \in 0..N /\ k /= 0
    BY <1>1
  <2>2. QED
    BY <2>1, <1>8
<1> HIDE DEF Eq
<1> DEFINE Typed == {k \in 0..N : F[k] \in R}
<1>13. ASSUME NEW k \in 0..N, 0..(k - 1) \subseteq Typed
       PROVE  k \in Typed
  <2>1. CASE k = 0
    BY <2>1, <1>11, <1>3
  <2>2. CASE k /= 0
    <3>1. k - 1 \in 0..(k - 1) /\ k \in 1..N
      BY <1>1, <2>2
    <3>2. F[k - 1] \in R
      BY <3>1, <1>13
    <3>3. QED
      BY <3>1, <3>2, <1>2, <1>12
  <2>3. QED
    BY <2>1, <2>2
<1>14. 0..N \subseteq Typed
  <2> HIDE DEF Typed
  <2>1. QED
    BY <1>1, <1>13, UpwardInduction
<1>15. F \in [0..N -> R]
  BY <1>10, <1>14
<1>16. QED
  BY <1>9, <1>11, <1>12, <1>15 DEF N, R

\* A run of characters of a line without a blank among them, behind the
\* first b characters.
IsRun(line, word, b) ==
    \A j \in 1..Len(word) : word[j] = line[b + j] /\ line[b + j] /= Blank

Blanks(line, i) == {j \in 1..i : line[j] = Blank}

\* The words of the first i characters: one more than there are blanks, each
\* a run, and the last one at the end.
AreWordsOf(words, line, i) ==
    /\ IsFiniteSet(Blanks(line, i)) /\ Cardinality(Blanks(line, i)) = Len(words) - 1
    /\ \A k \in 1..Len(words) :
          \E b \in Nat : b + Len(words[k]) <= i /\ IsRun(line, words[k], b)
    /\ Len(words[Len(words)]) <= i
    /\ IsRun(line, words[Len(words)], i - Len(words[Len(words)]))

\* One character more keeps the words words of the line.
LEMMA NextCharacter ==
    ASSUME NEW line \in Seq(Char), NEW i \in 1..Len(line), NEW words \in WordsSoFar,
           AreWordsOf(words, line, i - 1)
    PROVE  AreWordsOf(WithCharacter(words, line[i]), line, i)
<1> DEFINE new == WithCharacter(words, line[i])
           n == Len(words)
           last == words[n]
<1>1. /\ line[i] \in Char /\ i \in Nat /\ i >= 1 /\ n \in Nat /\ n >= 1
      /\ \A k \in 1..n : words[k] \in Seq(Char) /\ Len(words[k]) \in Nat
  <2>1. words \in Seq(Seq(Char)) /\ n \in Nat /\ n >= 1
    BY LenProperties DEF WordsSoFar
  <2>2. line[i] \in Char
    BY ElementOfSeq
  <2>3. \A k \in 1..n : words[k] \in Seq(Char)
    BY <2>1, ElementOfSeq
  <2>4. QED
    BY <2>1, <2>2, <2>3, LenProperties
<1>2. n \in 1..n /\ last \in Seq(Char) /\ Len(last) \in Nat
  BY <1>1
<1>3. /\ IsFiniteSet(Blanks(line, i - 1)) /\ Cardinality(Blanks(line, i - 1)) = n - 1
      /\ \A k \in 1..n :
            \E b \in Nat : b + Len(words[k]) <= i - 1 /\ IsRun(line, words[k], b)
      /\ Len(last) <= i - 1 /\ IsRun(line, last, (i - 1) - Len(last))
  BY DEF AreWordsOf
<1>4. /\ new \in WordsSoFar
      /\ line[i] = Blank =>
            Len(new) = n + 1 /\ (\A k \in 1..n : new[k] = words[k]) /\ new[n + 1] = <<>>
      /\ line[i] /= Blank =>
            /\ Len(new) = n /\ \A k \in 1..(n - 1) : new[k] = words[k]
            /\ new[n] = Append(last, line[i])
  BY <1>1, WithCharacterIs
<1> HIDE DEF new, n, last
<1>5. CASE line[i] = Blank
  <2>1. Blanks(line, i) = Blanks(line, i - 1) \cup {i} /\ i \notin Blanks(line, i - 1)
    BY <1>1, <1>5 DEF Blanks
  <2>2. IsFiniteSet(Blanks(line, i)) /\ Cardinality(Blanks(line, i)) = (n - 1) + 1
    BY <1>3, <2>1, FS_AddElement
  <2>3. Len(<<>>) = 0 /\ IsRun(line, <<>>, i)
    BY DEF IsRun
  <2>4. ASSUME NEW k \in 1..(n + 1)
        PROVE  \E b \in Nat : b + Len(new[k]) <= i /\ IsRun(line, new[k], b)
    <3>1. CASE k = n + 1
      <4>1. new[k] = <<>> /\ i \in Nat /\ i + Len(<<>>) <= i
        BY <1>1, <1>4, <1>5, <2>3, <3>1
      <4>2. QED
        BY <2>3, <4>1
    <3>2. CASE k /= n + 1
      <4>1. k \in 1..n
        BY <1>1, <3>2
      <4>2. PICK b \in Nat : b + Len(words[k]) <= i - 1 /\ IsRun(line, words[k], b)
        BY <1>3, <4>1
      <4>3. new[k] = words[k] /\ b + Len(words[k]) <= i
        BY <1>1, <1>4, <1>5, <4>1, <4>2
      <4>4. QED
        BY <4>2, <4>3
    <3>3. QED
      BY <3>1, <3>2
  <2>5. /\ Len(new) = n + 1 /\ new[n + 1] = <<>>
    BY <1>4, <1>5
  <2>6. Len(new[Len(new)]) <= i /\ IsRun(line, new[Len(new)], i - Len(new[Len(new)]))
    BY <1>1, <2>3, <2>5
  <2>7. (n - 1) + 1 = Len(new) - 1
    BY <1>1, <2>5
  <2>8. QED
    BY <2>2, <2>4, <2>5, <2>6, <2>7 DEF AreWordsOf, new
<1>6. CASE line[i] /= Blank
  <2> DEFINE longer == Append(last, line[i])
  <2>1. Blanks(line, i) = Blanks(line, i - 1)
    BY <1>1, <1>6 DEF Blanks
  <2>2. /\ Len(longer) = Len(last) + 1
        /\ \A j \in 1..Len(last) : longer[j] = last[j]
        /\ longer[Len(last) + 1] = line[i]
    BY <1>1, <1>2, AppendProperties
  <2> HIDE DEF longer
  <2>3. (i - Len(longer)) = (i - 1) - Len(last) /\ i - Len(longer) \in Nat
    BY <1>1, <1>2, <1>3, <2>2
  <2>4. ASSUME NEW j \in 1..Len(longer)
        PROVE  longer[j] = line[(i - Len(longer)) + j] /\ line[(i - Len(longer)) + j] /= Blank
    <3>1. CASE j = Len(last) + 1
      <4>1. (i - Len(longer)) + j = i
        BY <1>1, <1>2, <2>2, <3>1
      <4>2. QED
        BY <1>6, <2>2, <3>1, <4>1
    <3>2. CASE j /= Len(last) + 1
      <4>1. j \in 1..Len(last)
        BY <1>2, <2>2, <3>2
      <4>2. QED
        BY <1>3, <2>2, <2>3, <4>1 DEF IsRun
    <3>3. QED
      BY <3>1, <3>2
  <2>5. IsRun(line, longer, i - Len(longer))
    BY <2>4 DEF IsRun
  <2>6. Len(longer) <= i /\ (i - Len(longer)) + Len(longer) <= i
    BY <1>1, <1>2, <1>3, <2>2
  <2>7. Len(new) = n /\ new[n] = longer
    BY <1>4, <1>6 DEF longer
  <2>8. ASSUME NEW k \in 1..n
        PROVE  \E b \in Nat : b + Len(new[k]) <= i /\ IsRun(line, new[k], b)
    <3>1. CASE k = n
      BY <2>3, <2>5, <2>6, <2>7, <3>1
    <3>2. CASE k /= n
      <4>1. k \in 1..(n - 1)
        BY <1>1, <3>2
      <4>2. PICK b \in Nat : b + Len(words[k]) <= i - 1 /\ IsRun(line, words[k], b)
        BY <1>3
      <4>3. new[k] = words[k] /\ b + Len(words[k]) <= i
        BY <1>1, <1>4, <1>6, <4>1, <4>2
      <4>4. QED
        BY <4>2, <4>3
    <3>3. QED
      BY <3>1, <3>2
  <2>9. QED
    BY <1>3, <2>1, <2>5, <2>6, <2>7, <2>8 DEF AreWordsOf, new
<1>7. QED
  BY <1>5, <1>6

\* The words of the whole line.
LEMMA WordsOfLine ==
    ASSUME NEW line \in Seq(Char)
    PROVE  Words(line) \in WordsSoFar /\ AreWordsOf(Words(line), line, Len(line))
<1>1. PICK f \in [0..Len(line) -> WordsSoFar] :
         /\ f[0] = <<<<>>>>
         /\ \A k \in 1..Len(line) : f[k] = WithCharacter(f[k - 1], line[k])
         /\ Words(line) = f[Len(line)]
  BY WordsAre
<1> DEFINE n == Len(line)
           Right == {k \in 0..n : AreWordsOf(f[k], line, k)}
<1>2. n \in Nat
  BY LenProperties
<1>3. ASSUME NEW k \in 0..n, 0..(k - 1) \subseteq Right
      PROVE  k \in Right
  <2>1. CASE k = 0
    <3>1. Blanks(line, 0) = {}
      BY DEF Blanks
    <3>2. IsFiniteSet(Blanks(line, 0)) /\ Cardinality(Blanks(line, 0)) = 0
      BY <3>1, FS_EmptySet
    <3>3. Len(<<<<>>>>) = 1 /\ <<<<>>>>[1] = <<>> /\ Len(<<>>) = 0
      OBVIOUS
    <3>4. IsRun(line, <<>>, 0)
      BY <3>3 DEF IsRun
    <3>5. \A w \in 1..1 : \E b \in Nat : b + Len(<<<<>>>>[w]) <= 0 /\ IsRun(line, <<<<>>>>[w], b)
      BY <3>3, <3>4
    <3>6. AreWordsOf(<<<<>>>>, line, 0)
      BY <3>2, <3>3, <3>4, <3>5 DEF AreWordsOf
    <3>7. QED
      BY <1>1, <2>1, <3>6
  <2>2. CASE k /= 0
    <3>1. k - 1 \in 0..(k - 1) /\ k \in 1..n /\ k - 1 \in 0..n
      BY <1>2, <2>2
    <3>2. AreWordsOf(f[k - 1], line, k - 1) /\ f[k - 1] \in WordsSoFar
      BY <1>1, <1>3, <3>1
    <3>3. AreWordsOf(f[k], line, k)
      BY <1>1, <3>1, <3>2, NextCharacter
    <3>4. QED
      BY <3>3
  <2>3. QED
    BY <2>1, <2>2
<1>4. 0..n \subseteq Right
  <2> HIDE DEF Right
  <2>1. QED
    BY <1>2, <1>3, UpwardInduction
<1>5. n \in 0..n
  BY <1>2
<1>6. QED
  BY <1>1, <1>4, <1>5

\* Up to the first blank there is one word,
LEMMA FirstWord ==
    ASSUME NEW line \in Seq(Char), NEW m \in 0..Len(line),
           \A j \in 1..m : line[j] /= Blank,
           NEW f \in [0..Len(line) -> WordsSoFar], f[0] = <<<<>>>>,
           \A k \in 1..Len(line) : f[k] = WithCharacter(f[k - 1], line[k])
    PROVE  Len(f[m]) = 1 /\ f[m][1] = SubSeq(line, 1, m)
<1> DEFINE Right == {k \in 0..m : Len(f[k]) = 1 /\ f[k][1] = SubSeq(line, 1, k)}
<1>1. Len(line) \in Nat /\ m \in Nat /\ 0..m \subseteq 0..Len(line)
  BY LenProperties
<1>2. ASSUME NEW k \in 0..m, 0..(k - 1) \subseteq Right
      PROVE  k \in Right
  <2>1. CASE k = 0
    <3>1. SubSeq(line, 1, 0) = <<>> /\ Len(<<<<>>>>) = 1 /\ <<<<>>>>[1] = <<>>
      BY SubSeqProperties, EmptySeq
    <3>2. QED
      BY <2>1, <3>1
  <2>2. CASE k /= 0
    <3>1. k - 1 \in 0..(k - 1) /\ k \in 1..Len(line) /\ k - 1 \in 0..Len(line) /\ k \in 1..m
      BY <1>1, <2>2
    <3>2. Len(f[k - 1]) = 1 /\ f[k - 1][1] = SubSeq(line, 1, k - 1) /\ f[k - 1] \in WordsSoFar
      BY <1>2, <3>1
    <3>3. line[k] \in Char /\ line[k] /= Blank
      BY <3>1, ElementOfSeq
    <3>4. f[k] = WithCharacter(f[k - 1], line[k])
      BY <3>1
    <3>5. Len(f[k]) = 1 /\ f[k][1] = Append(SubSeq(line, 1, k - 1), line[k])
      <4>1. \A w \in WordsSoFar, ch \in Char : ch /= Blank =>
               /\ Len(WithCharacter(w, ch)) = Len(w)
               /\ WithCharacter(w, ch)[Len(w)] = Append(w[Len(w)], ch)
        BY WithCharacterIs
      <4>2. /\ Len(f[k]) = Len(f[k - 1])
            /\ f[k][Len(f[k - 1])] = Append(f[k - 1][Len(f[k - 1])], line[k])
        BY <3>2, <3>3, <3>4, <4>1
      <4>3. QED
        BY <3>2, <4>2
    <3>6. Append(SubSeq(line, 1, k - 1), line[k]) = SubSeq(line, 1, k)
      BY <3>1, <1>1
    <3>7. QED
      BY <3>5, <3>6
  <2>3. QED
    BY <2>1, <2>2
<1>3. 0..m \subseteq Right
  <2> HIDE DEF Right
  <2>1. QED
    BY <1>1, <1>2, UpwardInduction
<1>4. QED
  BY <1>1, <1>3

\* which is the whole line if there is none,
LEMMA OneWord ==
    ASSUME NEW line \in Seq(Char), \A j \in 1..Len(line) : line[j] /= Blank
    PROVE  Words(line) \in WordsSoFar /\ Len(Words(line)) = 1 /\ Words(line)[1] = line
<1>1. PICK f \in [0..Len(line) -> WordsSoFar] :
         /\ f[0] = <<<<>>>>
         /\ \A k \in 1..Len(line) : f[k] = WithCharacter(f[k - 1], line[k])
         /\ Words(line) = f[Len(line)]
  BY WordsAre
<1>2. Len(line) \in Nat /\ Len(line) \in 0..Len(line)
  BY LenProperties
<1>3. \A m \in 0..Len(line) : (\A j \in 1..m : line[j] /= Blank)
         => Len(f[m]) = 1 /\ f[m][1] = SubSeq(line, 1, m)
  BY <1>1, FirstWord
<1>4. Len(f[Len(line)]) = 1 /\ f[Len(line)][1] = SubSeq(line, 1, Len(line))
  BY <1>2, <1>3
<1>5. SubSeq(line, 1, Len(line)) = line
  BY <1>2
<1>6. QED
  BY <1>1, <1>2, <1>4, <1>5

\* and with one blank there are two.
LEMMA TwoWords ==
    ASSUME NEW line \in Seq(Char), NEW p \in 1..Len(line), line[p] = Blank,
           \A j \in 1..Len(line) : j /= p => line[j] /= Blank
    PROVE  /\ Words(line) \in WordsSoFar /\ Len(Words(line)) = 2
           /\ Words(line)[1] = SubSeq(line, 1, p - 1)
           /\ Words(line)[2] = SubSeq(line, p + 1, Len(line))
<1>1. PICK f \in [0..Len(line) -> WordsSoFar] :
         /\ f[0] = <<<<>>>>
         /\ \A k \in 1..Len(line) : f[k] = WithCharacter(f[k - 1], line[k])
         /\ Words(line) = f[Len(line)]
  BY WordsAre
<1> DEFINE n == Len(line)
<1>2. n \in Nat /\ p \in Nat /\ p >= 1 /\ p <= n /\ \A j \in 1..n : line[j] \in Char
  BY LenProperties, ElementOfSeq
<1>3. Len(f[p - 1]) = 1 /\ f[p - 1][1] = SubSeq(line, 1, p - 1)
  <2>1. \A m \in 0..Len(line) : (\A j \in 1..m : line[j] /= Blank)
           => Len(f[m]) = 1 /\ f[m][1] = SubSeq(line, 1, m)
    BY <1>1, FirstWord
  <2>2. p - 1 \in 0..Len(line) /\ \A j \in 1..(p - 1) : line[j] /= Blank
    BY <1>2
  <2>3. QED
    BY <2>1, <2>2
<1>4. \A w \in WordsSoFar, ch \in Char :
         /\ ch = Blank =>
               /\ Len(WithCharacter(w, ch)) = Len(w) + 1
               /\ \A k \in 1..Len(w) : WithCharacter(w, ch)[k] = w[k]
               /\ WithCharacter(w, ch)[Len(w) + 1] = <<>>
         /\ ch /= Blank =>
               /\ Len(WithCharacter(w, ch)) = Len(w)
               /\ \A k \in 1..(Len(w) - 1) : WithCharacter(w, ch)[k] = w[k]
               /\ WithCharacter(w, ch)[Len(w)] = Append(w[Len(w)], ch)
  BY WithCharacterIs
<1> DEFINE Right == {k \in 0..(n - p) : /\ Len(f[p + k]) = 2
                                        /\ f[p + k][1] = SubSeq(line, 1, p - 1)
                                        /\ f[p + k][2] = SubSeq(line, p + 1, p + k)}
<1>5. ASSUME NEW k \in 0..(n - p), 0..(k - 1) \subseteq Right
      PROVE  k \in Right
  <2>1. CASE k = 0
    <3>1. p \in 1..n /\ p - 1 \in 0..n /\ p + k = p
      BY <1>2, <2>1
    <3>2. f[p] = WithCharacter(f[p - 1], line[p]) /\ f[p - 1] \in WordsSoFar /\ line[p] \in Char
      BY <1>1, <1>2, <3>1
    <3>3. /\ Len(f[p]) = Len(f[p - 1]) + 1
          /\ \A i \in 1..Len(f[p - 1]) : f[p][i] = f[p - 1][i]
          /\ f[p][Len(f[p - 1]) + 1] = <<>>
      BY <1>4, <3>2
    <3>4. Len(f[p]) = 2 /\ f[p][1] = SubSeq(line, 1, p - 1) /\ f[p][2] = <<>>
      BY <1>3, <3>3
    <3>5. SubSeq(line, p + 1, p) = <<>>
      BY <1>2, SubSeqProperties, EmptySeq
    <3>6. QED
      BY <3>1, <3>4, <3>5
  <2>2. CASE k /= 0
    <3> DEFINE m == p + k
    <3>1. /\ k - 1 \in 0..(k - 1) /\ m \in 1..n /\ m - 1 \in 0..n /\ m \in Nat /\ m > p
          /\ p + (k - 1) = m - 1
      BY <1>2, <2>2
    <3>2. /\ Len(f[m - 1]) = 2 /\ f[m - 1][1] = SubSeq(line, 1, p - 1)
          /\ f[m - 1][2] = SubSeq(line, p + 1, m - 1)
      BY <1>5, <3>1
    <3> HIDE DEF m
    <3>3. f[m - 1] \in WordsSoFar /\ line[m] \in Char /\ line[m] /= Blank
      <4>1. f[m - 1] \in WordsSoFar
        BY <3>1
      <4>2. m \in 1..Len(line) /\ m /= p
        BY <1>2, <3>1
      <4>3. QED
        BY <1>2, <4>1, <4>2
    <3>4. f[m] = WithCharacter(f[m - 1], line[m])
      BY <1>1, <3>1
    <3>5. /\ Len(f[m]) = Len(f[m - 1])
          /\ \A i \in 1..(Len(f[m - 1]) - 1) : f[m][i] = f[m - 1][i]
          /\ f[m][Len(f[m - 1])] = Append(f[m - 1][Len(f[m - 1])], line[m])
      <4> DEFINE w == f[m - 1]
                 ch == line[m]
      <4>1. w \in WordsSoFar /\ ch \in Char /\ ch /= Blank /\ f[m] = WithCharacter(w, ch)
        BY <3>3, <3>4
      <4> HIDE DEF w, ch
      <4>2. /\ Len(f[m]) = Len(w)
            /\ \A i \in 1..(Len(w) - 1) : f[m][i] = w[i]
            /\ f[m][Len(w)] = Append(w[Len(w)], ch)
        BY <1>4, <4>1
      <4>3. QED
        BY <4>2 DEF w, ch
    <3>6. /\ Len(f[m]) = 2 /\ f[m][1] = SubSeq(line, 1, p - 1)
          /\ f[m][2] = Append(SubSeq(line, p + 1, m - 1), line[m])
      <4>1. 1 \in 1..(Len(f[m - 1]) - 1)
        BY <3>2
      <4>2. f[m][1] = f[m - 1][1]
        BY <3>5, <4>1
      <4>3. QED
        BY <3>2, <3>5, <4>2
    <3>7. Append(SubSeq(line, p + 1, m - 1), line[m]) = SubSeq(line, p + 1, m)
      BY <1>2, <3>1
    <3>8. QED
      BY <3>6, <3>7 DEF m
  <2>3. QED
    BY <2>1, <2>2
<1>6. 0..(n - p) \subseteq Right
  <2> HIDE DEF Right
  <2>1. n - p \in Nat
    BY <1>2
  <2>2. QED
    BY <2>1, <1>5, UpwardInduction
<1>7. n - p \in 0..(n - p) /\ p + (n - p) = n /\ n \in 0..n
  BY <1>2
<1>8. /\ Len(f[n]) = 2 /\ f[n][1] = SubSeq(line, 1, p - 1)
      /\ f[n][2] = SubSeq(line, p + 1, n)
  BY <1>6, <1>7
<1>9. QED
  BY <1>1, <1>7, <1>8

-----------------------------------------------------------------------------
(* The words in the array.                                                 *)

\* The rows lie one behind the other.
LEMMA RowsAre ==
    \A k \in Nat \ {0} : /\ Row(k) \in Nat /\ Row(k + 1) = Row(k) + WordSize
                         /\ \A m \in Nat : k <= m => Row(k) <= Row(m)
<1> SUFFICES ASSUME NEW k \in Nat \ {0}
             PROVE  /\ Row(k) \in Nat /\ Row(k + 1) = Row(k) + WordSize
                    /\ \A m \in Nat : k <= m => Row(k) <= Row(m)
  OBVIOUS
<1>1. WordSize \in Nat
  BY InputAssumption
<1>2. Row(k) \in Nat
  BY <1>1 DEF Row
<1>3. Row(k + 1) = Row(k) + WordSize
  BY <1>1 DEF Row
<1>4. ASSUME NEW m \in Nat, k <= m
      PROVE  Row(k) <= Row(m)
  <2>1. PICK d \in Nat : m = k + d
    BY <1>4
  <2>2. Row(m) = Row(k) + d * WordSize
    BY <1>1, <2>1 DEF Row
  <2>3. d * WordSize \in Nat
    BY <1>1
  <2>4. QED
    BY <1>2, <2>2, <2>3
<1>5. QED
  BY <1>2, <1>3, <1>4

\* A word that no later word runs over is read back as it was written.
LEMMA ArgumentIs ==
    ASSUME NEW words \in WordsSoFar, NEW k \in 1..Len(words),
           RowEnd(k, words[k]) <= Row(MaxWords + 1),
           \A m \in 1..Len(words) : m > k => RowEnd(k, words[k]) <= Row(m)
    PROVE  Argument(ToArguments(words), k) = words[k]
<1> DEFINE n == Len(words)
           w == words[k]
           size == Row(MaxWords + 1)
           start == Row(k)
           end == RowEnd(k, w)
           array == ToArguments(words)
           Over(j) == {m \in DOMAIN words : Row(m) < j /\ j <= RowEnd(m, words[m])}
<1>1. n \in Nat /\ n >= 1 /\ words \in Seq(Seq(Char)) /\ DOMAIN words = 1..n
  BY LenProperties DEF WordsSoFar
<1>2. w \in Seq(Char) /\ Len(w) \in Nat /\ \A j \in 1..Len(w) : w[j] \in Char
  <2>1. w \in Seq(Char)
    BY <1>1, ElementOfSeq
  <2>2. QED
    BY <2>1, LenProperties, ElementOfSeq
<1>3. start \in Nat /\ size \in Nat /\ end = start + Len(w) + 1 /\ end <= size
  <2>1. k \in Nat \ {0} /\ MaxWords + 1 \in Nat \ {0}
    BY <1>1, InputAssumption
  <2>2. start \in Nat /\ size \in Nat
    BY <2>1, RowsAre
  <2>3. QED
    BY <2>2 DEF RowEnd
<1>4. DOMAIN array = 1..size
  BY DEF ToArguments
<1>5. ASSUME NEW j \in 1..size, start < j, j <= end
      PROVE  array[j] = Append(w, Nul)[j - start]
  <2>1. array[j] = IF Over(j) = {} THEN Nul
                   ELSE Append(words[Max(Over(j))], Nul)[j - Row(Max(Over(j)))]
    BY DEF ToArguments
  <2>2. k \in Over(j) /\ \A m \in Over(j) : m <= k
    <3>1. k \in Over(j)
      BY <1>1, <1>5
    <3>2. ASSUME NEW m \in 1..n, m > k PROVE ~(Row(m) < j)
      <4>1. end <= Row(m) /\ Row(m) \in Nat
        BY <3>2, <1>1, RowsAre
      <4>2. QED
        BY <1>3, <1>5, <4>1
    <3>3. QED
      BY <1>1, <3>1, <3>2
  <2>3. Over(j) \subseteq 0..n
    BY <1>1
  <2> HIDE DEF Over
  <2>4. Max(Over(j)) \in Over(j) /\ k <= Max(Over(j))
    BY <1>1, <2>2, <2>3, MaxIs
  <2>5. Max(Over(j)) \in 0..n
    BY <2>3, <2>4
  <2>6. Max(Over(j)) <= k
    BY <2>2, <2>4
  <2>7. Max(Over(j)) = k
    BY <1>1, <2>4, <2>5, <2>6
  <2>8. QED
    BY <2>1, <2>2, <2>7
<1> DEFINE Ends == {j \in DOMAIN array : j > start /\ array[j] = Nul}
<1> HIDE DEF array, size, start, end, w
<1>6. /\ Len(Append(w, Nul)) = Len(w) + 1 /\ Append(w, Nul)[Len(w) + 1] = Nul
      /\ \A j \in 1..Len(w) : Append(w, Nul)[j] = w[j] /\ w[j] /= Nul
  BY <1>2, AppendProperties, InputAssumption
<1>7. \A j \in 1..size : start < j /\ j < end => array[j] = w[j - start] /\ array[j] /= Nul
  <2> SUFFICES ASSUME NEW j \in 1..size, start < j, j < end
               PROVE  array[j] = w[j - start] /\ array[j] /= Nul
    OBVIOUS
  <2>1. j - start \in 1..Len(w) /\ j <= end
    BY <1>2, <1>3
  <2>2. QED
    BY <1>5, <1>6, <2>1
<1>8. array[end] = Nul /\ end \in 1..size
  <2>1. end \in 1..size /\ start < end /\ end <= end /\ end - start = Len(w) + 1
    BY <1>2, <1>3
  <2>2. QED
    BY <1>5, <1>6, <2>1
<1>9. Ends \subseteq Nat /\ end \in Ends /\ \A j \in Ends : ~(j < end)
  BY <1>2, <1>3, <1>4, <1>7, <1>8
<1>10. Min(Ends) \in Ends /\ Min(Ends) <= end
  <2> HIDE DEF Ends
  <2>1. QED
    BY <1>9, MinIs
<1>11. Min(Ends) = end
  <2>1. Min(Ends) \in Nat /\ ~(Min(Ends) < end) /\ end \in Nat
    BY <1>2, <1>3, <1>9, <1>10
  <2> HIDE DEF Ends
  <2>2. QED
    BY <1>10, <2>1
<1>12. Argument(array, k) = SubSeq(array, start + 1, end - 1)
  BY <1>11 DEF Argument, start
<1> HIDE DEF Ends
<1>13. SubSeq(array, start + 1, end - 1) = w
  <2> DEFINE S == {array[j] : j \in 1..size} \cup Char
             part == SubSeq(array, start + 1, end - 1)
  <2>1. array \in Seq(S) /\ Len(array) = size
    <3>1. array = [j \in 1..size |-> array[j]]
      BY <1>4 DEF array, ToArguments, size
    <3>2. \A j \in 1..size : array[j] \in S
      OBVIOUS
    <3> HIDE DEF S
    <3>3. QED
      BY <1>3, <3>1, <3>2
  <2>2. \A j \in (start + 1)..(end - 1) : array[j] \in S
    BY <1>3
  <2> HIDE DEF S
  <2>3. /\ part \in Seq(S)
        /\ Len(part) = IF start + 1 <= end - 1 THEN (end - 1) - (start + 1) + 1 ELSE 0
        /\ \A j \in 1..Len(part) : part[j] = array[start + 1 + j - 1]
    <3>1. start + 1 \in Int /\ end - 1 \in Int
      BY <1>2, <1>3
    <3>2. QED
      BY <2>1, <2>2, <3>1, SubSeqProperties
  <2>4. Len(part) = Len(w)
    <3>1. CASE Len(w) = 0
      BY <1>2, <1>3, <2>3, <3>1
    <3>2. CASE Len(w) /= 0
      BY <1>2, <1>3, <2>3, <3>2
    <3>3. QED
      BY <3>1, <3>2
  <2>5. ASSUME NEW j \in 1..Len(w)
        PROVE  part[j] = w[j]
    <3>1. /\ start + 1 + j - 1 = start + j /\ start + j \in 1..size
          /\ start < start + j /\ start + j < end /\ (start + j) - start = j
      BY <1>2, <1>3
    <3>2. QED
      BY <1>7, <2>3, <2>4, <3>1
  <2>6. part = w
    <3> HIDE DEF part
    <3>1. part \in Seq(S) /\ w \in Seq(S) /\ Len(part) = Len(w)
      <4>1. Char \subseteq S
        BY DEF S
      <4>2. w \in [1..Len(w) -> S]
        BY <1>2, <4>1
      <4>3. QED
        BY <1>2, <2>3, <2>4, <4>2
    <3>2. \A j \in 1..Len(part) : part[j] = w[j]
      BY <2>4, <2>5
    <3> HIDE DEF S
    <3>3. QED
      BY <3>1, <3>2, SeqEqual
  <2>7. QED
    BY <2>6
<1>14. QED
  BY <1>12, <1>13 DEF array, w

-----------------------------------------------------------------------------
(* Names and commands.                                                     *)

\* The beginning and the end of a line.
LEMMA PartIs ==
    ASSUME NEW s \in Seq(Char), NEW a \in 1..(Len(s) + 1), NEW b \in (a - 1)..Len(s)
    PROVE  /\ SubSeq(s, a, b) \in Seq(Char)
           /\ Len(SubSeq(s, a, b)) = (b - a) + 1
           /\ \A j \in 1..((b - a) + 1) : SubSeq(s, a, b)[j] = s[(a - 1) + j]
<1>1. Len(s) \in Nat /\ a \in Int /\ b \in Int /\ \A i \in a..b : s[i] \in Char
  BY LenProperties, ElementOfSeq
<1>2. /\ SubSeq(s, a, b) \in Seq(Char)
      /\ Len(SubSeq(s, a, b)) = IF a <= b THEN (b - a) + 1 ELSE 0
      /\ \A i \in 1..((b - a) + 1) : SubSeq(s, a, b)[i] = s[(a + i) - 1]
  BY <1>1, SubSeqProperties
<1>3. \A i \in 1..((b - a) + 1) : (a + i) - 1 = (a - 1) + i
  BY <1>1
<1>4. Len(SubSeq(s, a, b)) = (b - a) + 1
  BY <1>1, <1>2
<1>5. QED
  BY <1>2, <1>3, <1>4

\* strncpy() copies a name that fits as it is, and no more than the buffer holds.
LEMMA CopyOfNameIs ==
    ASSUME NEW s \in Seq(Char)
    PROVE  /\ CopyOfName(s) \in Seq(Char) /\ Len(CopyOfName(s)) <= NameSize
           /\ Len(s) < NameSize => CopyOfName(s) = s
<1>1. Len(s) \in Nat /\ NameSize \in Nat
  BY LenProperties, InputAssumption
<1>2. CASE Len(s) < NameSize
  <2>1. CopyOfName(s) = SubSeq(s, 1, Len(s)) /\ SubSeq(s, 1, Len(s)) = s
    BY <1>1, <1>2 DEF CopyOfName
  <2>2. QED
    BY <1>1, <1>2, <2>1
<1>3. CASE ~(Len(s) < NameSize)
  <2>1. CopyOfName(s) = SubSeq(s, 1, NameSize)
    BY <1>3 DEF CopyOfName
  <2>2. 1 \in 1..(Len(s) + 1) /\ NameSize \in (1 - 1)..Len(s) /\ (NameSize - 1) + 1 = NameSize
    BY <1>1, <1>3
  <2>3. SubSeq(s, 1, NameSize) \in Seq(Char) /\ Len(SubSeq(s, 1, NameSize)) = NameSize
    BY <2>2, PartIs
  <2>4. QED
    BY <1>1, <1>3, <2>1, <2>3
<1>4. QED
  BY <1>2, <1>3

\* A character that is typed is one that memory can hold.
LEMMA CharsAreBytes ==
    ASSUME NEW s \in Seq(Char)
    PROVE  s \in Seq(Byte)
<1>1. Len(s) \in Nat /\ s \in [1..Len(s) -> Char] /\ Char \subseteq Byte
  BY LenProperties, InputAssumption
<1>2. s \in [1..Len(s) -> Byte]
  BY <1>1
<1>3. QED
  BY <1>1, <1>2

\* A name with what is left behind it.
LEMMA NameIsRead ==
    ASSUME NEW s \in Seq(Char), NEW left \in Leftover
    PROVE  /\ CopyOfName(s) \o left \in Seq(Byte)
           /\ Len(s) < NameSize => CopyOfName(s) \o left \in ReadsOf(s)
<1>1. CopyOfName(s) \in Seq(Byte) /\ left \in Seq(Byte)
  BY CopyOfNameIs, CharsAreBytes, InputAssumption
<1>2. CopyOfName(s) \o left \in Seq(Byte)
  BY <1>1, ConcatProperties
<1>3. QED
  BY <1>2, CopyOfNameIs DEF ReadsOf

\* strchr() and the loop behind it.
LEMMA AtIs ==
    ASSUME NEW s \in Seq(Char)
    PROVE  LET i == SelectInSeq(s, LAMBDA ch : ch = At)
           IN  /\ i \in 0..Len(s)
               /\ i = 0 => \A j \in 1..Len(s) : s[j] /= At
               /\ i /= 0 => s[i] = At /\ \A j \in 1..(i - 1) : s[j] /= At
<1> DEFINE Ats == {i \in 1..Len(s) : s[i] = At}
           i == SelectInSeq(s, LAMBDA ch : ch = At)
<1>1. Len(s) \in Nat /\ Ats \subseteq Nat
  BY LenProperties
<1>2. i = IF Ats /= {} THEN Min(Ats) ELSE 0
  BY DEF SelectInSeq
<1> HIDE DEF i
<1>3. /\ i \in 0..Len(s)
      /\ i = 0 => \A j \in 1..Len(s) : s[j] /= At
      /\ i /= 0 => s[i] = At /\ \A j \in 1..(i - 1) : s[j] /= At
  <2>1. CASE Ats = {}
    BY <1>1, <1>2, <2>1
  <2>2. CASE Ats /= {}
    <3>1. Min(Ats) \in Ats /\ \A j \in Ats : Min(Ats) <= j
      <4> HIDE DEF Ats
      <4>1. QED
        BY <1>1, <2>2, MinIs
    <3>2. i \in Ats /\ \A j \in Ats : i <= j
      <4> HIDE DEF Ats
      <4>1. QED
        BY <1>2, <2>2, <3>1
    <3>3. i \in 1..Len(s) /\ s[i] = At
      BY <3>2
    <3>4. \A j \in 1..(i - 1) : s[j] /= At
      BY <1>1, <3>2, <3>3
    <3>5. QED
      BY <1>1, <3>3, <3>4
  <2>3. QED
    BY <2>1, <2>2
<1>4. QED
  BY <1>3 DEF i

\* parseUserHost() writes no more than the buffers hold, except for a word
\* without '@'.
LEMMA ParseUserHostIs ==
    ASSUME NEW s \in Seq(Char), NEW old \in Uninitialised
    PROVE  LET target == ParseUserHost(s, old)
           IN  /\ target.user \in Seq(Byte) /\ target.host \in Seq(Byte)
               /\ target.fits \in BOOLEAN /\ target.found \in BOOLEAN
               /\ ~target.fits => ~(Len(s) < NameSize)
               /\ \A p \in 1..Len(s) :
                     s[p] = At /\ (\A j \in 1..Len(s) : j /= p => s[j] /= At) =>
                        /\ target.found /\ target.fits
                        /\ target.user = CopyOfName(SubSeq(s, 1, p - 1)) \o old.user
                        /\ target.host = CopyOfName(SubSeq(s, p + 1, Len(s))) \o old.host
<1> DEFINE target == ParseUserHost(s, old)
<1>1. PICK i : i = SelectInSeq(s, LAMBDA ch : ch = At)
  OBVIOUS
<1>2. /\ i \in 0..Len(s) /\ Len(s) \in Nat
      /\ i = 0 => \A j \in 1..Len(s) : s[j] /= At
      /\ i /= 0 => s[i] = At
  BY <1>1, AtIs, LenProperties
<1>3. target = IF i = 0
               THEN [found |-> FALSE, fits |-> Len(s) < NameSize,
                     user |-> s, host |-> old.host]
               ELSE [found |-> TRUE, fits |-> TRUE,
                     user |-> CopyOfName(SubSeq(s, 1, i - 1)) \o old.user,
                     host |-> CopyOfName(SubSeq(s, i + 1, Len(s))) \o old.host]
  BY <1>1 DEF ParseUserHost
<1> HIDE DEF target
<1>4. CASE i = 0
  <2>1. /\ target.found = FALSE /\ target.fits = (Len(s) < NameSize)
        /\ target.user = s /\ target.host = old.host
    BY <1>3, <1>4
  <2>2. old.host \in Seq(Byte)
    BY InputAssumption DEF Uninitialised
  <2>3. s \in Seq(Byte)
    BY CharsAreBytes
  <2>4. \A p \in 1..Len(s) : s[p] /= At
    BY <1>2, <1>4
  <2>5. target.fits \in BOOLEAN /\ (~target.fits => ~(Len(s) < NameSize))
    <3>1. (Len(s) < NameSize) \in BOOLEAN
      OBVIOUS
    <3>2. QED
      BY <2>1, <3>1, Zenon
  <2>6. QED
    BY <2>1, <2>2, <2>3, <2>4, <2>5 DEF target
<1>5. CASE i /= 0
  <2>1. /\ target.found = TRUE /\ target.fits = TRUE
        /\ target.user = CopyOfName(SubSeq(s, 1, i - 1)) \o old.user
        /\ target.host = CopyOfName(SubSeq(s, i + 1, Len(s))) \o old.host
    BY <1>3, <1>5
  <2>2. SubSeq(s, 1, i - 1) \in Seq(Char) /\ SubSeq(s, i + 1, Len(s)) \in Seq(Char)
    <3>1. /\ 1 \in 1..(Len(s) + 1) /\ i - 1 \in (1 - 1)..Len(s)
          /\ i + 1 \in 1..(Len(s) + 1) /\ Len(s) \in ((i + 1) - 1)..Len(s)
      BY <1>2, <1>5
    <3>2. QED
      BY <3>1, PartIs
  <2>3. \A p \in 1..Len(s) : (\A j \in 1..Len(s) : j /= p => s[j] /= At) => p = i
    BY <1>2, <1>5
  <2>4. target.user \in Seq(Byte) /\ target.host \in Seq(Byte)
    BY <2>1, <2>2, NameIsRead DEF Uninitialised
  <2>5. QED
    BY <2>1, <2>3, <2>4 DEF target
<1>6. QED
  BY <1>4, <1>5

\* The last word is read back as it was written.
LEMMA LastArgumentIs ==
    ASSUME NEW words \in WordsSoFar, WordsFit(words)
    PROVE  /\ Len(words) \in 1..Len(words) /\ words[Len(words)] \in Seq(Char)
           /\ Argument(ToArguments(words), Len(words)) = words[Len(words)]
<1>1. words \in Seq(Seq(Char)) /\ Len(words) \in Nat /\ Len(words) >= 1
  BY LenProperties DEF WordsSoFar
<1>2. Len(words) \in 1..Len(words) /\ Len(words) \in DOMAIN words
  BY <1>1, LenProperties
<1>3. words[Len(words)] \in Seq(Char)
  BY <1>1, <1>2, ElementOfSeq
<1>4. RowEnd(Len(words), words[Len(words)]) <= Row(MaxWords + 1)
  BY <1>2 DEF WordsFit
<1>5. \A m \in 1..Len(words) : ~(m > Len(words))
  BY <1>1
<1>6. QED
  BY <1>2, <1>3, <1>4, <1>5, ArgumentIs

\* What getToLine() looks at.
TypesOf(line) ==
    CommandOf(IF Len(Words(line)) = 1 THEN StatusType ELSE RequestType,
              Argument(ToArguments(Words(line)), 1))

TargetOf(line, old) == ParseUserHost(Words(line)[Len(Words(line))], old)

\* The returns of getToLine(), in their order.
LEMMA GetToLineReturns ==
    ASSUME NEW line \in Seq(Char), NEW to \in GetToLine(line)
    PROVE  \E old \in Uninitialised :
           LET n == Len(Words(line))
               type == CHOOSE t \in TypesOf(line) : TRUE
           IN  /\ ~WordsFit(Words(line)) =>
                     to = [Nobody("unknown") EXCEPT !.fits = FALSE]
               /\ WordsFit(Words(line)) =>
                     /\ n > 2 => to = Nobody("unknown")
                     /\ n = 1 /\ TypesOf(line) /= {} => to = Nobody(type)
                     /\ n = 1 /\ TypesOf(line) = {} /\ TargetOf(line, old).found =>
                           to = Target("message", TargetOf(line, old))
                     /\ n = 2 /\ TypesOf(line) /= {} /\ TargetOf(line, old).found =>
                           to = Target(type, TargetOf(line, old))
                     /\ n \in {1, 2} /\ ~TargetOf(line, old).found =>
                           (n = 1 /\ TypesOf(line) /= {}) \/
                           to = Target("unknown", TargetOf(line, old))
                     /\ n = 2 /\ TypesOf(line) = {} =>
                           to = Target("unknown", TargetOf(line, old))
<1> DEFINE words == Words(line)
           n == Len(words)
           types == TypesOf(line)
           type == CHOOSE t \in types : TRUE
           read(old) == ParseUserHost(Argument(ToArguments(words), n), old)
<1>1. words \in WordsSoFar
  BY WordsOfLine
<1>2. PICK old \in Uninitialised :
      to = IF ~WordsFit(words) THEN [Nobody("unknown") EXCEPT !.fits = FALSE]
           ELSE IF n > 2 THEN Nobody("unknown")
           ELSE IF n = 1 /\ types /= {} THEN Nobody(type)
           ELSE IF ~read(old).found THEN Target("unknown", read(old))
           ELSE IF n = 1 THEN Target("message", read(old))
           ELSE Target(IF types = {} THEN "unknown" ELSE type, read(old))
  BY Zenon DEF GetToLine, TypesOf
<1> DEFINE target == TargetOf(line, old)
<1>3. WordsFit(words) => read(old) = target
  BY <1>1, LastArgumentIs DEF TargetOf
<1>4. ~(1 > 2) /\ ~(2 > 2) /\ 2 /= 1
  OBVIOUS
<1> HIDE DEF words, n, types, type, read, target
<1>5. ~WordsFit(words) => to = [Nobody("unknown") EXCEPT !.fits = FALSE]
  BY <1>2, Zenon
<1>6. WordsFit(words) =>
         to = IF n > 2 THEN Nobody("unknown")
              ELSE IF n = 1 /\ types /= {} THEN Nobody(type)
              ELSE IF ~target.found THEN Target("unknown", target)
              ELSE IF n = 1 THEN Target("message", target)
              ELSE Target(IF types = {} THEN "unknown" ELSE type, target)
  BY <1>2, <1>3, Zenon
<1>7. ASSUME WordsFit(words)
      PROVE  /\ n > 2 => to = Nobody("unknown")
             /\ n = 1 /\ types /= {} => to = Nobody(type)
             /\ n = 1 /\ types = {} /\ target.found => to = Target("message", target)
             /\ n = 2 /\ types /= {} /\ target.found => to = Target(type, target)
             /\ n \in {1, 2} /\ ~target.found =>
                   (n = 1 /\ types /= {}) \/ to = Target("unknown", target)
             /\ n = 2 /\ types = {} => to = Target("unknown", target)
  <2>1. n > 2 => to = Nobody("unknown")
    BY <1>6, <1>7, Zenon
  <2>2. n = 1 /\ types /= {} => to = Nobody(type)
    BY <1>4, <1>6, <1>7, Zenon
  <2>3. n = 1 /\ types = {} /\ target.found => to = Target("message", target)
    BY <1>4, <1>6, <1>7, Zenon
  <2>4. n = 2 /\ types /= {} /\ target.found => to = Target(type, target)
    BY <1>4, <1>6, <1>7, Zenon
  <2>5. n \in {1, 2} /\ ~target.found =>
           (n = 1 /\ types /= {}) \/ to = Target("unknown", target)
    BY <1>4, <1>6, <1>7, Zenon
  <2>6. n = 2 /\ types = {} => to = Target("unknown", target)
    BY <1>4, <1>6, <1>7, Zenon
  <2>7. QED
    BY <2>1, <2>2, <2>3, <2>4, <2>5, <2>6
<1>8. QED
  BY <1>5, <1>7, Zenon DEF words, n, types, type, target

\* It names a type, and writes names that fit unless it says that they do not.
LEMMA GetToLineType ==
    ASSUME NEW line \in Seq(Char), NEW to \in GetToLine(line)
    PROVE  /\ to.type \in {"unknown", "message"} \cup DOMAIN Command
           /\ to.user \in Seq(Byte) /\ to.host \in Seq(Byte)
           /\ to.fits \in BOOLEAN
           /\ ~to.fits =>
                 \/ ~WordsFit(Words(line))
                 \/ ~(Len(Words(line)[Len(Words(line))]) < NameSize)
<1> DEFINE words == Words(line)
           n == Len(words)
           types == TypesOf(line)
           type == CHOOSE t \in types : TRUE
           Type == {"unknown", "message"} \cup DOMAIN Command
           Right(r) == /\ r.type \in Type
                       /\ r.user \in Seq(Byte) /\ r.host \in Seq(Byte)
                       /\ r.fits \in BOOLEAN
<1>1. types \subseteq Type
  BY InputAssumption DEF TypesOf, CommandOf
<1>2. types /= {} => type \in Type
  <2> HIDE DEF types, Type
  <2>1. QED
    BY <1>1
<1>3. \A t \in Type : Right(Nobody(t)) /\ Nobody(t).fits
  <2>1. <<>> \in Seq(Byte)
    OBVIOUS
  <2>2. QED
    BY <2>1 DEF Nobody
<1>4. words \in WordsSoFar /\ n \in Nat /\ n >= 1
  BY WordsOfLine, LenProperties DEF WordsSoFar
<1>5. PICK old \in Uninitialised : LET target == TargetOf(line, old) IN
      /\ ~WordsFit(words) => to = [Nobody("unknown") EXCEPT !.fits = FALSE]
      /\ WordsFit(words) =>
            /\ n > 2 => to = Nobody("unknown")
            /\ n = 1 /\ types /= {} => to = Nobody(type)
            /\ n = 1 /\ types = {} /\ target.found => to = Target("message", target)
            /\ n = 2 /\ types /= {} /\ target.found => to = Target(type, target)
            /\ n \in {1, 2} /\ ~target.found =>
                  (n = 1 /\ types /= {}) \/ to = Target("unknown", target)
            /\ n = 2 /\ types = {} => to = Target("unknown", target)
  BY GetToLineReturns, Zenon
<1> DEFINE target == TargetOf(line, old)
<1>6. WordsFit(words) =>
         /\ target.user \in Seq(Byte) /\ target.host \in Seq(Byte)
         /\ target.fits \in BOOLEAN /\ target.found \in BOOLEAN
         /\ ~target.fits => ~(Len(words[n]) < NameSize)
  <2>1. WordsFit(words) => words[n] \in Seq(Char)
    BY <1>4, LastArgumentIs
  <2>2. QED
    BY <2>1, ParseUserHostIs DEF TargetOf
<1> HIDE DEF words, n, types, type, target
<1>7. CASE ~WordsFit(words)
  <2>1. /\ to.type = "unknown" /\ to.user = <<>> /\ to.host = <<>> /\ to.fits = FALSE
    BY <1>5, <1>7 DEF Nobody
  <2>2. Right(to)
    <3>1. <<>> \in Seq(Byte) /\ "unknown" \in Type
      OBVIOUS
    <3>2. QED
      BY <2>1, <3>1
  <2> HIDE DEF Right
  <2>3. QED
    BY <1>7, <2>2 DEF words, Right
<1>8. CASE WordsFit(words)
  <2>1. \A t : /\ Target(t, target).type = t
               /\ Target(t, target).user = target.user
               /\ Target(t, target).host = target.host
               /\ Target(t, target).fits = target.fits
    BY DEF Target
  <2>2. \A t \in Type : /\ Right(Target(t, target))
                        /\ ~Target(t, target).fits => ~(Len(words[n]) < NameSize)
    BY <1>6, <1>8, <2>1
  <2>3. n > 2 \/ n = 1 \/ n = 2
    BY <1>4
  <2>4. "unknown" \in Type /\ "message" \in Type
    OBVIOUS
  <2> HIDE DEF Right, Type
  <2>5. \E t \in Type : to = Nobody(t) \/ to = Target(t, target)
    <3>1. CASE n > 2
      BY <1>5, <1>8, <2>4, <3>1
    <3>2. CASE n = 1
      BY <1>2, <1>5, <1>6, <1>8, <2>4, <3>2 DEF target
    <3>3. CASE n = 2
      BY <1>2, <1>5, <1>6, <1>8, <2>4, <3>3 DEF target
    <3>4. QED
      BY <2>3, <3>1, <3>2, <3>3
  <2>6. Right(to) /\ (~to.fits => ~(Len(words[n]) < NameSize))
    BY <1>3, <2>2, <2>5
  <2>7. QED
    BY <2>6 DEF Right, Type, words, n
<1>9. QED
  BY <1>7, <1>8

-----------------------------------------------------------------------------
(* What is too long.                                                       *)

LongLine(line) ==
    \/ Cardinality({i \in DOMAIN line : line[i] = Blank}) >= MaxWords
    \/ \E i \in 1..(Len(line) - NameSize + 1) :
          \A j \in i..(i + NameSize - 1) : line[j] /= Blank

\* A word that is not shorter than a name's buffer is such a run,
LEMMA LongWordIsRun ==
    ASSUME NEW line \in Seq(Char), NEW word \in Seq(Char), NEW b \in Nat,
           b + Len(word) <= Len(line), IsRun(line, word, b), ~(Len(word) < NameSize)
    PROVE  LongLine(line)
<1>1. Len(line) \in Nat /\ Len(word) \in Nat /\ NameSize \in Nat
  BY LenProperties, InputAssumption
<1>2. b + 1 \in 1..(Len(line) - NameSize + 1)
  BY <1>1
<1>3. ASSUME NEW j \in (b + 1)..(b + 1 + NameSize - 1)
      PROVE  line[j] /= Blank
  <2>1. j - b \in 1..Len(word) /\ b + (j - b) = j
    BY <1>1
  <2>2. QED
    BY <2>1 DEF IsRun
<1>4. QED
  BY <1>2, <1>3 DEF LongLine

\* and if there is none, only a row too many runs over the end of the array.
LEMMA OnlyLongLinesDoNotFit ==
    ASSUME NEW line \in Seq(Char), NEW to \in GetToLine(line), ~to.fits
    PROVE  LongLine(line)
<1> DEFINE words == Words(line)
           n == Len(words)
<1>1. /\ words \in WordsSoFar /\ n \in Nat /\ n >= 1 /\ DOMAIN words = 1..n
      /\ \A k \in 1..n : words[k] \in Seq(Char) /\ Len(words[k]) \in Nat
  <2>1. words \in WordsSoFar /\ words \in Seq(Seq(Char)) /\ n >= 1
    BY WordsOfLine DEF WordsSoFar
  <2>2. n \in Nat /\ DOMAIN words = 1..n
    BY <2>1, LenProperties
  <2>3. \A k \in 1..n : words[k] \in Seq(Char)
    BY <2>1, ElementOfSeq
  <2>4. QED
    BY <2>1, <2>2, <2>3, LenProperties
<1>2. /\ Cardinality(Blanks(line, Len(line))) = n - 1
      /\ \A k \in 1..n :
            \E b \in Nat : b + Len(words[k]) <= Len(line) /\ IsRun(line, words[k], b)
  BY WordsOfLine DEF AreWordsOf
<1>3. Blanks(line, Len(line)) = {i \in DOMAIN line : line[i] = Blank}
  BY LenProperties DEF Blanks
<1>4. ~WordsFit(words) \/ ~(Len(words[n]) < NameSize)
  BY GetToLineType
<1> HIDE DEF words, n
<1>5. CASE \E k \in 1..n : ~(Len(words[k]) < NameSize)
  BY <1>1, <1>2, <1>5, LongWordIsRun
<1>6. CASE \A k \in 1..n : Len(words[k]) < NameSize
  <2>1. n \in 1..n
    BY <1>1
  <2>2. PICK k \in 1..n : ~(RowEnd(k, words[k]) <= Row(MaxWords + 1))
    BY <1>1, <1>4, <1>6, <2>1 DEF WordsFit
  <2>3. Row(k) \in Nat /\ Row(k + 1) = Row(k) + WordSize
    <3>1. k \in Nat \ {0}
      BY <1>1
    <3>2. QED
      BY <3>1, RowsAre
  <2>4. RowEnd(k, words[k]) <= Row(k + 1)
    <3>1. Len(words[k]) < NameSize /\ Len(words[k]) \in Nat
      BY <1>1, <1>6
    <3>2. QED
      BY <2>3, <3>1, InputAssumption DEF RowEnd
  <2>5. ~(k + 1 <= MaxWords + 1)
    <3>1. ASSUME k + 1 <= MaxWords + 1
          PROVE  Row(k + 1) <= Row(MaxWords + 1)
      <4>1. k + 1 \in Nat \ {0} /\ MaxWords + 1 \in Nat
        BY <1>1, InputAssumption
      <4>2. QED
        BY <3>1, <4>1, RowsAre
    <3>2. /\ Row(k + 1) \in Nat /\ Row(MaxWords + 1) \in Nat
          /\ RowEnd(k, words[k]) \in Nat
      <4>1. k + 1 \in Nat \ {0} /\ MaxWords + 1 \in Nat \ {0}
        BY <1>1, InputAssumption
      <4>2. Row(k + 1) \in Nat /\ Row(MaxWords + 1) \in Nat
        BY <4>1, RowsAre
      <4>3. RowEnd(k, words[k]) \in Nat
        BY <1>1, <2>3 DEF RowEnd
      <4>4. QED
        BY <4>2, <4>3
    <3>3. QED
      BY <2>2, <2>4, <3>1, <3>2
  <2>6. n - 1 >= MaxWords
    BY <1>1, <2>5, InputAssumption
  <2>7. QED
    BY <1>2, <1>3, <2>6 DEF LongLine
<1>7. QED
  BY <1>5, <1>6

-----------------------------------------------------------------------------
(* The keys.                                                               *)

\* The lines in their windows.
LinesFit ==
    /\ to_line \in Seq(Char) /\ Len(to_line) <= MaxToChars
    /\ msg_line \in Seq(Char) /\ Len(msg_line) <= MaxMsgChars

\* backspace() in either window.
LEMMA BackspaceKeeps ==
    ASSUME LinesFit, CursorsAtLineEnds, Backspace
    PROVE  (LinesFit /\ CursorsAtLineEnds)'
<1>1. CASE top = "to" /\ to_i > 0
  <2>1. to_line' = Erased(to_line, Len(to_line) - 1) /\ to_i' = Len(to_line) - 1
    BY <1>1 DEF Backspace, CursorMoved, CursorsAtLineEnds
  <2>2. UNCHANGED <<msg_line, msg_i>>
    BY <1>1 DEF Backspace
  <2>3. /\ to_line' \in Seq(Char) /\ Len(to_line') = Len(to_line) - 1
    BY <1>1, <2>1, ErasedLast DEF LinesFit, CursorsAtLineEnds
  <2>4. QED
    BY <2>1, <2>2, <2>3, InputAssumption, LenProperties DEF LinesFit, CursorsAtLineEnds
<1>2. CASE top = "msg" /\ msg_i > 0
  <2>1. msg_line' = Erased(msg_line, Len(msg_line) - 1) /\ msg_i' = Len(msg_line) - 1
    BY <1>2 DEF Backspace, CursorMoved, CursorsAtLineEnds
  <2>2. UNCHANGED <<to_line, to_i>>
    BY <1>2 DEF Backspace
  <2>3. /\ msg_line' \in Seq(Char) /\ Len(msg_line') = Len(msg_line) - 1
    BY <1>2, <2>1, ErasedLast DEF LinesFit, CursorsAtLineEnds
  <2>4. QED
    BY <2>1, <2>2, <2>3, InputAssumption, LenProperties DEF LinesFit, CursorsAtLineEnds
<1>3. CASE ~(top = "to" /\ to_i > 0) /\ ~(top = "msg" /\ msg_i > 0)
  BY <1>3 DEF Backspace, LinesFit, CursorsAtLineEnds
<1>4. QED
  BY <1>1, <1>2, <1>3

\* addCharacter() in either window.
LEMMA AddCharacterKeeps ==
    ASSUME LinesFit, CursorsAtLineEnds, NEW ch \in Char, AddCharacter(ch)
    PROVE  (LinesFit /\ CursorsAtLineEnds)'
<1>1. CASE top = "to" /\ HasRoom(to_line, MaxToChars)
  <2>1. /\ to_line' = Append(to_line, ch) /\ to_i' = Len(to_line) + 1
        /\ UNCHANGED <<msg_line, msg_i>>
    BY <1>1 DEF AddCharacter, CursorsAtLineEnds
  <2>2. QED
    BY <1>1, <2>1, AppendedLine, InputAssumption DEF LinesFit, CursorsAtLineEnds
<1>2. CASE top = "msg" /\ HasRoom(msg_line, MaxMsgChars)
  <2>1. /\ msg_line' = Append(msg_line, ch) /\ msg_i' = Len(msg_line) + 1
        /\ UNCHANGED <<to_line, to_i>>
    BY <1>2 DEF AddCharacter, CursorsAtLineEnds
  <2>2. QED
    BY <1>2, <2>1, AppendedLine, InputAssumption DEF LinesFit, CursorsAtLineEnds
<1>3. CASE /\ ~(top = "to" /\ HasRoom(to_line, MaxToChars))
           /\ ~(top = "msg" /\ HasRoom(msg_line, MaxMsgChars))
  BY <1>3 DEF AddCharacter, LinesFit, CursorsAtLineEnds
<1>4. QED
  BY <1>1, <1>2, <1>3

\* A key that is not Return leaves no result, and overruns nothing.
LEMMA NothingIsRead ==
    ASSUME LinesFit', CursorsAtLineEnds', top' \in {"to", "msg"}, result' = NoResult,
           overrun' = FALSE
    PROVE  IInv'
<1>1. to_i' \in Nat /\ msg_i' \in Nat
  BY LenProperties DEF LinesFit, CursorsAtLineEnds
<1>2. <<>> \in Seq(Byte)
  OBVIOUS
<1>3. /\ NoResult.type = "none" /\ NoResult.user = <<>> /\ NoResult.host = <<>>
      /\ ~NoResult.sent
  BY DEF NoResult
<1>4. TypeOK'
  BY <1>1, <1>2, <1>3 DEF TypeOK, LinesFit
<1>5. QED
  BY <1>3, <1>4 DEF IInv, SentIsShown, OverrunNeedsLongLine

\* What the client does with what getToLine() returned.
ResultOf(to, connected) ==
    LET sent == to.type = "message" /\ connected
    IN  [type |-> to.type, user |-> to.user, host |-> to.host,
         msg |-> msg_line, sent |-> sent,
         shown |-> <<[to |-> to_line, text |-> msg_line]>>
                   \o IF sent THEN <<[to |-> to.user, text |-> msg_line]>> ELSE <<>>]

\* Return: both lines are cleared with their cursors, or nothing happens to
\* them; what is sent is the message line; and only a long line overruns.
LEMMA ReturnKeeps ==
    ASSUME IInv, NEW connected \in BOOLEAN, Return(connected)
    PROVE  IInv'
<1>0. PICK to \in GetToLine(to_line) : 
         /\ overrun' = ~to.fits /\ top' = top
         /\ to.fits =>
               /\ to_line' = <<>> /\ to_i' = 0 /\ msg_line' = <<>> /\ msg_i' = 0
               /\ result' = ResultOf(to, connected)
         /\ ~to.fits => result' = NoResult /\ UNCHANGED <<to_line, to_i, msg_line, msg_i>>
  BY DEF Return, MsgLine, ResultOf
<1> DEFINE sent == to.type = "message" /\ connected
           first == [to |-> to_line, text |-> msg_line]
           second == [to |-> to.user, text |-> msg_line]
<1>1. LinesFit /\ top \in {"to", "msg"} /\ CursorsAtLineEnds /\ to_i \in Nat /\ msg_i \in Nat
  BY DEF IInv, TypeOK, LinesFit
<1>2. /\ to.type \in {"unknown", "message"} \cup DOMAIN Command
      /\ to.user \in Seq(Byte) /\ to.host \in Seq(Byte)
      /\ to.fits \in BOOLEAN
  BY <1>0, <1>1, GetToLineType DEF LinesFit
<1>3. overrun' = ~to.fits /\ top' = top
  BY <1>0
<1>4. CASE to.fits
  <2>1. to_line' = <<>> /\ to_i' = 0 /\ msg_line' = <<>> /\ msg_i' = 0
    BY <1>0, <1>4
  <2>2. /\ result'.type = to.type /\ result'.user = to.user /\ result'.host = to.host
        /\ result'.sent = sent /\ result'.msg = msg_line
        /\ result'.shown = <<first>> \o IF sent THEN <<second>> ELSE <<>>
    BY <1>0, <1>4 DEF ResultOf
  <2>3. TypeOK' /\ CursorsAtLineEnds'
    BY <1>1, <1>2, <1>3, <2>1, <2>2, ClearedLine, InputAssumption DEF TypeOK, CursorsAtLineEnds
  <2>4. first.text = msg_line /\ second.text = msg_line
    OBVIOUS
  <2> HIDE DEF sent, first, second
  <2>5. ASSUME sent
        PROVE  Len(result'.shown) = 2 /\ \A i \in 1..2 : result'.shown[i].text = msg_line
    <3>1. result'.shown = <<first>> \o <<second>>
      BY <2>2, <2>5
    <3>2. Len(result'.shown) = 2 /\ \A i \in 1..2 : result'.shown[i] \in {first, second}
      BY <3>1, PairOfLines
    <3>3. QED
      BY <2>4, <3>2
  <2>6. SentIsShown'
    BY <2>2, <2>5 DEF SentIsShown
  <2>7. OverrunNeedsLongLine'
    BY <1>3, <1>4 DEF OverrunNeedsLongLine
  <2>8. QED
    BY <2>3, <2>6, <2>7 DEF IInv
<1>5. CASE ~to.fits
  <2>1. result' = NoResult /\ UNCHANGED <<to_line, to_i, msg_line, msg_i>>
    BY <1>0, <1>5
  <2>2. LongLine(to_line')
    BY <1>0, <1>1, <1>5, <2>1, OnlyLongLinesDoNotFit DEF LinesFit
  <2>3. OverrunNeedsLongLine'
    BY <2>2 DEF OverrunNeedsLongLine, LongLine
  <2>4. /\ NoResult.type = "none" /\ NoResult.user = <<>> /\ NoResult.host = <<>>
        /\ ~NoResult.sent /\ <<>> \in Seq(Byte)
    BY DEF NoResult
  <2>5. TypeOK'
    BY <1>1, <1>2, <1>3, <1>5, <2>1, <2>4 DEF TypeOK, LinesFit
  <2>6. QED
    BY <1>1, <2>1, <2>3, <2>4, <2>5 DEF IInv, CursorsAtLineEnds, SentIsShown
<1>6. QED
  BY <1>4, <1>5

\* The invariant is inductive: it holds at first,
LEMMA InitInvariant == Init => IInv
<1> SUFFICES ASSUME Init PROVE IInv
  OBVIOUS
<1>1. /\ <<>> \in Seq(Char) /\ Len(<<>>) = 0
      /\ <<>> \in Seq(Byte) /\ 0 <= MaxToChars /\ 0 <= MaxMsgChars
  BY InputAssumption
<1>2. /\ NoResult.type = "none" /\ NoResult.user = <<>> /\ NoResult.host = <<>>
      /\ ~NoResult.sent
  BY DEF NoResult
<1>3. TypeOK
  BY <1>1, <1>2 DEF Init, TypeOK
<1>4. QED
  BY <1>1, <1>2, <1>3 DEF Init, IInv, CursorsAtLineEnds, SentIsShown, OverrunNeedsLongLine

\* and every key keeps it.
LEMMA StepInvariant == IInv /\ [Next]_vars => IInv'
<1> SUFFICES ASSUME IInv, [Next]_vars PROVE IInv'
  OBVIOUS
<1>1. LinesFit /\ CursorsAtLineEnds /\ top \in {"to", "msg"} /\ overrun \in BOOLEAN
  BY DEF IInv, TypeOK, LinesFit
<1>2. ASSUME result' = NoResult, ~overrun, overrun' = overrun, top' \in {"to", "msg"},
             (LinesFit /\ CursorsAtLineEnds)'
      PROVE  IInv'
  <2>1. LinesFit' /\ CursorsAtLineEnds' /\ overrun' = FALSE
    BY <1>1, <1>2
  <2>2. QED
    BY <1>2, <2>1, NothingIsRead
<1>3. CASE Tab
  BY <1>1, <1>2, <1>3 DEF Tab, LinesFit, CursorsAtLineEnds
<1>4. CASE Backspace
  BY <1>1, <1>2, <1>4, BackspaceKeeps DEF Backspace
<1>5. ASSUME NEW ch \in Char, AddCharacter(ch) PROVE IInv'
  BY <1>1, <1>2, <1>5, AddCharacterKeeps DEF AddCharacter
<1>6. ASSUME NEW connected \in BOOLEAN, Return(connected) PROVE IInv'
  BY <1>6, ReturnKeeps
<1>7. CASE UNCHANGED vars
  BY <1>7 DEF vars, IInv, TypeOK, CursorsAtLineEnds, SentIsShown, OverrunNeedsLongLine
<1>8. QED
  BY <1>3, <1>4, <1>5, <1>6, <1>7 DEF Next

\* The inductive invariant holds after every sequence of keys.
LEMMA Invariance == Spec => []IInv
  BY InitInvariant, StepInvariant, PTL DEF Spec

\* Both lines fit their windows, and what getToLine() returns is a command or
\* a message with names.
THEOREM TypeCorrect == Spec => []TypeOK
<1>1. IInv => TypeOK
  BY DEF IInv
<1>2. QED
  BY <1>1, Invariance, PTL

\* Each cursor is the length of its line, so erase() never throws.
THEOREM CursorsStayAtLineEnds == Spec => []CursorsAtLineEnds
<1>1. IInv => CursorsAtLineEnds
  BY DEF IInv
<1>2. QED
  BY <1>1, Invariance, PTL

\* A message that is sent has been shown as it was typed and as it was sent.
THEOREM SentMessagesAreShown == Spec => []SentIsShown
<1>1. IInv => SentIsShown
  BY DEF IInv
<1>2. QED
  BY <1>1, Invariance, PTL

\* Only a line with too many blanks, or with a word as long as a name's buffer,
\* makes Return write behind an array.
THEOREM OnlyLongLinesOverrun == Spec => []OverrunNeedsLongLine
<1>1. IInv => OverrunNeedsLongLine
  BY DEF IInv
<1>2. QED
  BY <1>1, Invariance, PTL

-----------------------------------------------------------------------------
(* What a line says is what getToLine() reads.                             *)

\* The part of a line that SubSeq() takes.
LEMMA PartsAre ==
    ASSUME NEW s \in Seq(Char), NEW p \in 1..Len(s)
    PROVE  /\ SubSeq(s, 1, p - 1) \in Seq(Char) /\ Len(SubSeq(s, 1, p - 1)) = p - 1
           /\ \A j \in 1..(p - 1) : SubSeq(s, 1, p - 1)[j] = s[j]
           /\ SubSeq(s, p + 1, Len(s)) \in Seq(Char)
           /\ Len(SubSeq(s, p + 1, Len(s))) = Len(s) - p
           /\ \A j \in 1..(Len(s) - p) : SubSeq(s, p + 1, Len(s))[j] = s[p + j]
<1>1. Len(s) \in Nat
  BY LenProperties
<1>2. /\ 1 \in 1..(Len(s) + 1) /\ p - 1 \in (1 - 1)..Len(s)
      /\ p + 1 \in 1..(Len(s) + 1) /\ Len(s) \in ((p + 1) - 1)..Len(s)
  BY <1>1
<1>3. /\ SubSeq(s, 1, p - 1) \in Seq(Char)
      /\ Len(SubSeq(s, 1, p - 1)) = ((p - 1) - 1) + 1
      /\ \A j \in 1..(((p - 1) - 1) + 1) : SubSeq(s, 1, p - 1)[j] = s[(1 - 1) + j]
  BY <1>2, PartIs
<1>4. /\ SubSeq(s, p + 1, Len(s)) \in Seq(Char)
      /\ Len(SubSeq(s, p + 1, Len(s))) = (Len(s) - (p + 1)) + 1
      /\ \A j \in 1..((Len(s) - (p + 1)) + 1) :
            SubSeq(s, p + 1, Len(s))[j] = s[((p + 1) - 1) + j]
  BY <1>2, PartIs
<1>5. /\ ((p - 1) - 1) + 1 = p - 1 /\ \A j \in Int : (1 - 1) + j = j
      /\ (Len(s) - (p + 1)) + 1 = Len(s) - p /\ (p + 1) - 1 = p
  BY <1>1
<1>6. \A j \in 1..(p - 1) : SubSeq(s, 1, p - 1)[j] = s[j]
  <2>1. \A j \in 1..(p - 1) : j \in Int /\ SubSeq(s, 1, p - 1)[j] = s[(1 - 1) + j]
    BY <1>3, <1>5
  <2>2. QED
    BY <2>1
<1>7. \A j \in 1..(Len(s) - p) : SubSeq(s, p + 1, Len(s))[j] = s[p + j]
  BY <1>4, <1>5
<1>8. QED
  BY <1>3, <1>4, <1>5, <1>6, <1>7

\* An address has one '@', no blank, and fits into two names.
LEMMA AddressIs ==
    ASSUME NEW s \in Seq(Char), NEW a \in Addresses(s), NEW old \in Uninitialised
    PROVE  /\ \E p \in 1..Len(s) : s[p] = At
           /\ \A j \in 1..Len(s) : s[j] /= Blank
           /\ Len(s) + 1 <= 2 * NameSize
           /\ LET target == ParseUserHost(s, old)
              IN  /\ target.found /\ target.fits
                  /\ target.user \in ReadsOf(a.user) /\ target.host \in ReadsOf(a.host)
<1>1. PICK p \in DOMAIN s : /\ s[p] = At
                            /\ a = [user |-> SubSeq(s, 1, p - 1),
                                    host |-> SubSeq(s, p + 1, Len(s))]
  BY DEF Addresses
<1> DEFINE user == SubSeq(s, 1, p - 1)
           host == SubSeq(s, p + 1, Len(s))
<1>2. Len(s) \in Nat /\ p \in 1..Len(s) /\ NameSize \in Nat
  BY LenProperties, InputAssumption
<1>3. /\ user \in Seq(Char) /\ Len(user) = p - 1
      /\ \A j \in 1..(p - 1) : user[j] = s[j]
      /\ host \in Seq(Char) /\ Len(host) = Len(s) - p
      /\ \A j \in 1..(Len(s) - p) : host[j] = s[p + j]
  BY <1>2, PartsAre
<1>4. IsName(user) /\ IsName(host)
  <2>1. IsName(a.user) /\ IsName(a.host)
    BY DEF Addresses
  <2>2. QED
    BY <1>1, <2>1
<1>5. a.user = user /\ a.host = host
  BY <1>1
<1> HIDE DEF user, host
<1>6. /\ p - 1 < NameSize /\ Len(s) - p < NameSize
      /\ \A j \in 1..(p - 1) : user[j] \notin {Blank, At}
      /\ \A j \in 1..(Len(s) - p) : host[j] \notin {Blank, At}
  <2>1. DOMAIN user = 1..(p - 1) /\ DOMAIN host = 1..(Len(s) - p)
    BY <1>3, LenProperties
  <2>2. QED
    BY <1>3, <1>4, <2>1 DEF IsName
<1>7. \A j \in 1..Len(s) : j /= p => s[j] /= At /\ s[j] /= Blank
  <2> SUFFICES ASSUME NEW j \in 1..Len(s), j /= p PROVE s[j] /= At /\ s[j] /= Blank
    OBVIOUS
  <2>1. CASE j < p
    <3>1. j \in 1..(p - 1)
      BY <1>2, <2>1
    <3>2. QED
      BY <1>3, <1>6, <3>1
  <2>2. CASE j > p
    <3>1. j - p \in 1..(Len(s) - p) /\ p + (j - p) = j
      BY <1>2, <2>2
    <3>2. QED
      BY <1>3, <1>6, <3>1
  <2>3. QED
    BY <1>2, <2>1, <2>2
<1>8. At /= Blank
  BY DEF At, Blank
<1>9. Len(s) + 1 <= 2 * NameSize
  BY <1>2, <1>6
<1>10. /\ ParseUserHost(s, old).found /\ ParseUserHost(s, old).fits
       /\ ParseUserHost(s, old).user = CopyOfName(user) \o old.user
       /\ ParseUserHost(s, old).host = CopyOfName(host) \o old.host
  BY <1>1, <1>2, <1>7, ParseUserHostIs DEF user, host
<1>11. CopyOfName(user) \o old.user \in ReadsOf(user) /\ CopyOfName(host) \o old.host \in ReadsOf(host)
  BY <1>3, <1>6, NameIsRead DEF Uninitialised
<1>12. QED
  BY <1>1, <1>2, <1>5, <1>7, <1>8, <1>9, <1>10, <1>11

\* toUpperCase() of a word that is a command.
LEMMA CommandHasNoBlank ==
    ASSUME NEW t \in DOMAIN Command
    PROVE  /\ Len(Command[t]) \in Nat /\ Len(Command[t]) < WordSize
           /\ DOMAIN Command[t] = 1..Len(Command[t])
           /\ \A j \in 1..Len(Command[t]) : Command[t][j] /= Blank /\ Command[t][j] /= At
<1> DEFINE Letter == {Capital[ch] : ch \in Char} \ {Blank, At}
<1>1. Command[t] \in Seq(Letter) /\ Len(Command[t]) < WordSize
  BY InputAssumption
<1> HIDE DEF Letter
<1>2. /\ Len(Command[t]) \in Nat /\ DOMAIN Command[t] = 1..Len(Command[t])
      /\ \A j \in 1..Len(Command[t]) : Command[t][j] \in Letter
  BY <1>1, LenProperties, ElementOfSeq
<1>3. QED
  BY <1>1, <1>2 DEF Letter

\* A word that is a command is no other command.
LEMMA OneCommand ==
    ASSUME NEW types, types \subseteq DOMAIN Command, NEW t \in types,
           NEW s, Upper(s) = Command[t]
    PROVE  CommandOf(types, s) = {t}
<1>1. \A u \in DOMAIN Command : Command[t] = Command[u] => t = u
  BY InputAssumption
<1>2. QED
  BY <1>1 DEF CommandOf

\* The array has room for a row with a command and for an address behind it.
LEMMA RoomIs ==
    /\ Row(1) = 0 /\ Row(2) = WordSize /\ WordSize + 2 * NameSize <= Row(MaxWords + 1)
    /\ Row(MaxWords + 1) \in Nat
<1>1. MaxWords \in Nat /\ WordSize \in Nat /\ NameSize \in Nat
      /\ WordSize + 2 * NameSize <= MaxWords * WordSize
  BY InputAssumption
<1>2. (MaxWords + 1) - 1 = MaxWords /\ 1 - 1 = 0 /\ 2 - 1 = 1
  BY <1>1
<1>3. Row(MaxWords + 1) = MaxWords * WordSize /\ MaxWords * WordSize \in Nat
  BY <1>1, <1>2 DEF Row
<1>4. QED
  BY <1>1, <1>2, <1>3 DEF Row

\* What is read of a line.
ReadAs(line, c) ==
    \A to \in GetToLine(line) :
        /\ to.fits /\ to.type = c.type
        /\ to.user \in ReadsOf(c.user) /\ to.host \in ReadsOf(c.host)

\* A line that is AWAY or HERE,
LEMMA StatusIsRead ==
    ASSUME NEW line \in Seq(Char), NEW t \in StatusType, Upper(line) = Command[t]
    PROVE  ReadAs(line, [type |-> t, user |-> <<>>, host |-> <<>>])
<1>1. t \in DOMAIN Command /\ StatusType \subseteq DOMAIN Command
  BY InputAssumption
<1>2. Len(line) \in Nat /\ DOMAIN line = 1..Len(line) /\ \A j \in 1..Len(line) : line[j] \in Char
  BY LenProperties, ElementOfSeq
<1>3. /\ DOMAIN Command[t] = 1..Len(line)
      /\ \A j \in 1..Len(line) : Command[t][j] = Capital[line[j]]
  <2>1. DOMAIN Upper(line) = 1..Len(line) /\ \A j \in 1..Len(line) : Upper(line)[j] = Capital[line[j]]
    BY <1>2 DEF Upper
  <2>2. QED
    BY <2>1
<1>4. Len(line) < WordSize
  <2>1. /\ Len(Command[t]) \in Nat /\ Len(Command[t]) < WordSize
        /\ 1..Len(Command[t]) = 1..Len(line)
    BY <1>1, <1>3, CommandHasNoBlank
  <2>2. Len(Command[t]) = Len(line)
    BY <1>2, <2>1
  <2>3. QED
    BY <2>1, <2>2
<1>5. \A j \in 1..Len(line) : line[j] /= Blank
  <2>1. \A j \in 1..Len(line) : Command[t][j] /= Blank
    BY <1>1, <1>3, CommandHasNoBlank
  <2>2. Capital[Blank] = Blank
    BY InputAssumption
  <2>3. QED
    BY <1>3, <2>1, <2>2
<1> DEFINE words == Words(line)
<1>6. words \in WordsSoFar /\ Len(words) = 1 /\ words[1] = line
  BY <1>5, OneWord
<1>7. WordsFit(words)
  <2>1. words \in Seq(Seq(Char)) /\ DOMAIN words = 1..1
    BY <1>6, LenProperties DEF WordsSoFar
  <2>2. RowEnd(1, line) <= Row(MaxWords + 1)
    BY <1>2, <1>4, RoomIs, InputAssumption DEF RowEnd
  <2>3. \A k \in 1..1 : k = 1
    OBVIOUS
  <2>4. QED
    BY <1>6, <2>1, <2>2, <2>3 DEF WordsFit
<1>8. Argument(ToArguments(words), 1) = line
  BY <1>6, <1>7, LastArgumentIs
<1>9. TypesOf(line) = {t}
  <2>1. CommandOf(StatusType, line) = {t}
    BY <1>1, OneCommand
  <2>2. QED
    BY <1>6, <1>8, <2>1 DEF TypesOf
<1>10. (CHOOSE u \in TypesOf(line) : TRUE) = t
  BY <1>9
<1>11. ASSUME NEW to \in GetToLine(line)
       PROVE  to = Nobody(t)
  <2>1. to = Nobody(CHOOSE u \in TypesOf(line) : TRUE)
    BY <1>6, <1>7, <1>9, GetToLineReturns
  <2>2. QED
    BY <1>10, <2>1
<1>12. <<>> \in ReadsOf(<<>>)
  <2>1. <<>> \in Leftover /\ <<>> \o <<>> = <<>>
    BY InputAssumption
  <2>2. QED
    BY <2>1 DEF ReadsOf
<1>13. QED
  BY <1>11, <1>12 DEF ReadAs, Nobody

\* one that is an address,
LEMMA AddressIsRead ==
    ASSUME NEW line \in Seq(Char), NEW a \in Addresses(line)
    PROVE  ReadAs(line, [type |-> "message", user |-> a.user, host |-> a.host])
<1> DEFINE words == Words(line)
<1>1. Len(line) \in Nat /\ DOMAIN line = 1..Len(line)
  BY LenProperties
<1>2. /\ \E p \in 1..Len(line) : line[p] = At
      /\ \A j \in 1..Len(line) : line[j] /= Blank
      /\ Len(line) + 1 <= 2 * NameSize
      /\ \A old \in Uninitialised :
            LET target == ParseUserHost(line, old)
            IN  /\ target.found /\ target.fits
                /\ target.user \in ReadsOf(a.user) /\ target.host \in ReadsOf(a.host)
  <2>1. Uninitialised /= {}
    <3>1. [user |-> <<>>, host |-> <<>>] \in Uninitialised
      BY InputAssumption DEF Uninitialised
    <3>2. QED
      BY <3>1
  <2>2. QED
    BY <2>1, AddressIs
<1>3. words \in WordsSoFar /\ Len(words) = 1 /\ words[1] = line
  BY <1>2, OneWord
<1>4. WordsFit(words)
  <2>1. words \in Seq(Seq(Char)) /\ DOMAIN words = 1..1
    BY <1>3, LenProperties DEF WordsSoFar
  <2>2. RowEnd(1, line) <= Row(MaxWords + 1)
    BY <1>1, <1>2, RoomIs, InputAssumption DEF RowEnd
  <2>3. \A k \in 1..1 : k = 1
    OBVIOUS
  <2>4. QED
    BY <1>3, <2>1, <2>2, <2>3 DEF WordsFit
<1>5. Argument(ToArguments(words), 1) = line
  BY <1>3, <1>4, LastArgumentIs
<1>6. \A u \in StatusType : Upper(line) /= Command[u]
  <2> SUFFICES ASSUME NEW u \in StatusType, Upper(line) = Command[u] PROVE FALSE
    OBVIOUS
  <2>1. PICK p \in 1..Len(line) : line[p] = At
    BY <1>2
  <2>2. DOMAIN Upper(line) = 1..Len(line) /\ Upper(line)[p] = At
    BY <1>1, <2>1, InputAssumption DEF Upper
  <2>3. u \in DOMAIN Command
    BY InputAssumption
  <2>4. DOMAIN Command[u] = 1..Len(Command[u])
        /\ \A j \in 1..Len(Command[u]) : Command[u][j] /= At
    BY <2>3, CommandHasNoBlank
  <2>5. QED
    BY <2>2, <2>4
<1>7. TypesOf(line) = {}
  <2>1. CommandOf(StatusType, line) = {}
    BY <1>6 DEF CommandOf
  <2>2. QED
    BY <1>3, <1>5, <2>1 DEF TypesOf
<1>8. ASSUME NEW to \in GetToLine(line)
      PROVE  \E old \in Uninitialised : to = Target("message", ParseUserHost(line, old))
  <2>1. \A old : TargetOf(line, old) = ParseUserHost(line, old)
    BY <1>3 DEF TargetOf
  <2>2. QED
    BY <1>2, <1>3, <1>4, <1>7, <2>1, GetToLineReturns
<1>9. QED
  BY <1>2, <1>8 DEF ReadAs, Target

\* and one that is a command and an address.
LEMMA RequestIsRead ==
    ASSUME NEW line \in Seq(Char), NEW t \in RequestType,
           IsPrefix(Append(Command[t], Blank), Upper(line)),
           NEW a \in Addresses(SubSeq(line, Len(Command[t]) + 2, Len(line)))
    PROVE  ReadAs(line, [type |-> t, user |-> a.user, host |-> a.host])
<1> DEFINE c == Command[t]
           n == Len(c)
           p == n + 1
           first == SubSeq(line, 1, p - 1)
           second == SubSeq(line, p + 1, Len(line))
           words == Words(line)
<1>1. t \in DOMAIN Command /\ RequestType \subseteq DOMAIN Command
  BY InputAssumption
<1>2. /\ n \in Nat /\ n < WordSize /\ DOMAIN c = 1..n
      /\ \A j \in 1..n : c[j] /= Blank /\ c[j] /= At
  BY <1>1, CommandHasNoBlank
<1>3. Len(line) \in Nat /\ DOMAIN line = 1..Len(line) /\ \A j \in 1..Len(line) : line[j] \in Char
  BY LenProperties, ElementOfSeq
<1>4. /\ p \in 1..Len(line) /\ Capital[line[p]] = Blank
      /\ \A j \in 1..n : Capital[line[j]] = c[j]
  <2> DEFINE S == {Capital[ch] : ch \in Char} \cup {Blank}
             up == Upper(line)
             start == Append(c, Blank)
  <2>1. c \in Seq(S)
    <3>1. \A j \in 1..n : c[j] \in S
      <4>1. c \in Seq({Capital[ch] : ch \in Char} \ {Blank, At})
        BY <1>1, InputAssumption
      <4>2. \A j \in 1..n : c[j] \in {Capital[ch] : ch \in Char} \ {Blank, At}
        BY <4>1, ElementOfSeq
      <4>3. QED
        BY <4>2
    <3>2. c \in Seq({Capital[ch] : ch \in Char} \ {Blank, At})
      BY <1>1, InputAssumption
    <3> HIDE DEF S, c
    <3>3. c \in [1..n -> S]
      BY <3>1, <3>2
    <3>4. QED
      BY <1>2, <3>3
  <2>2. up = [j \in 1..Len(line) |-> Capital[line[j]]] /\ up \in Seq(S) /\ Len(up) = Len(line)
    <3>1. up = [j \in 1..Len(line) |-> Capital[line[j]]]
      BY <1>3 DEF Upper
    <3>2. \A j \in 1..Len(line) : Capital[line[j]] \in S
      BY <1>3
    <3> HIDE DEF S, up
    <3>3. QED
      BY <1>3, <3>1, <3>2
  <2>3. Blank \in S
    OBVIOUS
  <2> HIDE DEF S, up, c
  <2>4. /\ start \in Seq(S) /\ Len(start) = n + 1 /\ start[n + 1] = Blank
        /\ \A j \in 1..n : start[j] = c[j]
    BY <2>1, <2>3, AppendProperties
  <2>5. Len(start) <= Len(up) /\ SubSeq(start, 1, Len(start)) = SubSeq(up, 1, Len(start))
    BY DEF IsPrefix, c, up
  <2> HIDE DEF start
  <2>6. p <= Len(line) /\ p \in 1..Len(line)
    BY <1>2, <1>3, <2>2, <2>4, <2>5 DEF c
  <2>7. \A j \in 1..p : start[j] = up[j]
    <3>1. p \in Int /\ 1 \in Int /\ p <= Len(up) /\ Len(start) = p
      BY <1>2, <1>3, <2>2, <2>4, <2>6 DEF c
    <3>2. \A j \in 1..p : start[j] \in S /\ up[j] \in S
      BY <2>2, <2>4, <3>1, ElementOfSeq, LenProperties
    <3>3. /\ \A j \in 1..((p - 1) + 1) : SubSeq(start, 1, p)[j] = start[(1 + j) - 1]
          /\ \A j \in 1..((p - 1) + 1) : SubSeq(up, 1, p)[j] = up[(1 + j) - 1]
      <4> HIDE DEF p
      <4>1. QED
        BY <3>1, <3>2, SubSeqProperties
    <3>4. \A j \in 1..p : j \in 1..((p - 1) + 1) /\ (1 + j) - 1 = j
      <4> HIDE DEF p
      <4>1. QED
        BY <3>1
    <3>5. QED
      <4> HIDE DEF p
      <4>1. QED
        BY <2>5, <3>1, <3>3, <3>4
  <2>8. p \in 1..p /\ \A j \in 1..n : j \in 1..p /\ j \in 1..Len(line)
    BY <1>2, <1>3, <2>6 DEF c
  <2>9. start[p] = Blank /\ up[p] = Capital[line[p]]
    BY <2>2, <2>4, <2>6
  <2>10. \A j \in 1..n : up[j] = Capital[line[j]]
    BY <2>2, <2>8
  <2>11. QED
    BY <2>4, <2>6, <2>7, <2>8, <2>9, <2>10 DEF c
<1>5. Len(c) + 2 = p + 1
  BY <1>2
<1>6. a \in Addresses(second)
  BY <1>5
<1> HIDE DEF c, n, words, first, second, p
<1>7. n = p - 1 /\ p \in Nat
  BY <1>2 DEF p
<1>8. /\ first \in Seq(Char) /\ Len(first) = n /\ \A j \in 1..n : first[j] = line[j]
      /\ second \in Seq(Char) /\ Len(second) = Len(line) - p
      /\ \A j \in 1..(Len(line) - p) : second[j] = line[p + j]
  BY <1>4, <1>7, PartsAre DEF first, second
<1>9. /\ \A j \in 1..Len(second) : second[j] /= Blank
      /\ Len(second) + 1 <= 2 * NameSize
      /\ \A old \in Uninitialised :
            LET target == ParseUserHost(second, old)
            IN  /\ target.found /\ target.fits
                /\ target.user \in ReadsOf(a.user) /\ target.host \in ReadsOf(a.host)
  <2>1. [user |-> <<>>, host |-> <<>>] \in Uninitialised
    BY InputAssumption DEF Uninitialised
  <2>2. QED
    BY <1>6, <1>8, <2>1, AddressIs
<1>10. \A ch \in Char : Capital[ch] = Blank <=> ch = Blank
  BY InputAssumption
<1>11. line[p] = Blank
  BY <1>3, <1>4, <1>10
<1>12. ASSUME NEW j \in 1..Len(line), j /= p
       PROVE  line[j] /= Blank
  <2>1. CASE j < p
    <3>1. j \in 1..n
      BY <1>7, <2>1
    <3>2. QED
      BY <1>2, <1>3, <1>4, <1>10, <3>1
  <2>2. CASE j > p
    <3>1. j - p \in 1..(Len(line) - p) /\ p + (j - p) = j
      BY <1>3, <1>7, <2>2
    <3>2. second[j - p] /= Blank
      BY <1>8, <1>9, <3>1
    <3>3. QED
      BY <1>8, <3>1, <3>2
  <2>3. QED
    BY <1>7, <1>12, <2>1, <2>2
<1>13. /\ words \in WordsSoFar /\ Len(words) = 2 /\ words[1] = first /\ words[2] = second
  BY <1>4, <1>11, <1>12, TwoWords DEF words, first, second
<1>14. /\ RowEnd(1, first) <= Row(2) /\ RowEnd(1, first) <= Row(MaxWords + 1)
       /\ RowEnd(2, second) <= Row(MaxWords + 1)
  <2>1. Len(second) \in Nat /\ WordSize \in Nat /\ NameSize \in Nat
    BY <1>8, LenProperties, InputAssumption
  <2>2. RowEnd(1, first) = n + 1 /\ RowEnd(2, second) = WordSize + Len(second) + 1
    BY <1>2, <1>8, RoomIs, <2>1 DEF RowEnd
  <2>3. QED
    BY <1>2, <1>9, <2>1, <2>2, RoomIs
<1>15. WordsFit(words)
  <2>1. words \in Seq(Seq(Char)) /\ DOMAIN words = 1..2
    BY <1>13, LenProperties DEF WordsSoFar
  <2>2. \A k \in 1..2 : k = 1 \/ k = 2
    OBVIOUS
  <2>3. QED
    BY <1>13, <1>14, <2>1, <2>2 DEF WordsFit
<1>16. Argument(ToArguments(words), 1) = first
  <2>1. 1 \in 1..Len(words) /\ \A m \in 1..Len(words) : m > 1 => m = 2
    BY <1>13
  <2>2. QED
    BY <1>13, <1>14, <2>1, ArgumentIs
<1>17. Upper(first) = c
  <2>1. DOMAIN first = 1..n
    BY <1>8, LenProperties
  <2>2. Upper(first) = [j \in 1..n |-> Capital[first[j]]]
    BY <2>1 DEF Upper
  <2>3. \A j \in 1..n : Capital[first[j]] = c[j]
    BY <1>4, <1>8
  <2>4. c = [j \in 1..n |-> c[j]]
    <3>1. c \in Seq({Capital[ch] : ch \in Char} \ {Blank, At})
      BY <1>1, InputAssumption DEF c
    <3>2. QED
      BY <1>2, <3>1
  <2>5. QED
    BY <2>2, <2>3, <2>4
<1>18. TypesOf(line) = {t}
  <2>1. CommandOf(RequestType, first) = {t}
    BY <1>1, <1>17, OneCommand DEF c
  <2>2. 2 /= 1
    OBVIOUS
  <2>3. QED
    BY <1>13, <1>16, <2>1, <2>2 DEF TypesOf, words
<1>19. \A old : TargetOf(line, old) = ParseUserHost(second, old)
  BY <1>13 DEF TargetOf, words
<1>20. (CHOOSE u \in TypesOf(line) : TRUE) = t
  BY <1>18
<1>21. ASSUME NEW to \in GetToLine(line)
       PROVE  \E old \in Uninitialised : to = Target(t, ParseUserHost(second, old))
  <2>1. \E old \in Uninitialised :
           to = Target(CHOOSE u \in TypesOf(line) : TRUE, TargetOf(line, old))
    BY <1>9, <1>13, <1>15, <1>18, <1>19, GetToLineReturns DEF words
  <2>2. QED
    BY <1>19, <1>20, <2>1
<1>22. QED
  BY <1>9, <1>21 DEF ReadAs, Target

\* There is nothing else that a line says.
LEMMA SaidIsRead ==
    ASSUME NEW line \in Seq(Char), NEW c \in Says(line)
    PROVE  ReadAs(line, c)
<1>1. CASE \E t \in StatusType : /\ Upper(line) = Command[t]
                                 /\ c = [type |-> t, user |-> <<>>, host |-> <<>>]
  BY <1>1, StatusIsRead
<1>2. CASE \E a \in Addresses(line) :
              c = [type |-> "message", user |-> a.user, host |-> a.host]
  BY <1>2, AddressIsRead
<1>3. CASE \E t \in RequestType :
              /\ IsPrefix(Append(Command[t], Blank), Upper(line))
              /\ \E a \in Addresses(SubSeq(line, Len(Command[t]) + 2, Len(line))) :
                    c = [type |-> t, user |-> a.user, host |-> a.host]
  BY <1>3, RequestIsRead
<1>4. QED
  BY <1>1, <1>2, <1>3 DEF Says, SaysOf

\* A line that says something is read as the command that it says, and fits: no
\* command is lost to the rows of toArguments.  Of the names, what was typed is
\* read, and behind it what the buffers held.
THEOREM TypedIsRead == Spec => CommandIsWhatIsTyped
<1>1. ASSUME IInv, [Next]_vars
      PROVE  [overrun' \/ result'.type /= "none" => \A c \in Says(to_line) :
                 /\ ~overrun' /\ result'.type = c.type
                 /\ result'.user \in ReadsOf(c.user)
                 /\ result'.host \in ReadsOf(c.host)]_vars
  <2>1. to_line \in Seq(Char) /\ NoResult.type = "none"
    BY <1>1 DEF IInv, TypeOK, NoResult
  <2>2. ASSUME ~overrun', result' = NoResult
        PROVE  ~(overrun' \/ result'.type /= "none")
    BY <2>1, <2>2
  <2>3. CASE Tab
    BY <2>2, <2>3 DEF Tab
  <2>4. CASE Backspace
    BY <2>2, <2>4 DEF Backspace
  <2>5. ASSUME NEW ch \in Char, AddCharacter(ch)
        PROVE  ~(overrun' \/ result'.type /= "none")
    BY <2>2, <2>5 DEF AddCharacter
  <2>6. ASSUME NEW connected \in BOOLEAN, Return(connected), NEW c \in Says(to_line)
        PROVE  /\ ~overrun' /\ result'.type = c.type
               /\ result'.user \in ReadsOf(c.user)
                 /\ result'.host \in ReadsOf(c.host)
    <3>1. PICK to \in GetToLine(to_line) :
             /\ overrun' = ~to.fits
             /\ to.fits => /\ result'.type = to.type
                           /\ result'.user = to.user /\ result'.host = to.host
      BY <2>6 DEF Return
    <3>2. /\ to.fits /\ to.type = c.type
          /\ to.user \in ReadsOf(c.user) /\ to.host \in ReadsOf(c.host)
      BY <2>1, <2>6, SaidIsRead DEF ReadAs
    <3>3. QED
      BY <3>1, <3>2
  <2>7. QED
    BY <1>1, <2>3, <2>4, <2>5, <2>6 DEF Next
<1>2. QED
  BY <1>1, Invariance, PTL DEF Spec, CommandIsWhatIsTyped
=============================================================================
