---------------------------- MODULE ReaderProofs ----------------------------
(***************************************************************************)
(* Proofs about Reader: what the loops evaluate is what a well-formed text *)
(* says, a text that ends with a newline is evaluated completely, and the  *)
(* REPL reports every error of an evaluation once; for all texts and       *)
(* layouts.                                                                *)
(*                                                                         *)
(* The stack is followed against every text w that begins with the words   *)
(* read so far (Where): each of its frames was begun by a word of w, what  *)
(* has been said before that word is known, and what the frame has in      *)
(* store is what the words behind it add (FrameOk). One lemma for each     *)
(* word and each caller then shows that a step keeps the frames in step    *)
(* with the text, and that the steps which signal an error contradict that *)
(* w is well formed.                                                       *)
(***************************************************************************)
EXTENDS Reader, TLAPS, FiniteSetTheorems, FunctionTheorems, SequenceTheorems

\* Words. The provers do not know that a literal is a string, so some are named.
Tokens == STRING \cup {"(", ")", ".", "'", "quote", "NIL"}

\* Induction over the natural numbers, for a set S. Without it, if a were not in S,
\* mapping x to x + 1 inside of S and to x outside of it would be an injection of
\* 0 .. a into itself that leaves out 0, which a finite set does not have.
LEMMA NatSetInduction ==
  ASSUME NEW S, 0 \in S, \A n \in Nat : n \in S => n + 1 \in S
  PROVE \A n \in Nat : n \in S
<1> SUFFICES ASSUME NEW a \in Nat, a \notin S PROVE FALSE
  OBVIOUS
<1>1. PICK f : f = [x \in 0 .. a |-> IF x \in S THEN x + 1 ELSE x]
  OBVIOUS
<1>2. f \in [0 .. a -> 0 .. a]
  <2>1. ASSUME NEW x \in 0 .. a PROVE (IF x \in S THEN x + 1 ELSE x) \in 0 .. a
    OBVIOUS
  <2> QED BY <1>1, <2>1
<1>3. ASSUME NEW x \in 0 .. a, NEW y \in 0 .. a, f[x] = f[y] PROVE x = y
  BY <1>1, <1>3
<1>4. f \in Injection(0 .. a, 0 .. a)
  BY <1>2, <1>3, Fun_IsInj
<1>5. f \in Surjection(0 .. a, 0 .. a)
  <2>1. IsFiniteSet(0 .. a)
    BY FS_Interval
  <2> QED
    BY <1>4, <2>1, FS_Injection
<1>6. \A t \in 0 .. a : \E x \in 0 .. a : f[x] = t
  BY <1>5 DEF Surjection
<1>7. 0 \in 0 .. a
  OBVIOUS
<1> QED BY <1>1, <1>6, <1>7

\* A set of naturals with an element has a least one.
LEMMA Least ==
  ASSUME NEW S \in SUBSET Nat, NEW a \in S
  PROVE  \E m \in S : \A x \in S : m <= x
<1> SUFFICES ASSUME \A m \in S : \E x \in S : ~(m <= x) PROVE FALSE
  OBVIOUS
<1> DEFINE T == {n \in Nat : \A x \in S : x > n}
<1>1. 0 \in T
  <2>1. ASSUME NEW x \in S PROVE x > 0
    OBVIOUS
  <2> QED BY <2>1
<1>2. ASSUME NEW n \in Nat, n \in T PROVE n + 1 \in T
  <2>1. ASSUME NEW x \in S PROVE x > n + 1
    <3>1. x > n BY <1>2
    <3>2. CASE x = n + 1
      <4>1. PICK y \in S : ~(x <= y) OBVIOUS
      <4>2. y > n BY <1>2
      <4> QED BY <3>2, <4>1, <4>2
    <3> QED BY <3>1, <3>2
  <2> QED BY <2>1
<1>3. \A n \in Nat : n \in T
  <2> HIDE DEF T
  <2> QED BY <1>1, <1>2, NatSetInduction
<1>4. a \in T
  BY <1>3
<1> QED BY <1>4

-----------------------------------------------------------------------------
\* f flattens the first n sequences of s.
Flattens(f, s, n) ==
  f = [i \in 1 .. n |-> IF i = 1 THEN s[i] ELSE f[i - 1] \o s[i]]

\* Such an f exists.
LEMMA FlattensExists ==
  ASSUME NEW s
  PROVE  \A n \in Nat : \E f : Flattens(f, s, n)
<1> DEFINE T == {n \in Nat : \E f : Flattens(f, s, n)}
<1>1. 0 \in T
  <2>1. PICK f : f = [i \in 1 .. 0 |-> s]
    OBVIOUS
  <2>2. 1 .. 0 = {}
    OBVIOUS
  <2>3. f = [i \in 1 .. 0 |-> IF i = 1 THEN s[i] ELSE f[i - 1] \o s[i]]
    BY <2>1, <2>2
  <2> QED BY <2>3 DEF Flattens
<1>2. ASSUME NEW n \in Nat, n \in T PROVE n + 1 \in T
  <2>1. PICK f : Flattens(f, s, n)
    BY <1>2
  <2>2. PICK g : g = [i \in 1 .. n + 1 |-> IF i = 1 THEN s[i] ELSE f[i - 1] \o s[i]]
    OBVIOUS
  <2>3. ASSUME NEW i \in 1 .. n PROVE g[i] = f[i]
    <3>1. f[i] = IF i = 1 THEN s[i] ELSE f[i - 1] \o s[i]
      BY <2>1 DEF Flattens
    <3>2. i \in 1 .. n + 1
      OBVIOUS
    <3>3. g[i] = IF i = 1 THEN s[i] ELSE f[i - 1] \o s[i]
      BY <2>2, <3>2
    <3> QED BY <3>1, <3>3
  <2>4. ASSUME NEW i \in 1 .. n + 1
        PROVE  (IF i = 1 THEN s[i] ELSE f[i - 1] \o s[i]) = (IF i = 1 THEN s[i] ELSE g[i - 1] \o s[i])
    <3>1. i # 1 => i - 1 \in 1 .. n
      OBVIOUS
    <3> QED BY <2>3, <3>1
  <2>5. g = [i \in 1 .. n + 1 |-> IF i = 1 THEN s[i] ELSE g[i - 1] \o s[i]]
    BY <2>2, <2>4
  <2>6. Flattens(g, s, n + 1)
    BY <2>5 DEF Flattens
  <2> QED BY <2>6
<1>3. \A n \in Nat : n \in T
  <2> HIDE DEF T
  <2> QED BY <1>1, <1>2, NatSetInduction
<1> QED BY <1>3

\* Two such functions agree where both are defined and the sequences are the same.
LEMMA FlattensAgree ==
  ASSUME NEW s, NEW t, NEW n \in Nat, NEW m \in Nat, n <= m,
         \A i \in 1 .. n : s[i] = t[i],
         NEW f, Flattens(f, s, n), NEW g, Flattens(g, t, m)
  PROVE  \A i \in 1 .. n : f[i] = g[i]
<1> DEFINE T == {i \in Nat : i \in 1 .. n => f[i] = g[i]}
<1>1. 0 \in T
  OBVIOUS
<1>2. ASSUME NEW i \in Nat, i \in T PROVE i + 1 \in T
  <2> SUFFICES ASSUME i + 1 \in 1 .. n PROVE f[i + 1] = g[i + 1]
    OBVIOUS
  <2>1. i + 1 \in 1 .. m /\ (i + 1) - 1 = i
    OBVIOUS
  <2>2. f[i + 1] = IF i + 1 = 1 THEN s[i + 1] ELSE f[i] \o s[i + 1]
    BY <2>1 DEF Flattens
  <2>3. g[i + 1] = IF i + 1 = 1 THEN t[i + 1] ELSE g[i] \o t[i + 1]
    BY <2>1 DEF Flattens
  <2>4. CASE i = 0
    BY <2>2, <2>3, <2>4
  <2>5. CASE i # 0
    <3>1. f[i] = g[i]
      BY <1>2, <2>5
    <3> QED BY <2>2, <2>3, <3>1
  <2> QED BY <2>4, <2>5
<1>3. \A i \in Nat : i \in T
  <2> HIDE DEF T
  <2> QED BY <1>1, <1>2, NatSetInduction
<1> QED BY <1>3

\* FlattenSeq is the last value of any of them.
LEMMA FlattenIs ==
  ASSUME NEW S, NEW s \in Seq(Seq(S)), s # <<>>, NEW f, Flattens(f, s, Len(s))
  PROVE  FlattenSeq(s) = f[Len(s)]
<1>1. Len(s) \in Nat /\ Len(s) # 0
  OBVIOUS
<1> DEFINE c == CHOOSE h : Flattens(h, s, Len(s))
<1>2. FlattenSeq(s) = c[Len(s)]
  BY <1>1 DEF FlattenSeq, Flattens
<1>3. Flattens(c, s, Len(s))
  OBVIOUS
<1>4. Len(s) \in 1 .. Len(s)
  BY <1>1
<1> HIDE DEF c
<1>5. f[Len(s)] = c[Len(s)]
  BY <1>1, <1>3, <1>4, FlattensAgree
<1> QED BY <1>2, <1>5

\* What FlattenSeq gives, piece by piece.
LEMMA FlattenEmpty == FlattenSeq(<<>>) = <<>>
BY DEF FlattenSeq

\* What is flattened is a sequence of the same elements.
LEMMA FlattenType ==
  ASSUME NEW S, NEW s \in Seq(Seq(S))
  PROVE  FlattenSeq(s) \in Seq(S)
<1>1. CASE s = <<>>
  BY <1>1, FlattenEmpty, EmptySeq
<1>2. CASE s # <<>>
  <2>1. Len(s) \in Nat /\ Len(s) # 0
    BY <1>2
  <2>2. PICK f : Flattens(f, s, Len(s))
    BY <2>1, FlattensExists
  <2> DEFINE T == {i \in Nat : i \in 1 .. Len(s) => f[i] \in Seq(S)}
  <2>3. 0 \in T
    OBVIOUS
  <2>4. ASSUME NEW i \in Nat, i \in T PROVE i + 1 \in T
    <3> SUFFICES ASSUME i + 1 \in 1 .. Len(s) PROVE f[i + 1] \in Seq(S)
      OBVIOUS
    <3>1. f[i + 1] = IF i + 1 = 1 THEN s[i + 1] ELSE f[(i + 1) - 1] \o s[i + 1]
      BY <2>2 DEF Flattens
    <3>2. s[i + 1] \in Seq(S)
      OBVIOUS
    <3>3. CASE i = 0
      BY <3>1, <3>2, <3>3
    <3>4. CASE i # 0
      <4>1. f[i] \in Seq(S) /\ (i + 1) - 1 = i /\ i + 1 # 1
        BY <2>4, <3>4
      <4> QED BY <3>1, <3>2, <4>1, ConcatProperties
    <3> QED BY <3>3, <3>4
  <2>5. \A i \in Nat : i \in T
    <3> HIDE DEF T
    <3> QED BY <2>3, <2>4, NatSetInduction
  <2>6. f[Len(s)] \in Seq(S)
    BY <2>1, <2>5
  <2> QED BY <1>2, <2>2, <2>6, FlattenIs
<1> QED BY <1>1, <1>2

\* Flattening one sequence more adds it at the end.
LEMMA FlattenAppend ==
  ASSUME NEW S, NEW s \in Seq(Seq(S)), NEW x \in Seq(S)
  PROVE  FlattenSeq(Append(s, x)) = FlattenSeq(s) \o x
<1>1. PICK t : t = Append(s, x)
  OBVIOUS
<1>2. PICK n \in Nat : n = Len(s)
  OBVIOUS
<1>3. /\ t \in Seq(Seq(S)) /\ t # <<>> /\ Len(t) = n + 1 /\ t[n + 1] = x
      /\ \A i \in 1 .. n : s[i] = t[i]
  BY <1>1, <1>2, AppendProperties
<1>4. PICK g : Flattens(g, t, n + 1)
  <2>1. n + 1 \in Nat
    OBVIOUS
  <2> QED BY <2>1, FlattensExists
<1>5. FlattenSeq(t) = g[n + 1]
  BY <1>3, <1>4, FlattenIs
<1>6. g[n + 1] = IF n + 1 = 1 THEN t[n + 1] ELSE g[(n + 1) - 1] \o t[n + 1]
  <2>1. n + 1 \in 1 .. n + 1
    OBVIOUS
  <2> QED BY <1>4, <2>1 DEF Flattens
<1>7. CASE n = 0
  <2>1. s = <<>>
    BY <1>2, <1>7, EmptySeq
  <2>2. <<>> \o x = x
    BY ConcatEmptySeq
  <2> QED BY <1>1, <1>3, <1>5, <1>6, <1>7, <2>1, <2>2, FlattenEmpty
<1>8. CASE n # 0
  <2>1. s # <<>> /\ n \in 1 .. n /\ n + 1 # 1 /\ (n + 1) - 1 = n
    BY <1>2, <1>8
  <2>2. PICK f : Flattens(f, s, n)
    BY FlattensExists
  <2>3. FlattenSeq(s) = f[n]
    BY <1>2, <2>1, <2>2, FlattenIs
  <2>4. f[n] = g[n]
    <3>1. PICK m \in Nat : m = n + 1 /\ n <= m
      OBVIOUS
    <3>3. Flattens(g, t, m) /\ \A i \in 1 .. n : s[i] = t[i]
      BY <1>3, <1>4, <3>1
    <3>2. \A i \in 1 .. n : f[i] = g[i]
      BY <2>2, <3>1, <3>3, FlattensAgree
    <3> QED BY <2>1, <3>2
  <2> QED BY <1>1, <1>3, <1>5, <1>6, <2>1, <2>3, <2>4
<1> QED BY <1>7, <1>8

-----------------------------------------------------------------------------
\* How many of the first n words are c.
Count(w, n, c) == Cardinality({j \in 1 .. n : w[j] = c})

\* The count goes up by one at every c.
LEMMA CountStep ==
  ASSUME NEW w, NEW n \in Nat, NEW c
  PROVE  /\ Count(w, 0, c) = 0 /\ Count(w, n, c) \in Nat
         /\ Count(w, n + 1, c) = Count(w, n, c) + IF w[n + 1] = c THEN 1 ELSE 0
<1> DEFINE T == {j \in 1 .. n : w[j] = c}
<1>1. IsFiniteSet(T) /\ Cardinality(T) \in Nat
  <2>1. IsFiniteSet(1 .. n)
    BY FS_Interval
  <2>2. T \in SUBSET (1 .. n)
    OBVIOUS
  <2>3. IsFiniteSet(T)
    BY <2>1, <2>2, FS_Subset
  <2> QED BY <2>3, FS_CardinalityType
<1>2. {j \in 1 .. 0 : w[j] = c} = {}
  OBVIOUS
<1>3. Count(w, 0, c) = 0
  BY <1>2, FS_EmptySet DEF Count
<1>4. CASE w[n + 1] = c
  <2>1. {j \in 1 .. n + 1 : w[j] = c} = T \cup {n + 1} /\ n + 1 \notin T
    BY <1>4
  <2>2. Cardinality(T \cup {n + 1}) = Cardinality(T) + 1
    BY <1>1, <2>1, FS_AddElement
  <2>3. Count(w, n, c) = Cardinality(T) /\ Count(w, n + 1, c) = Cardinality(T \cup {n + 1})
    BY <2>1 DEF Count
  <2> QED BY <1>1, <1>3, <1>4, <2>2, <2>3
<1>5. CASE w[n + 1] # c
  <2>1. {j \in 1 .. n + 1 : w[j] = c} = T
    BY <1>5
  <2>2. Count(w, n, c) = Cardinality(T) /\ Count(w, n + 1, c) = Cardinality(T)
    BY <2>1 DEF Count
  <2> QED BY <1>1, <1>3, <1>5, <2>2
<1> QED BY <1>4, <1>5

\* How a word changes the depth.
Shift(c) == IF c = "(" THEN 1 ELSE IF c = ")" THEN -1 ELSE 0

\* A word changes the depth by its shift.
LEMMA DepthStep ==
  ASSUME NEW w, NEW n \in Nat
  PROVE  Depth(w, 0) = 0 /\ Depth(w, n) \in Int /\ Depth(w, n + 1) = Depth(w, n) + Shift(w[n + 1])
<1>1. \A m : Depth(w, m) = Count(w, m, "(") - Count(w, m, ")")
  BY DEF Depth, Count
<1>2. /\ Count(w, 0, "(") = 0 /\ Count(w, n, "(") \in Nat
      /\ Count(w, n + 1, "(") = Count(w, n, "(") + IF w[n + 1] = "(" THEN 1 ELSE 0
  BY CountStep
<1>3. /\ Count(w, 0, ")") = 0 /\ Count(w, n, ")") \in Nat
      /\ Count(w, n + 1, ")") = Count(w, n, ")") + IF w[n + 1] = ")" THEN 1 ELSE 0
  BY CountStep
<1>4. "(" # ")"
  OBVIOUS
<1> QED BY <1>1, <1>2, <1>3, <1>4 DEF Shift

-----------------------------------------------------------------------------
\* Skip is what its definition says.
LEMMA SkipIs ==
  ASSUME NEW w \in Seq(Tokens), NEW i \in Nat, NEW S, NEW k \in i .. Len(w) + 1,
         k <= Len(w) => w[k] \notin S, \A j \in i .. k - 1 : w[j] \in S
  PROVE  Skip(w, i, S) = k
<1>1. Len(w) \in Nat
  OBVIOUS
<1> DEFINE Good(m) == (m <= Len(w) => w[m] \notin S) /\ \A j \in i .. m - 1 : w[j] \in S
<1>2. \A m \in i .. Len(w) + 1 : Good(m) => m = k
  <2> SUFFICES ASSUME NEW m \in i .. Len(w) + 1, Good(m) PROVE m = k
    OBVIOUS
  <2>1. ~(m < k)
    BY <1>1
  <2>2. ~(k < m)
    BY <1>1
  <2> QED BY <1>1, <2>1, <2>2
<1>3. Good(k)
  OBVIOUS
<1>4. Skip(w, i, S) = CHOOSE m \in i .. Len(w) + 1 : Good(m)
  BY DEF Skip
<1> HIDE DEF Good
<1> QED BY <1>2, <1>3, <1>4

\* From every place on there is such a word, or the end of the text.
LEMMA SkipExists ==
  ASSUME NEW w \in Seq(Tokens), NEW i \in 1 .. Len(w) + 1, NEW S
  PROVE  /\ Skip(w, i, S) \in i .. Len(w) + 1
         /\ Skip(w, i, S) <= Len(w) => w[Skip(w, i, S)] \notin S
         /\ \A j \in i .. Skip(w, i, S) - 1 : w[j] \in S
<1>1. Len(w) \in Nat
  OBVIOUS
<1> DEFINE T == {k \in i .. Len(w) + 1 : k <= Len(w) => w[k] \notin S}
<1>2. Len(w) + 1 \in T /\ T \in SUBSET Nat
  BY <1>1
<1>3. PICK m \in T : \A x \in T : m <= x
  <2> HIDE DEF T
  <2> QED BY <1>2, Least
<1>4. \A j \in i .. m - 1 : w[j] \in S
  <2> SUFFICES ASSUME NEW j \in i .. m - 1, w[j] \notin S PROVE FALSE
    OBVIOUS
  <2>1. j \in T /\ ~(m <= j)
    BY <1>1
  <2> QED BY <1>3, <2>1
<1>5. m \in i .. Len(w) + 1 /\ (m <= Len(w) => w[m] \notin S) /\ i \in Nat
  BY <1>1
<1>6. Skip(w, i, S) = m
  BY <1>4, <1>5, SkipIs
<1> QED BY <1>4, <1>5, <1>6

-----------------------------------------------------------------------------
\* Words that may stand before an expression.
PrefixWords == {"'", "comment"}
\* The words a .. z are comments.
Comments(w, a, z) == \A h \in a .. z : w[h] = "comment"

\* The parenthesis at e closes the one at k.
Matches(w, k, e) ==
  /\ e \in k + 1 .. Len(w) /\ w[e] = ")" /\ Depth(w, e) = Depth(w, k - 1)
  /\ \A h \in k + 1 .. e - 1 : Depth(w, h) > Depth(w, k - 1)

\* A parenthesis is closed by one word only.
LEMMA MatchUnique ==
  ASSUME NEW w \in Seq(Tokens), NEW k \in Nat, NEW e, NEW f, Matches(w, k, e),
         Matches(w, k, f)
  PROVE  e = f
<1>1. e \in Nat /\ f \in Nat /\ e > k /\ f > k
  BY DEF Matches
<1>2. ~(e < f)
  <2> SUFFICES ASSUME e < f PROVE FALSE
    OBVIOUS
  <2>1. e \in k + 1 .. f - 1
    BY <1>1
  <2>2. Depth(w, e) > Depth(w, k - 1) /\ Depth(w, e) = Depth(w, k - 1) /\ Depth(w, e) \in Int
    BY <1>1, <2>1, DepthStep DEF Matches
  <2> QED BY <2>2
<1>3. ~(f < e)
  <2> SUFFICES ASSUME f < e PROVE FALSE
    OBVIOUS
  <2>1. f \in k + 1 .. e - 1
    BY <1>1
  <2>2. Depth(w, f) > Depth(w, k - 1) /\ Depth(w, f) = Depth(w, k - 1) /\ Depth(w, f) \in Int
    BY <1>1, <2>1, DepthStep DEF Matches
  <2> QED BY <2>2
<1> QED BY <1>1, <1>2, <1>3

\* The parenthesis that is closed is determined, too.
LEMMA MatchInjective ==
  ASSUME NEW w \in Seq(Tokens), NEW k \in 1 .. Len(w), NEW m \in 1 .. Len(w), NEW e,
         w[k] = "(", w[m] = "(", Matches(w, k, e), Matches(w, m, e)
  PROVE  k = m
<1>1. ASSUME NEW a \in 1 .. Len(w), NEW b \in 1 .. Len(w), a < b, w[a] = "(",
             Matches(w, a, e), Matches(w, b, e)
      PROVE  FALSE
  <2>1. e \in Nat /\ e > b /\ b - 1 \in Nat /\ a - 1 \in Nat
    BY <1>1 DEF Matches
  <2>2. Depth(w, b - 1) = Depth(w, a - 1)
    BY <1>1 DEF Matches
  <2>3. CASE b - 1 = a
    <3>1. Depth(w, (a - 1) + 1) = Depth(w, a - 1) + Shift(w[(a - 1) + 1]) /\ Depth(w, a - 1) \in Int
      BY <2>1, DepthStep
    <3>2. (a - 1) + 1 = a
      OBVIOUS
    <3>3. Depth(w, a) = Depth(w, a - 1) + 1
      BY <1>1, <3>1, <3>2 DEF Shift
    <3> QED BY <2>2, <2>3, <3>1, <3>3
  <2>4. CASE b - 1 # a
    <3>1. b - 1 \in a + 1 .. e - 1
      BY <1>1, <2>1, <2>4
    <3>2. Depth(w, b - 1) > Depth(w, a - 1) /\ Depth(w, b - 1) \in Int
      BY <1>1, <2>1, <3>1, DepthStep DEF Matches
    <3> QED BY <2>2, <3>2
  <2> QED BY <2>3, <2>4
<1>2. ~(k < m) /\ ~(m < k)
  BY <1>1
<1> QED BY <1>2

\* In a well-formed text every parenthesis is closed.
LEMMA MatchExists ==
  ASSUME NEW w \in Seq(Tokens), WellFormed(w), NEW k \in 1 .. Len(w), w[k] = "("
  PROVE  \E e : Matches(w, k, e)
<1>1. Len(w) \in Nat /\ DOMAIN w = 1 .. Len(w) /\ k - 1 \in Nat /\ (k - 1) + 1 = k
  OBVIOUS
<1>2. PICK d \in Int : d = Depth(w, k - 1)
  BY <1>1, DepthStep
<1>3. Depth(w, k) = d + 1
  BY <1>1, <1>2, DepthStep DEF Shift
<1>4. d >= 0
  <2>1. CASE k = 1
    BY <1>2, <2>1, DepthStep
  <2>2. CASE k # 1
    <3>1. k - 1 \in DOMAIN w
      BY <1>1, <2>2
    <3> QED BY <1>2, <3>1 DEF WellFormed
  <2> QED BY <2>1, <2>2
<1> DEFINE T == {j \in k + 1 .. Len(w) : Depth(w, j) <= d}
<1>5. Len(w) \in T
  <2>1. Depth(w, Len(w)) = 0
    BY DEF WellFormed
  <2>2. k # Len(w)
    BY <1>3, <1>4, <2>1
  <2>3. Len(w) \in k + 1 .. Len(w)
    <3>1. PICK n \in Nat : n = Len(w) /\ k \in 1 .. n
      BY <1>1
    <3> QED BY <2>2, <3>1
  <2> QED BY <1>4, <2>1, <2>3
<1>6. PICK e \in T : \A x \in T : e <= x
  <2>1. T \in SUBSET Nat
    BY <1>1
  <2> HIDE DEF T
  <2> QED BY <1>5, <2>1, Least
<1>7. e \in k + 1 .. Len(w) /\ Depth(w, e) <= d
  OBVIOUS
<1>8. ASSUME NEW h \in k + 1 .. e - 1 PROVE Depth(w, h) > d
  <2>1. h \in k + 1 .. Len(w) /\ ~(e <= h)
    BY <1>1, <1>7
  <2>2. Depth(w, h) \in Int
    BY <1>1, <2>1, DepthStep
  <2>3. h \notin T
    BY <1>6, <2>1
  <2> QED BY <1>2, <2>1, <2>2, <2>3
<1>9. Depth(w, e - 1) > d /\ Depth(w, e - 1) \in Int
  <2>1. e - 1 \in Nat
    BY <1>7
  <2>2. CASE e - 1 = k
    BY <1>2, <1>3, <2>2
  <2>3. CASE e - 1 # k
    <3>1. e - 1 \in k + 1 .. e - 1
      BY <1>7, <2>3
    <3> QED BY <1>8, <2>1, <3>1, DepthStep
  <2> QED BY <2>2, <2>3
<1>10. Depth(w, e) = Depth(w, e - 1) + Shift(w[e])
  <2>1. e - 1 \in Nat /\ (e - 1) + 1 = e
    BY <1>7
  <2>2. Depth(w, (e - 1) + 1) = Depth(w, e - 1) + Shift(w[(e - 1) + 1])
    BY <2>1, DepthStep
  <2> QED BY <2>1, <2>2
<1>11. w[e] = ")" /\ Depth(w, e) = d
  BY <1>2, <1>7, <1>9, <1>10 DEF Shift
<1>12. Matches(w, k, e)
  BY <1>2, <1>7, <1>8, <1>11 DEF Matches
<1> QED BY <1>12

\* Where an expression ends that does not begin with a parenthesis.
LEMMA EndOfAtom ==
  ASSUME NEW w \in Seq(Tokens), NEW i \in Nat, NEW k, Skip(w, i, PrefixWords) = k,
         k > Len(w) \/ w[k] # "("
  PROVE  ExprEnd(w, i) = k
BY DEF ExprEnd, PrefixWords

\* Where an expression ends that does.
LEMMA EndOfList ==
  ASSUME NEW w \in Seq(Tokens), NEW i \in Nat, NEW k \in 1 .. Len(w),
         Skip(w, i, PrefixWords) = k,
         w[k] = "(", NEW e, Matches(w, k, e)
  PROVE  ExprEnd(w, i) = e
<1>1. ~(k > Len(w))
  OBVIOUS
<1>2. ExprEnd(w, i) = CHOOSE j \in k + 1 .. Len(w) :
             /\ w[j] = ")" /\ Depth(w, j) = Depth(w, k - 1)
             /\ \A h \in k + 1 .. j - 1 : Depth(w, h) > Depth(w, k - 1)
  BY <1>1 DEF ExprEnd, PrefixWords
<1>3. ExprEnd(w, i) = CHOOSE j \in k + 1 .. Len(w) : Matches(w, k, j)
  <2>1. \A j \in k + 1 .. Len(w) :
          Matches(w, k, j) <=>
             /\ w[j] = ")" /\ Depth(w, j) = Depth(w, k - 1)
             /\ \A h \in k + 1 .. j - 1 : Depth(w, h) > Depth(w, k - 1)
    BY DEF Matches
  <2> QED BY <1>2, <2>1
<1>4. e \in k + 1 .. Len(w)
  BY DEF Matches
<1>5. \A j \in k + 1 .. Len(w) : Matches(w, k, j) => j = e
  BY MatchUnique
<1> QED BY <1>3, <1>4, <1>5

\* The same, as a function of where the word behind the prefixes is.
EndFrom(w, k) ==
  IF k > Len(w) \/ w[k] # "(" THEN k
  ELSE CHOOSE j \in k + 1 .. Len(w) :
         /\ w[j] = ")" /\ Depth(w, j) = Depth(w, k - 1)
         /\ \A h \in k + 1 .. j - 1 : Depth(w, h) > Depth(w, k - 1)

\* ExprEnd looks at nothing but where the word behind the prefixes is.
LEMMA EndIs == \A w, i : ExprEnd(w, i) = EndFrom(w, Skip(w, i, PrefixWords))
BY DEF ExprEnd, EndFrom, PrefixWords

\* Prefixes before an expression do not change its end.
LEMMA EndBehindPrefixes ==
  ASSUME NEW w \in Seq(Tokens), NEW i \in Nat \ {0}, NEW m \in i .. Len(w) + 1,
         \A j \in i .. m - 1 : w[j] \in PrefixWords
  PROVE  Skip(w, i, PrefixWords) = Skip(w, m, PrefixWords) /\ ExprEnd(w, i) = ExprEnd(w, m)
<1>1. Len(w) \in Nat /\ m \in 1 .. Len(w) + 1
  OBVIOUS
<1>2. PICK k : k = Skip(w, m, PrefixWords)
  OBVIOUS
<1>3. k \in m .. Len(w) + 1 /\ (k <= Len(w) => w[k] \notin PrefixWords)
      /\ \A j \in m .. k - 1 : w[j] \in PrefixWords
  BY <1>1, <1>2, SkipExists
<1>4. k \in i .. Len(w) + 1 /\ \A j \in i .. k - 1 : w[j] \in PrefixWords
  BY <1>1, <1>3
<1>5. Skip(w, i, PrefixWords) = k
  BY <1>3, <1>4, SkipIs
<1>6. ExprEnd(w, i) = EndFrom(w, k) /\ ExprEnd(w, m) = EndFrom(w, k)
  BY <1>2, <1>5, EndIs
<1> QED BY <1>2, <1>5, <1>6

-----------------------------------------------------------------------------
(* Printed, word by word                                                     *)

\* The parts of Printed, with names.
Dots(w)       == {i \in DOMAIN w : w[i] = "."}
TailOf(w, d)  == Skip(w, d + 1, {"comment"})
ListDots(w)   == {d \in Dots(w) : w[TailOf(w, d)] = "("}
QuoteDots(w)  == {d \in Dots(w) : w[TailOf(w, d)] = "'"}
Dropped(w)    == {i \in DOMAIN w : w[i] = "comment"} \cup ListDots(w) \cup QuoteDots(w)
                   \cup {TailOf(w, d) : d \in ListDots(w)}
                   \cup {ExprEnd(w, d + 1) : d \in ListDots(w)}
Piece(w, i)   == IF i \in Dropped(w) THEN <<>>
                 ELSE <<IF \E d \in QuoteDots(w) : i = TailOf(w, d) THEN "quote" ELSE w[i]>>
\* What the first n words say.
Told(w, n)    == FlattenSeq([i \in 1 .. n |-> Piece(w, i)])

\* Printed is what all the words say.
LEMMA PrintedIs ==
  ASSUME NEW w \in Seq(Tokens)
  PROVE  Printed(w) = Told(w, Len(w))
<1>1. DOMAIN w = 1 .. Len(w)
  OBVIOUS
<1>2. Printed(w) = FlattenSeq([i \in DOMAIN w |-> Piece(w, i)])
  BY DEF Printed, Piece, Dropped, ListDots, QuoteDots, Dots, TailOf
<1> QED BY <1>1, <1>2 DEF Told

\* What a word says is a sequence of words.
LEMMA PieceType ==
  ASSUME NEW w \in Seq(Tokens), NEW i \in 1 .. Len(w)
  PROVE  Piece(w, i) \in Seq(Tokens)
<1>1. w[i] \in Tokens
  OBVIOUS
<1>2. <<>> \in Seq(Tokens) /\ <<w[i]>> \in Seq(Tokens) /\ <<"quote">> \in Seq(Tokens)
  <2>1. \A x \in Tokens : <<x>> \in Seq(Tokens)
    OBVIOUS
  <2>2. "quote" \in Tokens
    BY DEF Tokens
  <2> QED BY <1>1, <2>1, <2>2, EmptySeq
<1> QED BY <1>2 DEF Piece

\* What the first words say, one word at a time.
LEMMA ToldStep ==
  ASSUME NEW w \in Seq(Tokens), NEW n \in 0 .. Len(w)
  PROVE  /\ Told(w, 0) = <<>>
         /\ Told(w, n) \in Seq(Tokens)
         /\ n < Len(w) => Told(w, n + 1) = Told(w, n) \o Piece(w, n + 1)
<1> DEFINE T(m) == [i \in 1 .. m |-> Piece(w, i)]
<1>1. \A m \in 0 .. Len(w) : T(m) \in Seq(Seq(Tokens)) /\ Len(T(m)) = m
  <2> TAKE m \in 0 .. Len(w)
  <2>1. \A i \in 1 .. m : Piece(w, i) \in Seq(Tokens)
    BY PieceType
  <2> QED BY <2>1
<1>2. Told(w, 0) = <<>>
  <2>1. T(0) = <<>>
    OBVIOUS
  <2> QED BY <2>1, FlattenEmpty DEF Told
<1>3. Told(w, n) \in Seq(Tokens)
  BY <1>1, FlattenType DEF Told
<1>4. ASSUME n < Len(w) PROVE Told(w, n + 1) = Told(w, n) \o Piece(w, n + 1)
  <2>1. T(n + 1) = Append(T(n), Piece(w, n + 1))
    OBVIOUS
  <2>2. T(n) \in Seq(Seq(Tokens)) /\ Piece(w, n + 1) \in Seq(Tokens)
    BY <1>1, <1>4, PieceType
  <2>3. FlattenSeq(Append(T(n), Piece(w, n + 1))) = FlattenSeq(T(n)) \o Piece(w, n + 1)
    <3> HIDE DEF T
    <3> QED BY <2>2, FlattenAppend
  <2> QED BY <2>1, <2>3 DEF Told
<1> QED BY <1>2, <1>3, <1>4

\* Only comments lie between the word i and a dot before it.
BehindDot(w, i) == \E d \in 1 .. i - 1 : w[d] = "." /\ Comments(w, d + 1, i - 1)

\* Behind a dot there may be comments.
LEMMA BehindStep ==
  ASSUME NEW w, NEW i \in Nat, i > 0
  PROVE  BehindDot(w, i + 1) <=> w[i] = "." \/ (w[i] = "comment" /\ BehindDot(w, i))
<1>1. (i + 1) - 1 = i
  OBVIOUS
<1>2. BehindDot(w, i + 1) <=> \E d \in 1 .. i : w[d] = "." /\ \A h \in d + 1 .. i : w[h] = "comment"
  BY <1>1 DEF BehindDot, Comments
<1>3. BehindDot(w, i) <=> \E d \in 1 .. i - 1 : w[d] = "." /\ \A h \in d + 1 .. i - 1 : w[h] = "comment"
  BY DEF BehindDot, Comments
<1>4. ASSUME BehindDot(w, i + 1), w[i] # "." PROVE w[i] = "comment" /\ BehindDot(w, i)
  <2>1. PICK d \in 1 .. i : w[d] = "." /\ \A h \in d + 1 .. i : w[h] = "comment"
    BY <1>2, <1>4
  <2>2. d \in 1 .. i - 1 /\ i \in d + 1 .. i /\ \A h \in d + 1 .. i - 1 : h \in d + 1 .. i
    BY <1>4, <2>1
  <2> QED BY <1>3, <2>1, <2>2
<1>5. ASSUME w[i] = "." PROVE BehindDot(w, i + 1)
  <2>1. i \in 1 .. i /\ \A h \in i + 1 .. i : w[h] = "comment"
    OBVIOUS
  <2> QED BY <1>2, <1>5, <2>1
<1>6. ASSUME w[i] = "comment", BehindDot(w, i) PROVE BehindDot(w, i + 1)
  <2>1. PICK d \in 1 .. i - 1 : w[d] = "." /\ \A h \in d + 1 .. i - 1 : w[h] = "comment"
    BY <1>3, <1>6
  <2>2. d \in 1 .. i /\ \A h \in d + 1 .. i : w[h] = "comment"
    BY <1>6, <2>1
  <2> QED BY <1>2, <2>1, <2>2
<1> QED BY <1>4, <1>5, <1>6

\* A word that is no comment is the tail of the dot it is behind, and of no other.
LEMMA TailIs ==
  ASSUME NEW w \in Seq(Tokens), NEW i \in 1 .. Len(w), w[i] # "comment", NEW d \in Dots(w)
  PROVE  TailOf(w, d) = i <=> d \in 1 .. i - 1 /\ Comments(w, d + 1, i - 1)
<1>1. PICK n \in Nat : n = Len(w) /\ i \in 1 .. n /\ DOMAIN w = 1 .. n
  OBVIOUS
<1>2. d \in 1 .. n
  BY <1>1 DEF Dots
<1>3. PICK j \in Nat : j = d + 1 /\ j \in 1 .. n + 1
  BY <1>2
<1>4. PICK k : k = Skip(w, j, {"comment"}) /\ k = TailOf(w, d)
  BY <1>3 DEF TailOf
<1>5. k \in j .. n + 1 /\ \A h \in j .. k - 1 : w[h] \in {"comment"}
  BY <1>1, <1>3, <1>4, SkipExists
<1>6. ASSUME k = i PROVE d \in 1 .. i - 1 /\ Comments(w, d + 1, i - 1)
  <2>1. d \in 1 .. i - 1
    BY <1>2, <1>3, <1>5, <1>6
  <2> QED BY <1>3, <1>5, <1>6, <2>1 DEF Comments
<1>7. ASSUME d \in 1 .. i - 1, Comments(w, d + 1, i - 1) PROVE k = i
  <2>1. i \in j .. n + 1
    BY <1>1, <1>3, <1>7
  <2>2. w[i] \notin {"comment"} /\ \A h \in j .. i - 1 : w[h] \in {"comment"}
    BY <1>3, <1>7 DEF Comments
  <2> QED BY <1>1, <1>3, <1>4, <2>1, <2>2, SkipIs
<1> QED BY <1>4, <1>6, <1>7

\* The end of a list that is a dotted tail.
LEMMA ListDotEnd ==
  ASSUME NEW w \in Seq(Tokens), WellFormed(w), NEW d \in ListDots(w)
  PROVE  /\ TailOf(w, d) \in 1 .. Len(w)
         /\ Matches(w, TailOf(w, d), ExprEnd(w, d + 1))
<1>1. PICK n \in Nat : n = Len(w) /\ DOMAIN w = 1 .. n
  OBVIOUS
<1>2. d \in 1 .. n /\ w[d] = "." /\ w[TailOf(w, d)] = "("
  BY <1>1 DEF ListDots, Dots
<1>3. PICK j \in Nat : j = d + 1 /\ j \in 1 .. n + 1
  BY <1>2
<1>4. PICK k : k = Skip(w, j, {"comment"}) /\ k = TailOf(w, d)
  BY <1>3 DEF TailOf
<1>5. k \in j .. n + 1 /\ \A h \in j .. k - 1 : w[h] \in {"comment"}
  BY <1>1, <1>3, <1>4, SkipExists
<1>6. PICK m : m = Skip(w, j, PrefixWords)
  OBVIOUS
<1>7. m \in j .. n /\ w[m] \notin PrefixWords
  <2>1. DotInPlace(w, d)
    BY <1>1, <1>2 DEF WellFormed
  <2>2. BeginsExpr(w, j)
    BY <1>3, <2>1 DEF DotInPlace
  <2>3. m <= n
    BY <1>1, <1>6, <2>2 DEF BeginsExpr, PrefixWords
  <2>4. m \in j .. n + 1 /\ (m <= n => w[m] \notin PrefixWords)
    BY <1>1, <1>3, <1>6, SkipExists
  <2> QED BY <2>3, <2>4
<1>8. k \in 1 .. n
  <2>1. CASE k = n + 1
    <3>1. m \in j .. k - 1
      BY <1>7, <2>1
    <3>2. w[m] = "comment"
      BY <1>5, <3>1
    <3> QED BY <1>7, <3>2 DEF PrefixWords
  <2> QED BY <1>3, <1>5, <2>1
<1>9. Skip(w, j, PrefixWords) = k
  <2>1. w[k] \notin PrefixWords /\ \A h \in j .. k - 1 : w[h] \in PrefixWords
    BY <1>2, <1>4, <1>5 DEF PrefixWords
  <2> QED BY <1>1, <1>5, <2>1, SkipIs
<1>10. PICK e : Matches(w, k, e)
  BY <1>1, <1>2, <1>4, <1>8, MatchExists
<1>11. ExprEnd(w, j) = e
  BY <1>1, <1>2, <1>4, <1>8, <1>9, <1>10, EndOfList
<1> QED BY <1>1, <1>3, <1>4, <1>8, <1>10, <1>11

\* A parenthesis or a quote is the tail of a dot when it is behind one.
LEMMA TailBehindDot ==
  ASSUME NEW w \in Seq(Tokens), NEW i \in 1 .. Len(w)
  PROVE  /\ w[i] = "(" => ((\E d \in ListDots(w) : i = TailOf(w, d)) <=> BehindDot(w, i))
         /\ w[i] = "'" => ((\E d \in QuoteDots(w) : i = TailOf(w, d)) <=> BehindDot(w, i))
<1>1. PICK n \in Nat : n = Len(w) /\ DOMAIN w = 1 .. n /\ i \in 1 .. n
  OBVIOUS
<1>2. ASSUME w[i] # "comment", NEW d \in Dots(w), TailOf(w, d) = i PROVE BehindDot(w, i)
  BY <1>2, TailIs DEF BehindDot, Dots
<1>3. ASSUME w[i] # "comment", BehindDot(w, i) PROVE \E d \in Dots(w) : TailOf(w, d) = i
  <2>1. PICK d \in 1 .. i - 1 : w[d] = "." /\ Comments(w, d + 1, i - 1)
    BY <1>3 DEF BehindDot
  <2>2. d \in Dots(w)
    BY <1>1, <2>1 DEF Dots
  <2> QED BY <1>3, <2>1, <2>2, TailIs
<1>4. CASE w[i] = "("
  <2>1. "(" # "comment" /\ "(" # "'"
    OBVIOUS
  <2> QED BY <1>2, <1>3, <1>4, <2>1 DEF ListDots
<1>5. CASE w[i] = "'"
  <2>1. "'" # "comment" /\ "(" # "'"
    OBVIOUS
  <2> QED BY <1>2, <1>3, <1>5, <2>1 DEF QuoteDots
<1> QED BY <1>4, <1>5

\* Which words are not printed.
LEMMA DroppedIs ==
  ASSUME NEW w \in Seq(Tokens), WellFormed(w), NEW i \in 1 .. Len(w)
  PROVE  /\ w[i] = "comment" => i \in Dropped(w)
         /\ w[i] = "." => (i \in Dropped(w) <=> i \in ListDots(w) \cup QuoteDots(w))
         /\ w[i] = "(" => (i \in Dropped(w) <=> BehindDot(w, i))
         /\ w[i] = ")" => (i \in Dropped(w) <=> \E d \in ListDots(w) : i = ExprEnd(w, d + 1))
         /\ w[i] \notin Marks \ {"'"} => i \notin Dropped(w)
<1>1. i \in DOMAIN w
  OBVIOUS
<1>2. \A d \in ListDots(w) : w[TailOf(w, d)] = "(" /\ w[d] = "."
  BY DEF ListDots, Dots
<1>3. \A d \in QuoteDots(w) : w[d] = "."
  BY DEF QuoteDots, Dots
<1>4. \A d \in ListDots(w) : w[ExprEnd(w, d + 1)] = ")"
  BY ListDotEnd DEF Matches
<1>5. i \in Dropped(w) <=>
        \/ w[i] = "comment" \/ i \in ListDots(w) \/ i \in QuoteDots(w)
        \/ \E d \in ListDots(w) : i = TailOf(w, d)
        \/ \E d \in ListDots(w) : i = ExprEnd(w, d + 1)
  BY <1>1 DEF Dropped
<1>6. "(" \in Marks \ {"'"} /\ ")" \in Marks \ {"'"} /\ "." \in Marks \ {"'"} /\ "comment" \in Marks \ {"'"}
  BY DEF Marks
<1>7. w[i] = "comment" => i \in Dropped(w)
  BY <1>5
<1>8. ASSUME w[i] = "." PROVE i \in Dropped(w) <=> i \in ListDots(w) \cup QuoteDots(w)
  <2>1. ~\E d \in ListDots(w) : i = TailOf(w, d)
    BY <1>2, <1>8
  <2>2. ~\E d \in ListDots(w) : i = ExprEnd(w, d + 1)
    BY <1>4, <1>8
  <2> QED BY <1>5, <1>8, <2>1, <2>2
<1>9. ASSUME w[i] = "(" PROVE i \in Dropped(w) <=> BehindDot(w, i)
  <2>1. i \notin ListDots(w) /\ i \notin QuoteDots(w)
    BY <1>2, <1>3, <1>9
  <2>2. ~\E d \in ListDots(w) : i = ExprEnd(w, d + 1)
    BY <1>4, <1>9
  <2> QED BY <1>5, <1>9, <2>1, <2>2, TailBehindDot
<1>10. ASSUME w[i] = ")" PROVE i \in Dropped(w) <=> \E d \in ListDots(w) : i = ExprEnd(w, d + 1)
  <2>1. i \notin ListDots(w) /\ i \notin QuoteDots(w)
    BY <1>2, <1>3, <1>10
  <2>2. ~\E d \in ListDots(w) : i = TailOf(w, d)
    BY <1>2, <1>10
  <2> QED BY <1>5, <1>10, <2>1, <2>2
<1>11. ASSUME w[i] \notin Marks \ {"'"} PROVE i \notin Dropped(w)
  <2>1. i \notin ListDots(w) /\ i \notin QuoteDots(w)
    BY <1>2, <1>3, <1>6, <1>11
  <2>2. ~\E d \in ListDots(w) : i = TailOf(w, d)
    BY <1>2, <1>6, <1>11
  <2>3. ~\E d \in ListDots(w) : i = ExprEnd(w, d + 1)
    BY <1>4, <1>6, <1>11
  <2> QED BY <1>5, <1>6, <1>11, <2>1, <2>2, <2>3
<1> QED BY <1>7, <1>8, <1>9, <1>10, <1>11

\* What a word adds to the print: nothing, itself, or the name of its macro.
LEMMA PieceIs ==
  ASSUME NEW w \in Seq(Tokens), WellFormed(w), NEW i \in 1 .. Len(w)
  PROVE  /\ w[i] = "comment" => Piece(w, i) = <<>>
         /\ w[i] = "(" => Piece(w, i) = IF BehindDot(w, i) THEN <<>> ELSE <<"(">>
         /\ w[i] = "'" => Piece(w, i) = IF BehindDot(w, i) THEN <<"quote">> ELSE <<"'">>
         /\ w[i] \notin Marks => Piece(w, i) = <<w[i]>>
<1>1. w[i] # "'" => ~\E d \in QuoteDots(w) : i = TailOf(w, d)
  BY DEF QuoteDots
<1>2. CASE w[i] = "comment"
  BY <1>2, DroppedIs DEF Piece, Marks
<1>3. CASE w[i] = "("
  <2>1. i \in Dropped(w) <=> BehindDot(w, i)
    BY <1>3, DroppedIs
  <2>2. Piece(w, i) = IF i \in Dropped(w) THEN <<>> ELSE <<"(">>
    BY <1>1, <1>3 DEF Piece
  <2> QED BY <1>3, <2>1, <2>2 DEF Marks
<1>4. CASE w[i] = "'"
  <2>1. i \notin Dropped(w)
    BY <1>4, DroppedIs
  <2>2. Piece(w, i) = <<IF \E d \in QuoteDots(w) : i = TailOf(w, d) THEN "quote" ELSE "'">>
    BY <1>4, <2>1 DEF Piece
  <2>3. (\E d \in QuoteDots(w) : i = TailOf(w, d)) <=> BehindDot(w, i)
    BY <1>4, TailBehindDot
  <2>4. Piece(w, i) = IF BehindDot(w, i) THEN <<"quote">> ELSE <<"'">>
    BY <2>2, <2>3
  <2> QED BY <1>4, <2>4 DEF Marks
<1>5. CASE w[i] \notin Marks
  <2>1. i \notin Dropped(w)
    BY <1>5, DroppedIs
  <2>2. w[i] # "'" /\ w[i] # "(" /\ w[i] # "comment"
    BY <1>5 DEF Marks
  <2>3. Piece(w, i) = <<w[i]>>
    BY <1>1, <2>1, <2>2 DEF Piece
  <2> QED BY <2>2, <2>3
<1> QED BY <1>2, <1>3, <1>4, <1>5

\* A dot whose tail begins at k is printed unless that is a list or a quote.
LEMMA DotPiece ==
  ASSUME NEW w \in Seq(Tokens), WellFormed(w), NEW i \in 1 .. Len(w), w[i] = ".",
         NEW k \in i + 1 .. Len(w), w[k] # "comment", Comments(w, i + 1, k - 1)
  PROVE  Piece(w, i) = IF w[k] = "(" \/ w[k] = "'" THEN <<>> ELSE <<".">>
<1>1. PICK n \in Nat : n = Len(w) /\ i \in 1 .. n /\ k \in i + 1 .. n /\ DOMAIN w = 1 .. n
  OBVIOUS
<1>2. i \in Dots(w) /\ k \in 1 .. Len(w) /\ i \in 1 .. k - 1
  BY <1>1 DEF Dots
<1>3. TailOf(w, i) = k
  BY <1>2, TailIs
<1>4. i \in Dropped(w) <=> i \in ListDots(w) \cup QuoteDots(w)
  BY DroppedIs
<1>5. i \in ListDots(w) \cup QuoteDots(w) <=> w[k] = "(" \/ w[k] = "'"
  BY <1>2, <1>3 DEF ListDots, QuoteDots
<1>6. ~\E d \in QuoteDots(w) : i = TailOf(w, d)
  BY DEF QuoteDots
<1> QED BY <1>4, <1>5, <1>6 DEF Piece

\* A parenthesis is printed unless it closes a list that is a dotted tail.
LEMMA ClosePiece ==
  ASSUME NEW w \in Seq(Tokens), WellFormed(w), NEW k \in 1 .. Len(w), w[k] = "(",
         NEW i, Matches(w, k, i)
  PROVE  Piece(w, i) = IF BehindDot(w, k) THEN <<>> ELSE <<")">>
<1>1. i \in 1 .. Len(w) /\ w[i] = ")"
  BY DEF Matches
<1>2. ~\E d \in QuoteDots(w) : i = TailOf(w, d)
  BY <1>1 DEF QuoteDots
<1>3. i \in Dropped(w) <=> \E d \in ListDots(w) : i = ExprEnd(w, d + 1)
  BY <1>1, DroppedIs
<1>4. (\E d \in ListDots(w) : i = ExprEnd(w, d + 1)) <=> (\E d \in ListDots(w) : k = TailOf(w, d))
  <2>1. ASSUME NEW d \in ListDots(w), i = ExprEnd(w, d + 1) PROVE k = TailOf(w, d)
    <3>1. TailOf(w, d) \in 1 .. Len(w) /\ Matches(w, TailOf(w, d), i) /\ w[TailOf(w, d)] = "("
      BY <2>1, ListDotEnd DEF ListDots
    <3> QED BY <3>1, MatchInjective
  <2>2. ASSUME NEW d \in ListDots(w), k = TailOf(w, d) PROVE i = ExprEnd(w, d + 1)
    <3>1. Matches(w, k, ExprEnd(w, d + 1)) /\ k \in Nat
      BY <2>2, ListDotEnd
    <3> QED BY <3>1, MatchUnique
  <2> QED BY <2>1, <2>2
<1>5. (\E d \in ListDots(w) : k = TailOf(w, d)) <=> BehindDot(w, k)
  BY TailBehindDot
<1> QED BY <1>1, <1>2, <1>3, <1>4, <1>5 DEF Piece

-----------------------------------------------------------------------------
(* What the stack says of the words that have been read                      *)

\* The frames of a stack; a list with a dotted tail is not empty.
Frames == {f \in [kind : {"list", "quote", "dot", "close"}, items : Seq(Tokens)] :
             f.kind = "close" => f.items # <<>>}

\* Mode, of any stack.
ModeOf(stk) == IF stk = <<>> THEN "top" ELSE Last(stk).kind

\* The parenthesis at a is open behind the word z - 1, and has been since.
Inside(w, a, z) ==
  /\ w[a] = "("
  /\ Depth(w, z - 1) = Depth(w, a - 1) + 1
  /\ \A h \in a .. z - 1 : Depth(w, h) > Depth(w, a - 1)

\* The words from a on, up to z, add u to what has been said.
Adds(w, a, z, u) == Told(w, z - 1) = Told(w, a - 1) \o u

\* The read macro a waits for its expression.
QuoteOk(w, a, q, z) ==
  /\ w[a] = "'" /\ q = a /\ Comments(w, q + 1, z - 1)
  /\ Depth(w, z - 1) = Depth(w, a - 1)
  /\ \A h \in a .. z - 1 : Depth(w, h) >= Depth(w, a - 1)
  /\ Adds(w, a, z, Piece(w, a))

\* The list that begins at a has these items.
ListOk(w, items, a, z) ==
  /\ Inside(w, a, z)
  /\ items = <<>> => Comments(w, a + 1, z - 1)
  /\ Adds(w, a, z, Piece(w, a) \o items)

\* The same list waits for the tail behind the dot q.
DotOk(w, items, a, q, z) ==
  /\ Inside(w, a, z)
  /\ q \in a + 1 .. z - 1 /\ w[q] = "." /\ Comments(w, q + 1, z - 1)
  /\ Adds(w, a, z, Piece(w, a) \o (items \o Piece(w, q)))

\* The tail has been read, what is missing is the parenthesis.
CloseOk(w, items, a, q, z) ==
  /\ Inside(w, a, z)
  /\ q \in a + 1 .. z - 1 /\ w[q] = "." /\ ExprEnd(w, q + 1) = z - 1
  /\ \E u \in Seq(Tokens) :
       items = <<"(">> \o (u \o <<")">>) /\ Adds(w, a, z, Piece(w, a) \o u)

\* The frame f was begun by the word a and marked by the word q; it says what stands
\* before the word z.
FrameOk(w, f, a, q, z) ==
  /\ a \in Nat /\ a > 0 /\ z \in a + 1 .. Len(w) + 1
  /\ \/ f.kind = "quote" /\ QuoteOk(w, a, q, z)
     \/ f.kind = "list" /\ ListOk(w, f.items, a, z)
     \/ f.kind = "dot" /\ DotOk(w, f.items, a, q, z)
     \/ f.kind = "close" /\ CloseOk(w, f.items, a, q, z)

\* The word z is behind a dot exactly when the frame below says so.
BehindOk(w, mode, z) == mode = "close" \/ (BehindDot(w, z) <=> mode = "dot")

\* The frame i was begun by the word p[i] and marked by q[i]; the word p[Len(stk) + 1]
\* is the next one, or begins the value that is returned.
FramesOk(w, stk, p, q) ==
  /\ \A i \in 1 .. Len(stk) :
       /\ FrameOk(w, stk[i], p[i], q[i], p[i + 1])
       /\ stk[i].kind = "close" => i = Len(stk)
       /\ BehindOk(w, stk[i].kind, p[i + 1])
  /\ p[1] \in 1 .. Len(w) + 1 /\ ~BehindDot(w, p[1])

-----------------------------------------------------------------------------
(* The words before z have been read, those of complete expressions say e    *)

Stands(w, stk, z, e) ==
  \E p, q \in [Nat -> Nat] :
    /\ FramesOk(w, stk, p, q) /\ p[Len(stk) + 1] = z
    /\ Depth(w, p[1] - 1) = 0 /\ Told(w, p[1] - 1) = e

\* A frame on top.
LEMMA Pushed ==
  ASSUME NEW w, NEW stk \in Seq(Frames), NEW y \in Nat, NEW e, Stands(w, stk, y, e),
         ModeOf(stk) # "close", NEW f \in Frames, NEW m \in Nat, NEW z \in Nat,
         FrameOk(w, f, y, m, z), BehindOk(w, f.kind, z)
  PROVE  Stands(w, Append(stk, f), z, e)
<1> PICK p \in [Nat -> Nat], q \in [Nat -> Nat] :
      /\ FramesOk(w, stk, p, q) /\ p[Len(stk) + 1] = y
      /\ Depth(w, p[1] - 1) = 0 /\ Told(w, p[1] - 1) = e
  BY DEF Stands
<1>1. PICK n \in Nat : n = Len(stk)
  OBVIOUS
<1>2. PICK t : t = Append(stk, f)
  OBVIOUS
<1>3. Len(t) = n + 1 /\ t[n + 1] = f /\ \A i \in 1 .. n : t[i] = stk[i]
  BY <1>1, <1>2
<1>4. PICK r : r = [p EXCEPT ![n + 2] = z]
  OBVIOUS
<1>5. PICK s : s = [q EXCEPT ![n + 1] = m]
  OBVIOUS
<1>6. r \in [Nat -> Nat] /\ s \in [Nat -> Nat]
  BY <1>4, <1>5
<1>7. /\ r[n + 2] = z /\ s[n + 1] = m
      /\ \A i \in 1 .. n + 1 : r[i] = p[i]
      /\ \A i \in 1 .. n : s[i] = q[i]
  <2>1. n + 2 \in Nat /\ n + 1 \in Nat
    OBVIOUS
  <2>2. r[n + 2] = z /\ s[n + 1] = m
    BY <1>4, <1>5, <2>1
  <2>3. \A i \in 1 .. n + 1 : i \in Nat /\ i # n + 2
    OBVIOUS
  <2>4. \A i \in 1 .. n : i \in Nat /\ i # n + 1
    OBVIOUS
  <2> QED BY <1>4, <1>5, <2>2, <2>3, <2>4
<1>8. \A i \in 1 .. n : stk[i].kind # "close"
  <2>1. n # 0 => Last(stk) = stk[n] /\ stk # <<>>
    BY <1>1, EmptySeq DEF Last
  <2>2. n # 0 => stk[n].kind # "close"
    BY <2>1 DEF ModeOf
  <2>3. \A i \in 1 .. n : i # n => stk[i].kind # "close"
    BY <1>1 DEF FramesOk
  <2>4. \A i \in 1 .. n : n # 0
    OBVIOUS
  <2> QED BY <2>2, <2>3, <2>4
<1>9. ASSUME NEW i \in 1 .. n + 1
      PROVE  /\ FrameOk(w, t[i], r[i], s[i], r[i + 1])
             /\ t[i].kind = "close" => i = n + 1
             /\ BehindOk(w, t[i].kind, r[i + 1])
  <2>1. CASE i \in 1 .. n
    <3>1. i + 1 \in 1 .. n + 1 /\ i \in 1 .. n + 1
      BY <2>1
    <3>2. r[i] = p[i] /\ r[i + 1] = p[i + 1] /\ s[i] = q[i] /\ t[i] = stk[i]
      BY <1>3, <1>7, <2>1, <3>1
    <3> QED BY <1>1, <1>8, <2>1, <3>2 DEF FramesOk
  <2>2. CASE i = n + 1
    <3>1. r[i] = p[n + 1] /\ r[i + 1] = z /\ s[i] = m /\ t[i] = f
      BY <1>3, <1>7, <2>2
    <3> QED BY <1>1, <2>2, <3>1
  <2> QED BY <2>1, <2>2
<1>10. r[1] = p[1] /\ r[n + 1] = p[n + 1]
  <2>1. 1 \in 1 .. n + 1 /\ n + 1 \in 1 .. n + 1
    OBVIOUS
  <2> QED BY <1>7, <2>1
<1>11. FramesOk(w, t, r, s)
  BY <1>3, <1>9, <1>10 DEF FramesOk
<1>12. r[Len(t) + 1] = z
  BY <1>3, <1>7
<1>13. Stands(w, t, z, e)
  BY <1>6, <1>10, <1>11, <1>12 DEF Stands
<1> QED BY <1>2, <1>13

\* The top frame, and the others without it.
LEMMA PopFrame ==
  ASSUME NEW w, NEW stk \in Seq(Frames), stk # <<>>, NEW p, NEW q, FramesOk(w, stk, p, q)
  PROVE  /\ Front(stk) \in Seq(Frames) /\ Len(stk) \in Nat /\ Len(Front(stk)) + 1 = Len(stk)
         /\ FramesOk(w, Front(stk), p, q)
         /\ ModeOf(Front(stk)) # "close"
         /\ BehindDot(w, p[Len(stk)]) <=> ModeOf(Front(stk)) = "dot"
         /\ FrameOk(w, Last(stk), p[Len(stk)], q[Len(stk)], p[Len(stk) + 1])
         /\ BehindOk(w, Last(stk).kind, p[Len(stk) + 1])
         /\ Last(stk) \in Frames /\ ModeOf(stk) = Last(stk).kind
<1>1. PICK n \in Nat : n = Len(stk) /\ n > 0
  BY EmptySeq
<1>2. PICK t : t = Front(stk)
  OBVIOUS
<1>3. t \in Seq(Frames) /\ Len(t) = n - 1 /\ \A i \in 1 .. n - 1 : t[i] = stk[i]
  <2>1. t = SubSeq(stk, 1, n - 1)
    BY <1>1, <1>2 DEF Front
  <2>2. \A i \in 1 .. n - 1 : stk[i] \in Frames
    BY <1>1
  <2> QED BY <1>1, <2>1, <2>2, SubSeqProperties
<1>4. Last(stk) = stk[n] /\ n \in 1 .. n /\ stk[n] \in Frames
  BY <1>1 DEF Last
<1>5. FrameOk(w, stk[n], p[n], q[n], p[n + 1]) /\ BehindOk(w, stk[n].kind, p[n + 1])
  BY <1>1, <1>4 DEF FramesOk
<1>6. ASSUME NEW i \in 1 .. n - 1
      PROVE  /\ FrameOk(w, t[i], p[i], q[i], p[i + 1])
             /\ t[i].kind # "close" /\ BehindOk(w, t[i].kind, p[i + 1])
  <2>1. i \in 1 .. n /\ i # n
    OBVIOUS
  <2> QED BY <1>1, <1>3, <2>1 DEF FramesOk
<1>7. FramesOk(w, t, p, q)
  BY <1>3, <1>6 DEF FramesOk
<1>8. ModeOf(t) # "close" /\ (BehindDot(w, p[n]) <=> ModeOf(t) = "dot")
  <2>1. CASE n = 1
    <3>1. t = <<>>
      BY <1>3, <2>1, EmptySeq
    <3> QED BY <2>1, <3>1 DEF ModeOf, FramesOk
  <2>2. CASE n # 1
    <3>1. n - 1 \in 1 .. n - 1 /\ (n - 1) + 1 = n
      BY <1>1, <2>2
    <3>2. t # <<>> /\ Last(t) = t[n - 1]
      BY <1>3, <2>2, <3>1, EmptySeq DEF Last
    <3>3. ModeOf(t) = t[n - 1].kind
      BY <3>2 DEF ModeOf
    <3> QED BY <1>6, <3>1, <3>3 DEF BehindOk
  <2> QED BY <2>1, <2>2
<1>9. ModeOf(stk) = Last(stk).kind
  BY DEF ModeOf
<1> QED BY <1>1, <1>2, <1>3, <1>4, <1>5, <1>7, <1>8, <1>9

\* Outside of every expression.
LEMMA StandsTop ==
  ASSUME NEW w, NEW z \in Nat, NEW e
  PROVE  Stands(w, <<>>, z, e) <=>
           /\ z \in 1 .. Len(w) + 1 /\ ~BehindDot(w, z)
           /\ Depth(w, z - 1) = 0 /\ Told(w, z - 1) = e
<1>1. Len(<<>>) = 0 /\ 0 + 1 = 1
  OBVIOUS
<1>2. ASSUME z \in 1 .. Len(w) + 1, ~BehindDot(w, z), Depth(w, z - 1) = 0, Told(w, z - 1) = e
      PROVE  Stands(w, <<>>, z, e)
  <2>1. PICK p : p = [i \in Nat |-> z]
    OBVIOUS
  <2>2. p \in [Nat -> Nat] /\ p[1] = z
    BY <2>1
  <2>3. FramesOk(w, <<>>, p, p)
    BY <1>1, <1>2, <2>2 DEF FramesOk
  <2> QED BY <1>1, <1>2, <2>2, <2>3 DEF Stands
<1>3. ASSUME Stands(w, <<>>, z, e)
      PROVE  /\ z \in 1 .. Len(w) + 1 /\ ~BehindDot(w, z)
             /\ Depth(w, z - 1) = 0 /\ Told(w, z - 1) = e
  BY <1>1, <1>3 DEF Stands, FramesOk
<1> QED BY <1>2, <1>3

\* Without the top frame the reader stands where that frame was begun.
LEMMA Popped ==
  ASSUME NEW w, NEW stk \in Seq(Frames), NEW z \in Nat, NEW e, Stands(w, stk, z, e),
         stk # <<>>
  PROVE  \E a \in Nat, m \in Nat :
           /\ Stands(w, Front(stk), a, e) /\ FrameOk(w, Last(stk), a, m, z)
           /\ Front(stk) \in Seq(Frames) /\ Last(stk) \in Frames
           /\ ModeOf(Front(stk)) # "close" /\ ModeOf(stk) = Last(stk).kind
           /\ BehindDot(w, a) <=> ModeOf(Front(stk)) = "dot"
           /\ BehindOk(w, Last(stk).kind, z)
<1>1. PICK p \in [Nat -> Nat], q \in [Nat -> Nat] :
        /\ FramesOk(w, stk, p, q) /\ p[Len(stk) + 1] = z
        /\ Depth(w, p[1] - 1) = 0 /\ Told(w, p[1] - 1) = e
  BY DEF Stands
<1>2. /\ Front(stk) \in Seq(Frames) /\ Len(stk) \in Nat /\ Len(Front(stk)) + 1 = Len(stk)
      /\ FramesOk(w, Front(stk), p, q)
      /\ ModeOf(Front(stk)) # "close"
      /\ BehindDot(w, p[Len(stk)]) <=> ModeOf(Front(stk)) = "dot"
      /\ FrameOk(w, Last(stk), p[Len(stk)], q[Len(stk)], p[Len(stk) + 1])
      /\ BehindOk(w, Last(stk).kind, p[Len(stk) + 1])
      /\ Last(stk) \in Frames /\ ModeOf(stk) = Last(stk).kind
  BY <1>1, PopFrame
<1>3. p[Len(stk)] \in Nat /\ q[Len(stk)] \in Nat
  BY <1>2
<1>4. Stands(w, Front(stk), p[Len(stk)], e)
  BY <1>1, <1>2 DEF Stands
<1> QED BY <1>1, <1>2, <1>3, <1>4

-----------------------------------------------------------------------------
\* DepthStep, for the word z.
LEMMA DepthAt ==
  ASSUME NEW w, NEW z \in Nat, z > 0
  PROVE  /\ Depth(w, z - 1) \in Int /\ Depth(w, z) \in Int
         /\ Depth(w, z) = Depth(w, z - 1) + Shift(w[z])
<1>1. z - 1 \in Nat /\ (z - 1) + 1 = z
  OBVIOUS
<1>2. PICK m \in Nat : m = z - 1 /\ m + 1 = z
  BY <1>1
<1>3. Depth(w, m) \in Int /\ Depth(w, m + 1) = Depth(w, m) + Shift(w[m + 1]) /\ Depth(w, z) \in Int
  BY DepthStep
<1> QED BY <1>2, <1>3

\* ToldStep, for the word z.
LEMMA ToldAt ==
  ASSUME NEW w \in Seq(Tokens), NEW z \in 1 .. Len(w)
  PROVE  /\ Told(w, z - 1) \in Seq(Tokens) /\ Told(w, z) \in Seq(Tokens)
         /\ Told(w, z) = Told(w, z - 1) \o Piece(w, z)
<1>1. PICK n \in Nat : n = Len(w)
  OBVIOUS
<1>2. PICK m \in 0 .. n : m = z - 1 /\ m + 1 = z /\ m < n /\ z \in 0 .. n
  BY <1>1
<1>3. Told(w, m + 1) = Told(w, m) \o Piece(w, m + 1) /\ Told(w, m) \in Seq(Tokens)
  BY <1>1, <1>2, ToldStep
<1>4. Told(w, z) \in Seq(Tokens)
  BY <1>1, <1>2, ToldStep
<1> QED BY <1>2, <1>3, <1>4

\* An open parenthesis stays open over words that are balanced.
LEMMA InsideOver ==
  ASSUME NEW w, NEW a \in Nat, NEW b \in Nat, NEW n \in Nat, a > 0, a < b, b <= n,
         Inside(w, a, b), Depth(w, n) = Depth(w, b - 1),
         \A h \in b .. n : Depth(w, h) >= Depth(w, b - 1)
  PROVE  Inside(w, a, n + 1)
<1>1. (n + 1) - 1 = n
  OBVIOUS
<1>2. Depth(w, b - 1) \in Int /\ Depth(w, a - 1) \in Int
  BY DepthAt
<1>3. Depth(w, b - 1) = Depth(w, a - 1) + 1
  BY DEF Inside
<1>4. ASSUME NEW h \in a .. n PROVE Depth(w, h) > Depth(w, a - 1)
  <2>1. CASE h \in a .. b - 1
    BY <2>1 DEF Inside
  <2>2. CASE h \in b .. n
    <3>1. h \in Nat /\ h > 0
      BY <2>2
    <3>2. Depth(w, h) \in Int /\ Depth(w, h) >= Depth(w, b - 1)
      BY <2>2, <3>1, DepthAt
    <3> QED BY <1>2, <1>3, <3>2
  <2> QED BY <2>1, <2>2
<1> QED BY <1>1, <1>3, <1>4 DEF Inside

\* A word that is no parenthesis.
LEMMA Level ==
  ASSUME NEW w, NEW z \in Nat, z > 0, w[z] # "(", w[z] # ")"
  PROVE  Depth(w, z) = Depth(w, z - 1) /\ \A h \in z .. z : Depth(w, h) >= Depth(w, z - 1)
<1>1. Depth(w, z) = Depth(w, z - 1) + 0 /\ Depth(w, z - 1) \in Int
  BY DepthAt DEF Shift
<1>2. \A h \in z .. z : h = z
  OBVIOUS
<1> QED BY <1>1, <1>2

\* A name for a grouping, so that it can be instantiated without being expanded.
Regroup(a, b, c) == (a \o b) \o c = a \o (b \o c)

\* Concatenation is associative.
LEMMA Regrouped == \A a, b, c \in Seq(Tokens) : Regroup(a, b, c)
<1> SUFFICES ASSUME NEW a \in Seq(Tokens), NEW b \in Seq(Tokens), NEW c \in Seq(Tokens)
             PROVE  Regroup(a, b, c)
  OBVIOUS
<1> QED BY ConcatAssociative DEF Regroup

\* The same, with the definition expanded.
LEMMA Assoc == \A t, u, v \in Seq(Tokens) : (t \o u) \o v = t \o (u \o v)
<1> SUFFICES ASSUME NEW t \in Seq(Tokens), NEW u \in Seq(Tokens), NEW v \in Seq(Tokens)
             PROVE  (t \o u) \o v = t \o (u \o v)
  OBVIOUS
<1> QED BY ConcatAssociative

\* What words say is added to what has been said before them.
LEMMA AddsOver ==
  ASSUME NEW w \in Seq(Tokens), NEW a \in Nat, NEW b \in Nat, NEW n \in Nat, a > 0, a <= b,
         b <= Len(w) + 1,
         NEW u \in Seq(Tokens), Adds(w, a, b, u), NEW v \in Seq(Tokens),
         Told(w, n) = Told(w, b - 1) \o v
  PROVE  Adds(w, a, n + 1, u \o v)
<1>1. (n + 1) - 1 = n
  OBVIOUS
<1>2. Told(w, a - 1) \in Seq(Tokens)
  <2>1. PICK m \in Nat : m = Len(w)
    OBVIOUS
  <2>2. PICK j \in 0 .. m : j = a - 1
    BY <2>1
  <2> QED BY <2>1, <2>2, ToldStep
<1>3. Told(w, b - 1) = Told(w, a - 1) \o u
  BY DEF Adds
<1>4. PICK t \in Seq(Tokens) : t = Told(w, a - 1)
  BY <1>2
<1>5. (t \o u) \o v = t \o (u \o v)
  BY Assoc
<1> QED BY <1>1, <1>3, <1>4, <1>5 DEF Adds

\* The words b .. n are an expression; v is its value, called for in the given mode.
ValueOk(w, b, n, mode, v) ==
  /\ n \in 1 .. Len(w) /\ b \in 1 .. n /\ ExprEnd(w, b) = n
  /\ Depth(w, n) = Depth(w, b - 1) /\ \A h \in b .. n : Depth(w, h) >= Depth(w, b - 1)
  /\ w[n] \notin {".", "comment"}
  /\ \E u \in Seq(Tokens) :
       \/ /\ w[b] = "(" /\ v = <<"(">> \o (u \o <<")">>)
          /\ Told(w, n) = Told(w, b - 1) \o (IF mode = "dot" THEN u ELSE v)
       \/ /\ w[b] = "'" /\ v = <<"'">> \o u
          /\ Told(w, n) = Told(w, b - 1) \o (IF mode = "dot" THEN <<"quote">> \o u ELSE v)
       \/ w[b] \notin Marks /\ v = <<w[b]>> /\ Told(w, n) = Told(w, b - 1) \o v

\* A word is a sequence of one word.
LEMMA Single == \A x \in Tokens : <<x>> \in Seq(Tokens) /\ <<x>> # <<>>
OBVIOUS

\* The words the reader looks for are words.
LEMMA MarkTokens == "(" \in Tokens /\ ")" \in Tokens /\ "'" \in Tokens /\ "." \in Tokens /\ "quote" \in Tokens /\ "NIL" \in Tokens
BY DEF Tokens

\* Types of concatenations, and when they are empty.
LEMMA Joined ==
  /\ \A s, t \in Seq(Tokens) : s \o t \in Seq(Tokens) /\ (s \o t = <<>> <=> s = <<>> /\ t = <<>>)
  /\ \A s \in Seq(Tokens) : <<>> \o s = s /\ s \o <<>> = s
  /\ <<>> \in Seq(Tokens)
<1>1. ASSUME NEW s \in Seq(Tokens), NEW t \in Seq(Tokens)
      PROVE  s \o t \in Seq(Tokens) /\ (s \o t = <<>> <=> s = <<>> /\ t = <<>>)
  BY ConcatProperties, ConcatEqualIffEmpty
<1>2. ASSUME NEW s \in Seq(Tokens) PROVE <<>> \o s = s /\ s \o <<>> = s
  BY ConcatEmptySeq
<1> QED BY <1>1, <1>2, EmptySeq

\* What follows from ValueOk however the expression begins.
LEMMA ValueFacts ==
  ASSUME NEW w \in Seq(Tokens), NEW b \in Nat, NEW n \in Nat, NEW mode, NEW v,
         ValueOk(w, b, n, mode, v)
  PROVE  /\ b > 0 /\ b <= n /\ n <= Len(w) /\ n \in 1 .. Len(w)
         /\ v \in Seq(Tokens) /\ v # <<>>
         /\ mode # "dot" => Told(w, n) = Told(w, b - 1) \o v
         /\ w[b] # "comment" /\ ~BehindDot(w, n + 1)
         /\ n + 1 \in 1 .. Len(w) + 1
<1>1. PICK l \in Nat : l = Len(w)
  OBVIOUS
<1>2. b \in Nat /\ n \in Nat /\ b > 0 /\ b <= n /\ n <= l /\ n > 0 /\ n \in 1 .. l /\ n + 1 \in 1 .. l + 1 /\ b \in 1 .. l
  BY <1>1 DEF ValueOk
<1>3. v \in Seq(Tokens) /\ v # <<>>
  <2>1. PICK u \in Seq(Tokens) :
          \/ v = <<"(">> \o (u \o <<")">>)
          \/ v = <<"'">> \o u
          \/ v = <<w[b]>>
    BY DEF ValueOk
  <2>2. w[b] \in Tokens
    BY <1>1, <1>2
  <2>3. /\ <<"(">> \in Seq(Tokens) /\ <<")">> \in Seq(Tokens) /\ <<"'">> \in Seq(Tokens) /\ <<w[b]>> \in Seq(Tokens)
        /\ <<"(">> # <<>> /\ <<"'">> # <<>> /\ <<w[b]>> # <<>>
    BY <2>2, Single, MarkTokens
  <2>4. <<"(">> \o (u \o <<")">>) \in Seq(Tokens) /\ <<"(">> \o (u \o <<")">>) # <<>>
    <3>1. u \o <<")">> \in Seq(Tokens)
      BY <2>3, Joined
    <3> QED BY <2>3, <3>1, Joined
  <2>5. <<"'">> \o u \in Seq(Tokens) /\ <<"'">> \o u # <<>>
    BY <2>3, Joined
  <2> QED BY <2>1, <2>3, <2>4, <2>5
<1>4. mode # "dot" => Told(w, n) = Told(w, b - 1) \o v
  BY DEF ValueOk
<1>5. w[b] # "comment"
  BY DEF ValueOk, Marks
<1>6. ~BehindDot(w, n + 1)
  BY <1>2, BehindStep DEF ValueOk
<1> QED BY <1>1, <1>2, <1>3, <1>4, <1>5, <1>6

\* A word that says nothing.
LEMMA Quiet ==
  ASSUME NEW w \in Seq(Tokens), NEW z \in 1 .. Len(w), Piece(w, z) = <<>>
  PROVE  Told(w, z) = Told(w, z - 1)
BY ToldAt, Joined

\* Types, for a word before z.
LEMMA PieceOf ==
  ASSUME NEW w \in Seq(Tokens), NEW a \in Nat, NEW z, z \in a + 1 .. Len(w) + 1, a > 0
  PROVE  Piece(w, a) \in Seq(Tokens) /\ Told(w, a - 1) \in Seq(Tokens) /\ a \in 1 .. Len(w)
<1>1. PICK l \in Nat : l = Len(w)
  OBVIOUS
<1>2. a \in 1 .. l
  BY <1>1
<1> QED BY <1>1, <1>2, PieceType, ToldAt

-----------------------------------------------------------------------------
(* One lemma for each thing the reader does with a word                      *)

\* A comment leaves the frames as they are.
LEMMA ReadComment ==
  ASSUME NEW w \in Seq(Tokens), WellFormed(w), NEW stk \in Seq(Frames),
         NEW z \in 1 .. Len(w), NEW e,
         Stands(w, stk, z, e), ModeOf(stk) # "close", w[z] = "comment"
  PROVE  Stands(w, stk, z + 1, e)
<1>1. z \in Nat /\ z > 0 /\ (z + 1) - 1 = z /\ z + 1 \in Nat /\ z + 1 \in 1 .. Len(w) + 1
  <2>1. PICK l \in Nat : l = Len(w)
    OBVIOUS
  <2> QED BY <2>1
<1>2. Told(w, z) = Told(w, z - 1)
  BY PieceIs, Quiet
<1>3. "comment" # "(" /\ "comment" # ")" /\ "comment" # "."
  OBVIOUS
<1>4. Depth(w, z) = Depth(w, z - 1) /\ \A h \in z .. z : Depth(w, h) >= Depth(w, z - 1)
  BY <1>1, <1>3, Level
<1>5. BehindDot(w, z + 1) <=> BehindDot(w, z)
  BY <1>1, <1>3, BehindStep
<1>6. CASE stk = <<>>
  <2>1. /\ z \in 1 .. Len(w) + 1 /\ ~BehindDot(w, z)
        /\ Depth(w, z - 1) = 0 /\ Told(w, z - 1) = e
    BY <1>1, <1>6, StandsTop
  <2>2. Depth(w, (z + 1) - 1) = 0 /\ Told(w, (z + 1) - 1) = e
    BY <1>1, <1>2, <1>4, <2>1
  <2>3. Stands(w, <<>>, z + 1, e)
    BY <1>1, <1>5, <2>1, <2>2, StandsTop
  <2> QED BY <1>6, <2>3
<1>7. CASE stk # <<>>
  <2>1. PICK a \in Nat, m \in Nat :
           /\ Stands(w, Front(stk), a, e) /\ FrameOk(w, Last(stk), a, m, z)
           /\ Front(stk) \in Seq(Frames) /\ Last(stk) \in Frames
           /\ ModeOf(Front(stk)) # "close" /\ ModeOf(stk) = Last(stk).kind
           /\ BehindDot(w, a) <=> ModeOf(Front(stk)) = "dot"
           /\ BehindOk(w, Last(stk).kind, z)
    BY <1>1, <1>7, Popped
  <2> DEFINE f == Last(stk)
  <2>2. a > 0 /\ z \in a + 1 .. Len(w) + 1 /\ z + 1 \in a + 1 .. Len(w) + 1 /\ a < z
    <3>1. PICK l \in Nat : l = Len(w)
      OBVIOUS
    <3> QED BY <2>1, <3>1 DEF FrameOk
  <2>3. \A u : Adds(w, a, z, u) => Adds(w, a, z + 1, u)
    BY <1>1, <1>2 DEF Adds
  <2>4. Inside(w, a, z) => Inside(w, a, z + 1)
    BY <1>1, <1>4, <2>2, InsideOver
  <2>5. \A h \in Nat : Comments(w, h, z - 1) => Comments(w, h, (z + 1) - 1)
    <3>1. \A h \in Nat : \A i \in h .. z : i \in h .. z - 1 \/ i = z
      BY <1>1
    <3> QED BY <1>1, <3>1 DEF Comments
  <2>6. FrameOk(w, f, a, m, z + 1)
    <3>1. CASE f.kind = "quote"
      <4>1. QuoteOk(w, a, m, z)
        BY <2>1, <3>1 DEF FrameOk
      <4>2. \A h \in a .. z : h \in a .. z - 1 \/ h = z
        BY <1>1
      <4>3. \A h \in a .. z : Depth(w, h) >= Depth(w, a - 1)
        <5>1. Depth(w, z) >= Depth(w, a - 1)
          <6>1. Depth(w, a - 1) \in Int
            BY <2>2, DepthAt
          <6> QED BY <1>4, <4>1, <6>1 DEF QuoteOk
        <5> QED BY <4>1, <4>2, <5>1 DEF QuoteOk
      <4>4. QuoteOk(w, a, m, z + 1)
        <5>1. m + 1 \in Nat
          OBVIOUS
        <5> QED BY <1>1, <1>4, <2>3, <2>5, <4>1, <4>3, <5>1 DEF QuoteOk
      <4> QED BY <2>2, <3>1, <4>4 DEF FrameOk
    <3>2. CASE f.kind = "list"
      <4>1. ListOk(w, f.items, a, z)
        BY <2>1, <3>2 DEF FrameOk
      <4>2. ListOk(w, f.items, a, z + 1)
        <5>1. a + 1 \in Nat
          OBVIOUS
        <5> QED BY <2>3, <2>4, <2>5, <4>1, <5>1 DEF ListOk
      <4> QED BY <2>2, <3>2, <4>2 DEF FrameOk
    <3>3. CASE f.kind = "dot"
      <4>1. DotOk(w, f.items, a, m, z)
        BY <2>1, <3>3 DEF FrameOk
      <4>2. DotOk(w, f.items, a, m, z + 1)
        <5>1. m + 1 \in Nat
          OBVIOUS
        <5>2. m \in a + 1 .. (z + 1) - 1
          BY <1>1, <4>1 DEF DotOk
        <5> QED BY <2>3, <2>4, <2>5, <4>1, <5>1, <5>2 DEF DotOk
      <4> QED BY <2>2, <3>3, <4>2 DEF FrameOk
    <3>4. f.kind \in {"list", "quote", "dot", "close"} /\ f.kind # "close"
      BY <2>1 DEF Frames
    <3> QED BY <3>1, <3>2, <3>3, <3>4
  <2>7. BehindOk(w, f.kind, z + 1)
    BY <1>5, <2>1 DEF BehindOk
  <2>8. Stands(w, Append(Front(stk), f), z + 1, e)
    <3> HIDE DEF f
    <3>1. f \in Frames
      BY <2>1 DEF f
    <3> QED BY <1>1, <2>1, <2>6, <2>7, <3>1, Pushed
  <2>9. Append(Front(stk), Last(stk)) = stk
    BY <1>7 DEF Front, Last
  <2> QED BY <2>8, <2>9
<1> QED BY <1>6, <1>7

\* Arithmetic and types, for the word z of a text.
LEMMA Around ==
  ASSUME NEW w \in Seq(Tokens), NEW z \in 1 .. Len(w)
  PROVE  /\ z \in Nat /\ z > 0 /\ (z + 1) - 1 = z /\ z + 1 \in Nat /\ z + 1 \in 1 .. Len(w) + 1
         /\ z + 1 \in z + 1 .. Len(w) + 1
         /\ Piece(w, z) \in Seq(Tokens) /\ w[z] \in Tokens
<1>1. PICK l \in Nat : l = Len(w)
  OBVIOUS
<1>2. Piece(w, z) \in Seq(Tokens)
  BY PieceType
<1> QED BY <1>1, <1>2

\* The frames that Calls, Return and Dot put on the stack.
LEMMA FrameType ==
  ASSUME NEW items \in Seq(Tokens), NEW kind \in {"list", "quote", "dot"}
  PROVE  Frame(kind, items) \in Frames /\ Frame(kind, items).kind = kind /\ Frame(kind, items).items = items
BY DEF Frame, Frames

\* A parenthesis begins the frame of a list.
LEMMA ReadOpen ==
  ASSUME NEW w \in Seq(Tokens), WellFormed(w), NEW stk \in Seq(Frames),
         NEW z \in 1 .. Len(w), NEW e,
         Stands(w, stk, z, e), ModeOf(stk) # "close", w[z] = "("
  PROVE  Stands(w, Append(stk, Frame("list", <<>>)), z + 1, e)
<1>1. /\ z \in Nat /\ z > 0 /\ (z + 1) - 1 = z /\ z + 1 \in Nat /\ z + 1 \in z + 1 .. Len(w) + 1
      /\ Piece(w, z) \in Seq(Tokens)
  BY Around
<1>2. Depth(w, z) = Depth(w, z - 1) + 1 /\ Depth(w, z - 1) \in Int
  BY <1>1, DepthAt DEF Shift
<1>3. Inside(w, z, z + 1)
  <2>1. \A h \in z .. z : h = z
    BY <1>1
  <2> QED BY <1>1, <1>2, <2>1 DEF Inside
<1>4. Adds(w, z, z + 1, Piece(w, z) \o <<>>)
  <2>1. Told(w, z) = Told(w, z - 1) \o Piece(w, z)
    BY ToldAt
  <2>2. Piece(w, z) \o <<>> = Piece(w, z)
    BY <1>1, Joined
  <2> QED BY <1>1, <2>1, <2>2 DEF Adds
<1>5. Comments(w, z + 1, (z + 1) - 1)
  <2>1. \A h \in z + 1 .. z : FALSE
    BY <1>1
  <2> QED BY <1>1, <2>1 DEF Comments
<1>6. ListOk(w, <<>>, z, z + 1)
  BY <1>3, <1>4, <1>5 DEF ListOk
<1>7. PICK f \in Frames : f = Frame("list", <<>>) /\ f.kind = "list" /\ f.items = <<>>
  BY FrameType, Joined
<1>8. FrameOk(w, f, z, 0, z + 1)
  BY <1>1, <1>6, <1>7 DEF FrameOk
<1>9. BehindOk(w, f.kind, z + 1)
  <2>1. ~BehindDot(w, z + 1)
    BY <1>1, BehindStep
  <2> QED BY <1>7, <2>1 DEF BehindOk
<1>10. Stands(w, Append(stk, f), z + 1, e)
  <2>1. 0 \in Nat
    OBVIOUS
  <2> QED BY <1>1, <1>8, <1>9, <2>1, Pushed
<1> QED BY <1>7, <1>10

\* A read macro begins the frame of a quoted expression.
LEMMA ReadQuote ==
  ASSUME NEW w \in Seq(Tokens), WellFormed(w), NEW stk \in Seq(Frames),
         NEW z \in 1 .. Len(w), NEW e,
         Stands(w, stk, z, e), ModeOf(stk) # "close", w[z] = "'"
  PROVE  Stands(w, Append(stk, Frame("quote", <<>>)), z + 1, e)
<1>1. /\ z \in Nat /\ z > 0 /\ (z + 1) - 1 = z /\ z + 1 \in Nat /\ z + 1 \in z + 1 .. Len(w) + 1
      /\ Piece(w, z) \in Seq(Tokens)
  BY Around
<1>2. Depth(w, z) = Depth(w, z - 1) /\ \A h \in z .. z : Depth(w, h) >= Depth(w, z - 1)
  BY <1>1, Level
<1>3. Adds(w, z, z + 1, Piece(w, z))
  BY <1>1, ToldAt DEF Adds
<1>4. Comments(w, z + 1, (z + 1) - 1)
  <2>1. \A h \in z + 1 .. z : FALSE
    BY <1>1
  <2> QED BY <1>1, <2>1 DEF Comments
<1>5. QuoteOk(w, z, z, z + 1)
  BY <1>1, <1>2, <1>3, <1>4 DEF QuoteOk
<1>6. PICK f \in Frames : f = Frame("quote", <<>>) /\ f.kind = "quote"
  BY FrameType, Joined
<1>7. FrameOk(w, f, z, z, z + 1)
  BY <1>1, <1>5, <1>6 DEF FrameOk
<1>8. BehindOk(w, f.kind, z + 1)
  <2>1. ~BehindDot(w, z + 1)
    BY <1>1, BehindStep
  <2> QED BY <1>6, <2>1 DEF BehindOk
<1>9. Stands(w, Append(stk, f), z + 1, e)
  BY <1>1, <1>7, <1>8, Pushed
<1> QED BY <1>6, <1>9

\* An atom is an expression.
LEMMA ReadAtom ==
  ASSUME NEW w \in Seq(Tokens), WellFormed(w), NEW z \in 1 .. Len(w), NEW mode,
         w[z] \notin Marks
  PROVE  ValueOk(w, z, z, mode, <<w[z]>>)
<1>1. z \in Nat /\ z > 0 /\ z \in 1 .. z /\ z \in z .. Len(w) + 1
  <2>1. PICK l \in Nat : l = Len(w)
    OBVIOUS
  <2> QED BY <2>1
<1>2. w[z] # "(" /\ w[z] # ")" /\ w[z] \notin PrefixWords /\ w[z] \notin {".", "comment"}
  BY DEF Marks, PrefixWords
<1>3. Depth(w, z) = Depth(w, z - 1) /\ \A h \in z .. z : Depth(w, h) >= Depth(w, z - 1)
  BY <1>1, <1>2, Level
<1>4. ExprEnd(w, z) = z
  <2>1. \A j \in z .. z - 1 : w[j] \in PrefixWords
    BY <1>1
  <2>2. Skip(w, z, PrefixWords) = z
    BY <1>1, <1>2, <2>1, SkipIs
  <2> QED BY <1>1, <1>2, <2>2, EndOfAtom
<1>5. Told(w, z) = Told(w, z - 1) \o <<w[z]>>
  BY PieceIs, ToldAt
<1>6. <<>> \in Seq(Tokens)
  BY Joined
<1> QED BY <1>1, <1>2, <1>3, <1>4, <1>5, <1>6 DEF ValueOk

\* The parenthesis z closes the one at a, and the words in between say u.
LEMMA Closed ==
  ASSUME NEW w \in Seq(Tokens), WellFormed(w), NEW a \in Nat, a > 0, NEW z \in 1 .. Len(w),
         a < z,
         Inside(w, a, z), w[z] = ")",
         NEW u \in Seq(Tokens), Adds(w, a, z, Piece(w, a) \o u),
         NEW mode, BehindDot(w, a) <=> mode = "dot"
  PROVE  ValueOk(w, a, z, mode, <<"(">> \o (u \o <<")">>))
<1>1. PICK l \in Nat : l = Len(w)
  OBVIOUS
<1>2. /\ z \in Nat /\ z > 0 /\ a \in 1 .. l /\ a \in 1 .. z /\ z \in a + 1 .. l /\ a \in a .. l + 1
      /\ z \in a + 1 .. l + 1
  BY <1>1
<1>3. /\ Depth(w, z) = Depth(w, z - 1) - 1 /\ Depth(w, a - 1) \in Int /\ Depth(w, z - 1) \in Int
      /\ Depth(w, z - 1) = Depth(w, a - 1) + 1
  BY <1>2, DepthAt DEF Shift, Inside
<1>4. Depth(w, z) = Depth(w, a - 1)
  BY <1>3
<1>5. \A h \in a .. z - 1 : Depth(w, h) > Depth(w, a - 1)
  BY DEF Inside
<1>6. \A h \in a .. z : Depth(w, h) >= Depth(w, a - 1)
  <2> TAKE h \in a .. z
  <2>1. CASE h = z
    BY <1>3, <1>4, <2>1
  <2>2. CASE h # z
    <3>1. h \in a .. z - 1 /\ h \in Nat /\ h > 0
      BY <1>2, <2>2
    <3>2. Depth(w, h) \in Int
      BY <3>1, DepthAt
    <3> QED BY <1>3, <1>5, <3>1, <3>2
  <2> QED BY <2>1, <2>2
<1>7. Matches(w, a, z)
  <2>1. \A h \in a + 1 .. z - 1 : h \in a .. z - 1
    BY <1>2
  <2> QED BY <1>1, <1>2, <1>4, <1>5, <2>1 DEF Matches
<1>8. w[a] = "("
  BY DEF Inside
<1>9. ExprEnd(w, a) = z
  <2>1. w[a] \notin PrefixWords /\ \A j \in a .. a - 1 : w[j] \in PrefixWords
    BY <1>2, <1>8 DEF PrefixWords
  <2>2. Skip(w, a, PrefixWords) = a
    BY <1>1, <1>2, <2>1, SkipIs
  <2> QED BY <1>1, <1>2, <1>7, <1>8, <2>2, EndOfList
<1>10. Piece(w, a) = (IF BehindDot(w, a) THEN <<>> ELSE <<"(">>)
       /\ Piece(w, z) = (IF BehindDot(w, a) THEN <<>> ELSE <<")">>)
  BY <1>1, <1>2, <1>7, <1>8, PieceIs, ClosePiece
<1>11. Told(w, z) = Told(w, a - 1) \o ((Piece(w, a) \o u) \o Piece(w, z))
  <2>1. Told(w, z) = Told(w, z - 1) \o Piece(w, z) /\ Piece(w, z) \in Seq(Tokens)
    BY ToldAt, PieceType
  <2>2. Piece(w, a) \in Seq(Tokens) /\ Told(w, a - 1) \in Seq(Tokens)
    BY <1>1, <1>2, PieceOf
  <2>3. Piece(w, a) \o u \in Seq(Tokens)
    BY <2>2, Joined
  <2>4. Told(w, z - 1) = Told(w, a - 1) \o (Piece(w, a) \o u)
    BY DEF Adds
  <2>5. (Told(w, a - 1) \o (Piece(w, a) \o u)) \o Piece(w, z)
          = Told(w, a - 1) \o ((Piece(w, a) \o u) \o Piece(w, z))
    <3>1. PICK x \in Seq(Tokens), y \in Seq(Tokens), t \in Seq(Tokens) :
            x = Told(w, a - 1) /\ y = Piece(w, a) \o u /\ t = Piece(w, z)
      BY <2>1, <2>2, <2>3
    <3>2. (x \o y) \o t = x \o (y \o t)
      BY Assoc
    <3> QED BY <3>1, <3>2
  <2> QED BY <2>1, <2>4, <2>5
<1>12. /\ (<<>> \o u) \o <<>> = u
       /\ (<<"(">> \o u) \o <<")">> = <<"(">> \o (u \o <<")">>)
  BY MarkTokens, Single, Joined, Assoc
<1> DEFINE v == <<"(">> \o (u \o <<")">>)
<1>13. Told(w, z) = Told(w, a - 1) \o (IF mode = "dot" THEN u ELSE v)
  BY <1>10, <1>11, <1>12
<1>14. w[z] \notin {".", "comment"}
  OBVIOUS
<1> HIDE DEF v
<1>15. v = <<"(">> \o (u \o <<")">>)
  BY DEF v
<1>16. ValueOk(w, a, z, mode, v)
  BY <1>2, <1>4, <1>6, <1>8, <1>9, <1>13, <1>14, <1>15 DEF ValueOk
<1> QED BY <1>15, <1>16

\* A parenthesis ends a list, with or without a dotted tail.
LEMMA ReadClose ==
  ASSUME NEW w \in Seq(Tokens), WellFormed(w), NEW stk \in Seq(Frames),
         NEW z \in 1 .. Len(w), NEW e,
         Stands(w, stk, z, e), w[z] = ")", stk # <<>>, NEW v,
         \/ ModeOf(stk) = "list" /\ v = <<"(">> \o Last(stk).items \o <<")">>
         \/ ModeOf(stk) = "close" /\ v = Last(stk).items
  PROVE  \E b \in Nat : Stands(w, Front(stk), b, e) /\ ValueOk(w, b, z, ModeOf(Front(stk)), v)
<1>1. z \in Nat
  BY Around
<1>2. PICK a \in Nat, m \in Nat :
           /\ Stands(w, Front(stk), a, e) /\ FrameOk(w, Last(stk), a, m, z)
           /\ Front(stk) \in Seq(Frames) /\ Last(stk) \in Frames
           /\ ModeOf(Front(stk)) # "close" /\ ModeOf(stk) = Last(stk).kind
           /\ BehindDot(w, a) <=> ModeOf(Front(stk)) = "dot"
           /\ BehindOk(w, Last(stk).kind, z)
  BY <1>1, Popped
<1>3. a > 0 /\ a < z
  <2>1. PICK l \in Nat : l = Len(w)
    OBVIOUS
  <2> QED BY <1>2, <2>1 DEF FrameOk
<1>4. PICK u \in Seq(Tokens) :
        Inside(w, a, z) /\ Adds(w, a, z, Piece(w, a) \o u) /\ v = <<"(">> \o (u \o <<")">>)
  <2>1. CASE ModeOf(stk) = "list"
    <3>1. ListOk(w, Last(stk).items, a, z)
      BY <1>2, <2>1 DEF FrameOk
    <3>2. Last(stk).items \in Seq(Tokens)
      BY <1>2 DEF Frames
    <3>3. PICK x \in Seq(Tokens), y \in Seq(Tokens), t \in Seq(Tokens) :
            x = <<"(">> /\ y = Last(stk).items /\ t = <<")">>
      BY <3>2, MarkTokens, Single
    <3>4. v = <<"(">> \o (Last(stk).items \o <<")">>)
      <4>1. v = (x \o y) \o t
        BY <2>1, <3>3
      <4>2. (x \o y) \o t = x \o (y \o t)
        BY Assoc
      <4> QED BY <3>3, <4>1, <4>2
    <3> QED BY <3>1, <3>2, <3>4 DEF ListOk
  <2>2. CASE ModeOf(stk) = "close"
    <3>1. CloseOk(w, Last(stk).items, a, m, z)
      BY <1>2, <2>2 DEF FrameOk
    <3> QED BY <2>2, <3>1 DEF CloseOk
  <2> QED BY <2>1, <2>2
<1>5. ValueOk(w, a, z, ModeOf(Front(stk)), v)
  BY <1>2, <1>3, <1>4, Closed
<1> QED BY <1>2, <1>5

\* A dot turns the frame of a list into that of its tail.
LEMMA ReadDot ==
  ASSUME NEW w \in Seq(Tokens), WellFormed(w), NEW stk \in Seq(Frames),
         NEW z \in 1 .. Len(w), NEW e,
         Stands(w, stk, z, e), w[z] = ".", ModeOf(stk) = "list", stk # <<>>
  PROVE  Stands(w, Append(Front(stk), Frame("dot", Last(stk).items)), z + 1, e)
<1>1. /\ z \in Nat /\ z > 0 /\ (z + 1) - 1 = z /\ z + 1 \in Nat
      /\ Piece(w, z) \in Seq(Tokens)
  BY Around
<1>2. PICK a \in Nat, m \in Nat :
           /\ Stands(w, Front(stk), a, e) /\ FrameOk(w, Last(stk), a, m, z)
           /\ Front(stk) \in Seq(Frames) /\ Last(stk) \in Frames
           /\ ModeOf(Front(stk)) # "close" /\ ModeOf(stk) = Last(stk).kind
  BY <1>1, Popped
<1>3. PICK items \in Seq(Tokens) : items = Last(stk).items
  BY <1>2 DEF Frames
<1>4. a > 0 /\ a < z /\ z + 1 \in a + 1 .. Len(w) + 1 /\ z \in a + 1 .. z /\ z \in a + 1 .. Len(w) + 1
  <2>1. PICK l \in Nat : l = Len(w)
    OBVIOUS
  <2> QED BY <1>2, <2>1 DEF FrameOk
<1>5. ListOk(w, items, a, z)
  BY <1>2, <1>3 DEF FrameOk
<1>6. Inside(w, a, z + 1)
  <2>1. Depth(w, z) = Depth(w, z - 1) /\ \A h \in z .. z : Depth(w, h) >= Depth(w, z - 1)
    BY <1>1, Level
  <2> QED BY <1>1, <1>4, <1>5, <2>1, InsideOver DEF ListOk
<1>7. Piece(w, a) \in Seq(Tokens)
  BY <1>4, PieceOf
<1>8. Adds(w, a, z + 1, Piece(w, a) \o (items \o Piece(w, z)))
  <2>1. Told(w, z) = Told(w, z - 1) \o Piece(w, z)
    BY ToldAt
  <2>2. Adds(w, a, z, Piece(w, a) \o items) /\ Piece(w, a) \o items \in Seq(Tokens)
    BY <1>5, <1>7, Joined DEF ListOk
  <2>3. a <= z /\ z <= Len(w) + 1
    BY <1>4
  <2>4. Adds(w, a, z + 1, (Piece(w, a) \o items) \o Piece(w, z))
    BY <1>1, <1>4, <2>1, <2>2, <2>3, AddsOver
  <2> QED BY <1>1, <1>7, <2>4, Assoc
<1>9. Comments(w, z + 1, (z + 1) - 1)
  <2>1. \A h \in z + 1 .. z : FALSE
    BY <1>1
  <2> QED BY <1>1, <2>1 DEF Comments
<1>10. DotOk(w, items, a, z, z + 1)
  BY <1>1, <1>4, <1>6, <1>8, <1>9 DEF DotOk
<1>11. PICK f \in Frames : f = Frame("dot", items) /\ f.kind = "dot" /\ f.items = items
  BY FrameType
<1>12. FrameOk(w, f, a, z, z + 1)
  BY <1>4, <1>10, <1>11 DEF FrameOk
<1>13. BehindOk(w, f.kind, z + 1)
  BY <1>1, <1>11, BehindStep DEF BehindOk
<1>14. Stands(w, Append(Front(stk), f), z + 1, e)
  BY <1>1, <1>2, <1>12, <1>13, Pushed
<1> QED BY <1>3, <1>11, <1>14

-----------------------------------------------------------------------------
(* One lemma for each caller that takes a value                              *)

\* The loop evaluates a value: its words are told.
LEMMA TakeTop ==
  ASSUME NEW w \in Seq(Tokens), NEW b \in Nat, NEW n \in Nat, NEW e \in Seq(Tokens), NEW v,
         Stands(w, <<>>, b, e), ValueOk(w, b, n, "top", v)
  PROVE  Stands(w, <<>>, n + 1, e \o v)
<1>1. /\ n \in Nat /\ n + 1 \in 1 .. Len(w) + 1 /\ ~BehindDot(w, n + 1)
      /\ Told(w, n) = Told(w, b - 1) \o v
  BY ValueFacts
<1>2. Depth(w, b - 1) = 0 /\ Told(w, b - 1) = e
  BY StandsTop
<1>3. (n + 1) - 1 = n /\ n + 1 \in Nat
  BY <1>1
<1>4. Depth(w, n) = Depth(w, b - 1)
  BY DEF ValueOk
<1> QED BY <1>1, <1>2, <1>3, <1>4, StandsTop

\* The value behind a read macro makes a longer value.
LEMMA TakeQuote ==
  ASSUME NEW w \in Seq(Tokens), WellFormed(w), NEW stk \in Seq(Frames), NEW b \in Nat,
         NEW e, NEW n \in Nat, NEW v,
         Stands(w, stk, b, e), ValueOk(w, b, n, "quote", v), ModeOf(stk) = "quote", stk # <<>>
  PROVE  \E a \in Nat : Stands(w, Front(stk), a, e) /\ ValueOk(w, a, n, ModeOf(Front(stk)), <<"'">> \o v)
<1>1. PICK a \in Nat, m \in Nat :
           /\ Stands(w, Front(stk), a, e) /\ FrameOk(w, Last(stk), a, m, b)
           /\ Front(stk) \in Seq(Frames) /\ Last(stk) \in Frames
           /\ ModeOf(Front(stk)) # "close" /\ ModeOf(stk) = Last(stk).kind
           /\ BehindDot(w, a) <=> ModeOf(Front(stk)) = "dot"
  BY Popped
<1>2. /\ b > 0 /\ n \in Nat /\ b <= n /\ n \in 1 .. Len(w) /\ v \in Seq(Tokens)
      /\ Told(w, n) = Told(w, b - 1) \o v
  BY ValueFacts
<1>3. QuoteOk(w, a, m, b)
  BY <1>1 DEF FrameOk
<1>4. a > 0 /\ a < b /\ b \in a .. Len(w) + 1 /\ a \in 1 .. n /\ a \in Nat \ {0}
      /\ b \in a + 1 .. Len(w) + 1 /\ a \in 1 .. Len(w)
  <2>1. PICK l \in Nat : l = Len(w)
    OBVIOUS
  <2> QED BY <1>1, <1>2, <2>1 DEF FrameOk
<1>5. ExprEnd(w, a) = n
  <2>1. \A j \in a .. b - 1 : j = a \/ j \in a + 1 .. b - 1
    BY <1>4
  <2>2. \A j \in a .. b - 1 : w[j] \in PrefixWords
    BY <1>3, <2>1 DEF QuoteOk, Comments, PrefixWords
  <2>3. ExprEnd(w, a) = ExprEnd(w, b)
    BY <1>4, <2>2, EndBehindPrefixes
  <2> QED BY <2>3 DEF ValueOk
<1>6. Depth(w, n) = Depth(w, a - 1) /\ \A h \in a .. n : Depth(w, h) >= Depth(w, a - 1)
  <2>1. \A h \in a .. n : h \in a .. b - 1 \/ h \in b .. n
    BY <1>2, <1>4
  <2>2. Depth(w, b - 1) = Depth(w, a - 1)
    BY <1>3 DEF QuoteOk
  <2>3. Depth(w, n) = Depth(w, b - 1) /\ \A h \in b .. n : Depth(w, h) >= Depth(w, b - 1)
    BY DEF ValueOk
  <2>4. \A h \in a .. b - 1 : Depth(w, h) >= Depth(w, a - 1)
    BY <1>3 DEF QuoteOk
  <2> QED BY <2>1, <2>2, <2>3, <2>4
<1>7. w[n] \notin {".", "comment"} /\ w[a] = "'"
  BY <1>3 DEF ValueOk, QuoteOk
<1>8. Told(w, n) = Told(w, a - 1) \o (Piece(w, a) \o v)
  <2>1. Told(w, b - 1) = Told(w, a - 1) \o Piece(w, a)
    BY <1>3 DEF QuoteOk, Adds
  <2>2. PICK x \in Seq(Tokens), y \in Seq(Tokens) : x = Told(w, a - 1) /\ y = Piece(w, a)
    BY <1>4, PieceOf
  <2>3. (x \o y) \o v = x \o (y \o v)
    BY <1>2, Assoc
  <2> QED BY <1>2, <2>1, <2>2, <2>3
<1>9. Piece(w, a) = IF BehindDot(w, a) THEN <<"quote">> ELSE <<"'">>
  BY <1>4, <1>7, PieceIs
<1>10. PICK t : t = <<"'">> \o v
  OBVIOUS
<1>11. Told(w, n) = Told(w, a - 1) \o (IF ModeOf(Front(stk)) = "dot" THEN <<"quote">> \o v ELSE t)
  BY <1>1, <1>8, <1>9, <1>10
<1>12. ValueOk(w, a, n, ModeOf(Front(stk)), t)
  BY <1>2, <1>4, <1>5, <1>6, <1>7, <1>10, <1>11 DEF ValueOk
<1> QED BY <1>1, <1>10, <1>12

\* A value is one item more of a list.
LEMMA TakeItem ==
  ASSUME NEW w \in Seq(Tokens), WellFormed(w), NEW stk \in Seq(Frames), NEW b \in Nat,
         NEW e, NEW n \in Nat, NEW v,
         Stands(w, stk, b, e), ValueOk(w, b, n, "list", v), ModeOf(stk) = "list", stk # <<>>
  PROVE  Stands(w, Append(Front(stk), Frame("list", Last(stk).items \o v)), n + 1, e)
<1>1. PICK a \in Nat, m \in Nat :
           /\ Stands(w, Front(stk), a, e) /\ FrameOk(w, Last(stk), a, m, b)
           /\ Front(stk) \in Seq(Frames) /\ Last(stk) \in Frames
           /\ ModeOf(Front(stk)) # "close" /\ ModeOf(stk) = Last(stk).kind
  BY Popped
<1>2. PICK items \in Seq(Tokens) : items = Last(stk).items
  BY <1>1 DEF Frames
<1>3. /\ b > 0 /\ n \in Nat /\ b <= n /\ n \in 1 .. Len(w) /\ v \in Seq(Tokens) /\ v # <<>>
      /\ Told(w, n) = Told(w, b - 1) \o v /\ ~BehindDot(w, n + 1) /\ n + 1 \in 1 .. Len(w) + 1
  BY ValueFacts
<1>4. a > 0 /\ a < b /\ b <= Len(w) + 1 /\ b \in a + 1 .. Len(w) + 1 /\ n + 1 \in a + 1 .. Len(w) + 1
      /\ n + 1 \in Nat
  <2>1. PICK l \in Nat : l = Len(w)
    OBVIOUS
  <2> QED BY <1>1, <1>3, <2>1 DEF FrameOk
<1>5. ListOk(w, items, a, b)
  BY <1>1, <1>2 DEF FrameOk
<1>6. Inside(w, a, n + 1)
  BY <1>3, <1>4, <1>5, InsideOver DEF ListOk, ValueOk
<1>7. Piece(w, a) \in Seq(Tokens)
  BY <1>4, PieceOf
<1>8. Adds(w, a, n + 1, Piece(w, a) \o (items \o v))
  <2>1. Adds(w, a, b, Piece(w, a) \o items) /\ Piece(w, a) \o items \in Seq(Tokens) /\ a <= b
    BY <1>4, <1>5, <1>7, Joined DEF ListOk
  <2>2. Adds(w, a, n + 1, (Piece(w, a) \o items) \o v)
    BY <1>3, <1>4, <2>1, AddsOver
  <2> QED BY <1>3, <1>7, <2>2, Assoc
<1>9. PICK all \in Seq(Tokens) : all = items \o v /\ all # <<>>
  BY <1>3, Joined
<1>10. ListOk(w, all, a, n + 1)
  BY <1>6, <1>8, <1>9 DEF ListOk
<1>11. PICK f \in Frames : f = Frame("list", all) /\ f.kind = "list" /\ f.items = all
  BY FrameType
<1>12. FrameOk(w, f, a, 0, n + 1)
  BY <1>4, <1>10, <1>11 DEF FrameOk
<1>13. BehindOk(w, f.kind, n + 1)
  BY <1>3, <1>11 DEF BehindOk
<1>14. Stands(w, Append(Front(stk), f), n + 1, e)
  <2>1. 0 \in Nat
    OBVIOUS
  <2> QED BY <1>1, <1>4, <1>12, <1>13, <2>1, Pushed
<1> QED BY <1>2, <1>9, <1>11, <1>14

\* The first word of a sequence and the rest of it.
LEMMA HeadAndTail ==
  ASSUME NEW c \in Tokens, NEW t \in Seq(Tokens)
  PROVE  (<<c>> \o t)[1] = c /\ Tail(<<c>> \o t) = t
<1>1. <<c>> \in Seq(Tokens) /\ Len(<<c>>) = 1 /\ <<c>>[1] = c
  OBVIOUS
<1>2. PICK s : s = <<c>> \o t
  OBVIOUS
<1>3. PICK n \in Nat : n = Len(t)
  OBVIOUS
<1>4. /\ s \in Seq(Tokens) /\ Len(s) = 1 + n
      /\ \A i \in 1 .. 1 + n : s[i] = IF i <= 1 THEN <<c>>[i] ELSE t[i - 1]
  BY <1>1, <1>2, <1>3, ConcatProperties
<1>5. s # <<>>
  BY <1>4, EmptySeq
<1>6. Tail(s) \in Seq(Tokens) /\ Len(Tail(s)) = n /\ \A i \in 1 .. n : Tail(s)[i] = s[i + 1]
  BY <1>4, <1>5, HeadTailProperties
<1>7. \A i \in 1 .. n : Tail(s)[i] = t[i]
  <2> TAKE i \in 1 .. n
  <2>1. i + 1 \in 1 .. 1 + n /\ ~(i + 1 <= 1) /\ (i + 1) - 1 = i
    OBVIOUS
  <2> QED BY <1>4, <1>6, <2>1
<1>8. Tail(s) = t
  BY <1>3, <1>6, <1>7, SeqEqual
<1>9. s[1] = c
  BY <1>1, <1>4
<1> QED BY <1>2, <1>8, <1>9

\* A dotted list is printed with what its tail adds to it.
LEMMA DottedIs ==
  ASSUME NEW items \in Seq(Tokens), NEW t \in Seq(Tokens), NEW c \in Tokens,
         c \notin {"(", "'"}
  PROVE  /\ Dotted(items, <<"(">> \o (t \o <<")">>)) = <<"(">> \o ((items \o t) \o <<")">>)
         /\ Dotted(items, <<"'">> \o t) = <<"(">> \o ((items \o (<<"quote">> \o t)) \o <<")">>)
         /\ Dotted(items, <<c>>) = <<"(">> \o ((items \o (<<".">> \o <<c>>)) \o <<")">>)
<1>1. PICK o \in Seq(Tokens), k \in Seq(Tokens), q \in Seq(Tokens), d \in Seq(Tokens), x \in Seq(Tokens) :
        o = <<"(">> /\ k = <<")">> /\ q = <<"quote">> /\ d = <<".">> /\ x = <<c>>
  BY MarkTokens, Single
<1>2. Dotted(items, <<"(">> \o (t \o <<")">>)) = <<"(">> \o ((items \o t) \o <<")">>)
  <2>1. PICK s : s = <<"(">> \o (t \o <<")">>)
    OBVIOUS
  <2>2. s[1] = "(" /\ Tail(s) = t \o k
    <3>1. t \o k \in Seq(Tokens)
      BY Joined
    <3> QED BY <1>1, <2>1, <3>1, MarkTokens, HeadAndTail
  <2>3. Dotted(items, s) = (o \o items) \o (t \o k)
    BY <1>1, <2>2 DEF Dotted
  <2>4. (o \o items) \o (t \o k) = o \o ((items \o t) \o k)
    <3>1. t \o k \in Seq(Tokens)
      BY Joined
    <3>2. Regroup(o, items, t \o k) /\ Regroup(items, t, k)
      BY <3>1, Regrouped
    <3> QED BY <3>2 DEF Regroup
  <2> QED BY <1>1, <2>1, <2>3, <2>4
<1>3. Dotted(items, <<"'">> \o t) = <<"(">> \o ((items \o (<<"quote">> \o t)) \o <<")">>)
  <2>1. PICK s : s = <<"'">> \o t
    OBVIOUS
  <2>2. s[1] = "'" /\ Tail(s) = t
    BY <2>1, MarkTokens, HeadAndTail
  <2>3. Dotted(items, s) = (((o \o items) \o q) \o t) \o k
    BY <1>1, <2>2 DEF Dotted
  <2>4. (((o \o items) \o q) \o t) \o k = o \o ((items \o (q \o t)) \o k)
    <3>1. PICK y \in Seq(Tokens), p \in Seq(Tokens) : y = o \o items /\ p = q \o t
      BY Joined
    <3>3. PICK r \in Seq(Tokens) : r = items \o p
      BY Joined
    <3>2. Regroup(y, q, t) /\ Regroup(o, items, p) /\ Regroup(o, r, k)
      BY Regrouped
    <3> QED BY <3>1, <3>2, <3>3 DEF Regroup
  <2> QED BY <1>1, <2>1, <2>3, <2>4
<1>4. Dotted(items, <<c>>) = <<"(">> \o ((items \o (<<".">> \o <<c>>)) \o <<")">>)
  <2>1. x[1] = c
    BY <1>1
  <2>2. Dotted(items, x) = (((o \o items) \o d) \o x) \o k
    BY <1>1, <2>1 DEF Dotted
  <2>3. (((o \o items) \o d) \o x) \o k = o \o ((items \o (d \o x)) \o k)
    <3>1. PICK y \in Seq(Tokens), p \in Seq(Tokens) : y = o \o items /\ p = d \o x
      BY Joined
    <3>3. PICK r \in Seq(Tokens) : r = items \o p
      BY Joined
    <3>2. Regroup(y, d, x) /\ Regroup(o, items, p) /\ Regroup(o, r, k)
      BY Regrouped
    <3> QED BY <3>1, <3>2, <3>3 DEF Regroup
  <2> QED BY <1>1, <2>2, <2>3
<1> QED BY <1>2, <1>3, <1>4

\* The frame that waits for the parenthesis behind a dotted tail.
LEMMA CloseType ==
  ASSUME NEW d \in Seq(Tokens), d # <<>>
  PROVE  Frame("close", d) \in Frames /\ Frame("close", d).kind = "close" /\ Frame("close", d).items = d
<1>1. Frame("close", d) = [kind |-> "close", items |-> d]
  BY DEF Frame
<1>2. Frame("close", d) \in [kind : {"list", "quote", "dot", "close"}, items : Seq(Tokens)]
  BY <1>1
<1>3. Frame("close", d).kind = "close" /\ Frame("close", d).items = d
  BY <1>1
<1> QED BY <1>2, <1>3 DEF Frames

\* A value is the tail of a dotted list.
LEMMA TakeTail ==
  ASSUME NEW w \in Seq(Tokens), WellFormed(w), NEW stk \in Seq(Frames), NEW b \in Nat,
         NEW e, NEW n \in Nat, NEW v,
         Stands(w, stk, b, e), ValueOk(w, b, n, "dot", v), ModeOf(stk) = "dot", stk # <<>>
  PROVE  /\ Stands(w, Append(Front(stk), Frame("close", Dotted(Last(stk).items, v))), n + 1, e)
         /\ Frame("close", Dotted(Last(stk).items, v)) \in Frames
<1>1. PICK a \in Nat, m \in Nat :
           /\ Stands(w, Front(stk), a, e) /\ FrameOk(w, Last(stk), a, m, b)
           /\ Front(stk) \in Seq(Frames) /\ Last(stk) \in Frames
           /\ ModeOf(Front(stk)) # "close" /\ ModeOf(stk) = Last(stk).kind
  BY Popped
<1>2. PICK items \in Seq(Tokens) : items = Last(stk).items
  BY <1>1 DEF Frames
<1>3. /\ b > 0 /\ b <= n /\ n \in 1 .. Len(w) /\ v \in Seq(Tokens)
      /\ w[b] # "comment" /\ n + 1 \in 1 .. Len(w) + 1
  BY ValueFacts
<1>4. DotOk(w, items, a, m, b)
  BY <1>1, <1>2 DEF FrameOk
<1>5. /\ a > 0 /\ a < b /\ b <= Len(w) + 1 /\ b \in a + 1 .. Len(w) + 1 /\ n + 1 \in a + 1 .. Len(w) + 1
      /\ n + 1 \in Nat /\ m \in a + 1 .. (n + 1) - 1 /\ m \in 1 .. Len(w) /\ b \in m + 1 .. Len(w)
      /\ m + 1 \in Nat \ {0} /\ b \in m + 1 .. Len(w) + 1 /\ (n + 1) - 1 = n
  <2>1. PICK l \in Nat : l = Len(w)
    OBVIOUS
  <2>2. m \in a + 1 .. b - 1
    BY <1>4 DEF DotOk
  <2> QED BY <1>1, <1>3, <2>1, <2>2 DEF FrameOk
<1>6. Inside(w, a, n + 1)
  BY <1>3, <1>4, <1>5, InsideOver DEF DotOk, ValueOk
<1>7. ExprEnd(w, m + 1) = n
  <2>1. \A j \in m + 1 .. b - 1 : w[j] \in PrefixWords
    BY <1>4 DEF DotOk, Comments, PrefixWords
  <2>2. ExprEnd(w, m + 1) = ExprEnd(w, b)
    BY <1>5, <2>1, EndBehindPrefixes
  <2> QED BY <2>2 DEF ValueOk
<1>8. Piece(w, a) \in Seq(Tokens) /\ Piece(w, m) \in Seq(Tokens)
  BY <1>5, PieceOf, PieceType
<1>9. Piece(w, m) = IF w[b] = "(" \/ w[b] = "'" THEN <<>> ELSE <<".">>
  BY <1>3, <1>4, <1>5, DotPiece DEF DotOk
<1>10. w[b] \in Tokens
  <2>1. PICK l \in Nat : l = Len(w)
    OBVIOUS
  <2> QED BY <1>3, <2>1
\* What the tail adds to the print, and what its value adds to the list.
<1>11. PICK x \in Seq(Tokens) :
         /\ Told(w, n) = Told(w, b - 1) \o x
         /\ Dotted(items, v) = <<"(">> \o ((items \o (Piece(w, m) \o x)) \o <<")">>)
  <2>1. PICK u \in Seq(Tokens) :
       \/ w[b] = "(" /\ v = <<"(">> \o (u \o <<")">>) /\ Told(w, n) = Told(w, b - 1) \o u
       \/ w[b] = "'" /\ v = <<"'">> \o u /\ Told(w, n) = Told(w, b - 1) \o (<<"quote">> \o u)
       \/ w[b] \notin Marks /\ v = <<w[b]>> /\ Told(w, n) = Told(w, b - 1) \o v
    BY DEF ValueOk
  <2>2. CASE w[b] = "(" /\ v = <<"(">> \o (u \o <<")">>) /\ Told(w, n) = Told(w, b - 1) \o u
    <3>1. Piece(w, m) \o u = u
      BY <1>9, <2>2, Joined
    <3>2. Dotted(items, v) = <<"(">> \o ((items \o u) \o <<")">>)
      <4>1. "quote" \in Tokens /\ "quote" \notin {"(", "'"}
        BY MarkTokens
      <4> QED BY <2>2, <4>1, DottedIs
    <3> QED BY <2>2, <3>1, <3>2
  <2>3. CASE w[b] = "'" /\ v = <<"'">> \o u /\ Told(w, n) = Told(w, b - 1) \o (<<"quote">> \o u)
    <3>1. PICK y \in Seq(Tokens) : y = <<"quote">> \o u
      BY MarkTokens, Single, Joined
    <3>2. Piece(w, m) \o y = y
      BY <1>9, <2>3, Joined
    <3>3. Dotted(items, v) = <<"(">> \o ((items \o y) \o <<")">>)
      <4>1. "quote" \in Tokens /\ "quote" \notin {"(", "'"}
        BY MarkTokens
      <4> QED BY <2>3, <3>1, <4>1, DottedIs
    <3> QED BY <2>3, <3>1, <3>2, <3>3
  <2>4. CASE w[b] \notin Marks /\ v = <<w[b]>> /\ Told(w, n) = Told(w, b - 1) \o v
    <3>1. w[b] \notin {"(", "'"}
      BY <2>4 DEF Marks
    <3>2. Dotted(items, v) = <<"(">> \o ((items \o (<<".">> \o <<w[b]>>)) \o <<")">>)
      BY <1>10, <2>4, <3>1, Joined, DottedIs
    <3>3. Piece(w, m) = <<".">>
      BY <1>9, <3>1
    <3> QED BY <1>3, <2>4, <3>2, <3>3
  <2> QED BY <2>1, <2>2, <2>3, <2>4
<1>12. PICK u \in Seq(Tokens) : u = items \o (Piece(w, m) \o x)
  BY <1>8, Joined
<1>13. Adds(w, a, n + 1, Piece(w, a) \o u)
  <2>1. PICK y \in Seq(Tokens), t \in Seq(Tokens) : y = Piece(w, m) /\ t = Piece(w, a)
    BY <1>8
  <2>2. PICK s \in Seq(Tokens) : s = items \o y
    BY Joined
  <2>3. t \o s \in Seq(Tokens) /\ Adds(w, a, b, t \o s) /\ a <= b
    BY <1>4, <1>5, <2>1, <2>2, Joined DEF DotOk
  <2>4. Adds(w, a, n + 1, (t \o s) \o x)
    BY <1>5, <1>11, <2>3, AddsOver
  <2>5. Regroup(t, s, x) /\ Regroup(items, y, x)
    BY Regrouped
  <2> QED BY <1>12, <2>1, <2>2, <2>4, <2>5 DEF Regroup
<1>14. PICK d \in Seq(Tokens) : d = Dotted(items, v) /\ d = <<"(">> \o (u \o <<")">>) /\ d # <<>>
  <2>1. u \o <<")">> \in Seq(Tokens) /\ <<"(">> \in Seq(Tokens) /\ <<"(">> # <<>>
    BY MarkTokens, Single, Joined
  <2>2. <<"(">> \o (u \o <<")">>) \in Seq(Tokens) /\ <<"(">> \o (u \o <<")">>) # <<>>
    BY <2>1, Joined
  <2> QED BY <1>11, <1>12, <2>2
<1>15. m \in a + 1 .. (n + 1) - 1 /\ w[m] = "." /\ ExprEnd(w, m + 1) = (n + 1) - 1
  BY <1>4, <1>5, <1>7 DEF DotOk
<1>16. CloseOk(w, d, a, m, n + 1)
  BY <1>6, <1>13, <1>14, <1>15 DEF CloseOk
<1>17. PICK f \in Frames : f = Frame("close", d) /\ f.kind = "close" /\ f.items = d
  BY <1>14, CloseType
<1>18. FrameOk(w, f, a, m, n + 1)
  BY <1>5, <1>16, <1>17 DEF FrameOk
<1>19. BehindOk(w, f.kind, n + 1)
  BY <1>17 DEF BehindOk
<1>20. Stands(w, Append(Front(stk), f), n + 1, e)
  BY <1>1, <1>5, <1>18, <1>19, Pushed
<1> QED BY <1>2, <1>14, <1>17, <1>20

-----------------------------------------------------------------------------
(* In a well-formed text no error is met                                     *)

\* No expression begins with a parenthesis that closes nothing, or with a dot.
LEMMA NoUnmatched ==
  ASSUME NEW w \in Seq(Tokens), WellFormed(w), NEW stk \in Seq(Frames),
         NEW z \in 1 .. Len(w), NEW e,
         Stands(w, stk, z, e), w[z] \in {")", "."}
  PROVE  ModeOf(stk) \notin {"top", "quote", "dot"}
<1>1. z \in Nat /\ z > 0 /\ z \in DOMAIN w /\ z \in z .. Len(w) + 1 /\ z <= Len(w)
  <2>1. PICK l \in Nat : l = Len(w)
    OBVIOUS
  <2> QED BY <2>1
<1>2. Depth(w, z) >= 0 /\ Depth(w, z) = Depth(w, z - 1) + Shift(w[z])
  BY <1>1, DepthAt DEF WellFormed
<1>3. w[z] = "." => DotInPlace(w, z)
  BY <1>1 DEF WellFormed
<1>4. w[z] \notin PrefixWords
  BY DEF PrefixWords
<1>5. ASSUME stk = <<>> PROVE FALSE
  <2>1. Depth(w, z - 1) = 0
    BY <1>1, <1>5, StandsTop
  <2>2. CASE w[z] = ")"
    BY <1>2, <2>1, <2>2 DEF Shift
  <2>3. CASE w[z] = "."
    <3>1. Depth(w, z) > 0
      BY <1>3, <2>3 DEF DotInPlace
    <3> QED BY <1>2, <2>1, <2>3, <3>1 DEF Shift
  <2> QED BY <2>2, <2>3
<1>6. ASSUME stk # <<>>, ModeOf(stk) \in {"quote", "dot"} PROVE FALSE
  <2>1. PICK a \in Nat, m \in Nat :
           FrameOk(w, Last(stk), a, m, z) /\ ModeOf(stk) = Last(stk).kind
    BY <1>1, <1>6, Popped
  <2>2. PICK q \in Nat : q > 0 /\ q < z /\ Comments(w, q + 1, z - 1) /\ w[q] \in {"'", "."}
    <3>1. CASE ModeOf(stk) = "quote"
      <4>1. QuoteOk(w, a, m, z) /\ a > 0 /\ z \in a + 1 .. Len(w) + 1
        BY <2>1, <3>1 DEF FrameOk
      <4> QED BY <1>1, <4>1 DEF QuoteOk
    <3>2. CASE ModeOf(stk) = "dot"
      <4>1. DotOk(w, Last(stk).items, a, m, z) /\ a > 0
        BY <2>1, <3>2 DEF FrameOk
      <4> QED BY <1>1, <4>1 DEF DotOk
    <3> QED BY <1>6, <3>1, <3>2
  <2>3. q \in DOMAIN w /\ q + 1 \in Nat /\ z \in q + 1 .. Len(w) + 1
    <3>1. PICK l \in Nat : l = Len(w)
      OBVIOUS
    <3> QED BY <1>1, <2>2, <3>1
  <2>4. BeginsExpr(w, q + 1)
    BY <2>2, <2>3 DEF WellFormed, DotInPlace
  <2>5. Skip(w, q + 1, PrefixWords) = z
    <3>1. \A j \in q + 1 .. z - 1 : w[j] \in PrefixWords
      BY <2>2 DEF Comments, PrefixWords
    <3> QED BY <1>4, <2>3, <3>1, SkipIs
  <2>6. w[z] \notin {")", "."}
    BY <2>4, <2>5 DEF BeginsExpr, PrefixWords
  <2> QED BY <2>6
<1>7. stk = <<>> \/ ModeOf(stk) # "top"
  <2>1. ASSUME stk # <<>> PROVE ModeOf(stk) # "top"
    <3>1. Last(stk) \in Frames /\ ModeOf(stk) = Last(stk).kind
      BY <1>1, <2>1, Popped
    <3> QED BY <3>1 DEF Frames
  <2> QED BY <2>1
<1>8. stk = <<>> => ModeOf(stk) = "top"
  BY DEF ModeOf
<1> QED BY <1>5, <1>6, <1>7, <1>8

\* A dot comes behind an item.
LEMMA NoEarlyDot ==
  ASSUME NEW w \in Seq(Tokens), WellFormed(w), NEW stk \in Seq(Frames),
         NEW z \in 1 .. Len(w), NEW e,
         Stands(w, stk, z, e), w[z] = ".", stk # <<>>, ModeOf(stk) = "list"
  PROVE  Last(stk).items # <<>>
<1> SUFFICES ASSUME Last(stk).items = <<>> PROVE FALSE
  OBVIOUS
<1>1. z \in Nat /\ z > 0 /\ z \in DOMAIN w
  OBVIOUS
<1>2. PICK a \in Nat, m \in Nat : FrameOk(w, Last(stk), a, m, z) /\ ModeOf(stk) = Last(stk).kind
  BY <1>1, Popped
<1>3. ListOk(w, Last(stk).items, a, z) /\ a > 0
  BY <1>2 DEF FrameOk
<1>4. w[a] = "(" /\ Comments(w, a + 1, z - 1)
  BY <1>3 DEF ListOk, Inside
<1>5. DotInPlace(w, z)
  BY <1>1 DEF WellFormed
<1>6. PICK j \in 1 .. z - 1 :
        w[j] \notin {"(", ".", "'", "comment"} /\ \A h \in j + 1 .. z - 1 : w[h] = "comment"
  BY <1>5 DEF DotInPlace
<1>7. CASE j < a
  <2>1. a \in j + 1 .. z - 1
    <3>1. z \in a + 1 .. Len(w) + 1
      BY <1>2 DEF FrameOk
    <3> QED BY <1>1, <1>7, <3>1
  <2> QED BY <1>4, <1>6, <2>1
<1>8. CASE j = a
  BY <1>4, <1>6, <1>8
<1>9. CASE j > a
  <2>1. j \in a + 1 .. z - 1
    BY <1>1, <1>9
  <2> QED BY <1>4, <1>6, <2>1 DEF Comments
<1> QED BY <1>1, <1>7, <1>8, <1>9

\* Behind a dotted tail the list is closed.
LEMMA NoLongTail ==
  ASSUME NEW w \in Seq(Tokens), WellFormed(w), NEW stk \in Seq(Frames),
         NEW z \in 1 .. Len(w), NEW e,
         Stands(w, stk, z, e), stk # <<>>, ModeOf(stk) = "close"
  PROVE  w[z] = ")"
<1>1. z \in Nat /\ z > 0 /\ (z - 1) + 1 = z
  OBVIOUS
<1>2. PICK a \in Nat, m \in Nat : FrameOk(w, Last(stk), a, m, z) /\ ModeOf(stk) = Last(stk).kind
  BY <1>1, Popped
<1>3. CloseOk(w, Last(stk).items, a, m, z) /\ a > 0
  BY <1>2 DEF FrameOk
<1>4. m \in a + 1 .. z - 1 /\ w[m] = "." /\ ExprEnd(w, m + 1) = z - 1
  BY <1>3 DEF CloseOk
<1>5. m \in DOMAIN w
  <2>1. PICK l \in Nat : l = Len(w)
    OBVIOUS
  <2> QED BY <1>1, <1>3, <1>4, <2>1
<1>6. DotInPlace(w, m)
  BY <1>4, <1>5 DEF WellFormed
<1>7. w[ExprEnd(w, m + 1) + 1] = ")"
  BY <1>6 DEF DotInPlace
<1> QED BY <1>1, <1>4, <1>7

\* Behind a well-formed text nothing is pending.
LEMMA NothingPending ==
  ASSUME NEW w \in Seq(Tokens), WellFormed(w), NEW stk \in Seq(Frames), NEW e,
         Stands(w, stk, Len(w) + 1, e)
  PROVE  stk = <<>> /\ e = Printed(w)
<1>1. PICK l \in Nat : l = Len(w) /\ l + 1 \in Nat /\ (l + 1) - 1 = l
  OBVIOUS
<1>2. ASSUME stk # <<>> PROVE FALSE
  <2>1. PICK a \in Nat, m \in Nat :
           FrameOk(w, Last(stk), a, m, l + 1) /\ Last(stk) \in Frames
    BY <1>1, <1>2, Popped
  <2>2. a > 0 /\ l + 1 \in a + 1 .. l + 1 /\ a \in DOMAIN w /\ l \in a .. l
    <3>1. a > 0 /\ l + 1 \in a + 1 .. l + 1
      BY <1>1, <2>1 DEF FrameOk
    <3> QED BY <1>1, <3>1
  <2>3. CASE Last(stk).kind = "quote"
    <3>1. QuoteOk(w, a, m, l + 1)
      BY <2>1, <2>3 DEF FrameOk
    <3>2. BeginsExpr(w, a + 1)
      BY <2>2, <3>1 DEF WellFormed, QuoteOk
    <3>3. Skip(w, a + 1, PrefixWords) = l + 1
      <4>1. \A j \in a + 1 .. (l + 1) - 1 : w[j] \in PrefixWords
        BY <3>1 DEF QuoteOk, Comments, PrefixWords
      <4>2. ~(l + 1 <= Len(w)) /\ a + 1 \in Nat
        BY <1>1
      <4> QED BY <1>1, <2>2, <4>1, <4>2, SkipIs
    <3> QED BY <1>1, <3>2, <3>3 DEF BeginsExpr, PrefixWords
  <2>4. CASE Last(stk).kind # "quote"
    <3>1. Inside(w, a, l + 1)
      BY <2>1, <2>4 DEF FrameOk, ListOk, DotOk, CloseOk
    <3>2. Depth(w, l) > Depth(w, a - 1)
      BY <1>1, <2>2, <3>1 DEF Inside
    <3>3. Depth(w, l) = 0
      BY <1>1 DEF WellFormed
    <3>4. Depth(w, a - 1) >= 0 /\ Depth(w, a - 1) \in Int
      <4>1. CASE a = 1
        <5>1. Depth(w, 0) = 0
          BY DepthStep
        <5> QED BY <4>1, <5>1
      <4>2. CASE a # 1
        <5>1. a - 1 \in DOMAIN w /\ a \in Nat
          BY <1>1, <2>2, <4>2
        <5> QED BY <2>2, <5>1, DepthAt DEF WellFormed
      <4> QED BY <4>1, <4>2
    <3> QED BY <3>2, <3>3, <3>4
  <2> QED BY <2>3, <2>4
<1>3. CASE stk = <<>>
  <2>1. Told(w, (l + 1) - 1) = e
    BY <1>1, <1>3, StandsTop
  <2> QED BY <1>1, <1>3, <2>1, PrintedIs
<1> QED BY <1>2, <1>3

-----------------------------------------------------------------------------
(* The inductive invariant                                                   *)

\* The words of the lines that have been taken.
Taken == Words(SubSeq(text, 1, taken))

\* Types, and when the refill functions are at the end of the source.
Types ==
  /\ driver \in {"core", "file", "repl"}
  /\ text \in Seq(Seq(Tokens)) /\ text # <<>> /\ taken \in 0 .. Len(text)
  /\ ended \in BOOLEAN
  /\ line \in Seq(Tokens) /\ buffer \in Seq(Tokens)
  /\ stack \in Seq(Frames)
  /\ pc \in {"read", "return", "eval", "print", "done"}
  /\ val \in Seq(Tokens) /\ val # <<>>
  /\ evaluated \in Seq(Seq(Tokens))
  /\ signalled \in Nat
  /\ pc \in {"eval", "print"} => stack = <<>>
  /\ ended => driver # "repl" /\ taken = Len(text)
  /\ ~ended /\ driver # "repl" => taken < Len(text)

\* What has been taken has been read or waits in the buffer.
Buffered == ~ended => Taken = Consumed \o buffer

\* c is how w begins.
Begins(c, w) == Len(c) <= Len(w) /\ \A i \in 1 .. Len(c) : w[i] = c[i]

\* Where the reader is in a text w of which n words have been read.
Where(w, n, stk, at, v, e) ==
  /\ at \in {"read", "print"} => Stands(w, stk, n + 1, e)
  /\ at \in {"return", "eval"} =>
       ModeOf(stk) # "close" /\ \E b \in Nat : Stands(w, stk, b, e) /\ ValueOk(w, b, n, ModeOf(stk), v)

\* However a text goes on, if it is well formed.
Matching ==
  ~ended =>
    \A w \in Seq(Tokens) : WellFormed(w) /\ Begins(Consumed, w) =>
      Where(w, Len(Consumed), stack, pc, val, FlattenSeq(evaluated))

\* load_core then reads NIL, whatever it finds in the buffer.
AtNil ==
  /\ stack = <<>> /\ pc \in {"read", "return", "eval"}
  /\ pc = "read" => buffer \in {<<>>, <<"NIL">>}
  /\ pc # "read" => val = <<"NIL">>

\* After a text that ends with a newline: it has been evaluated, and then one
\* expression more.
AtEnd ==
  ended /\ Last(text) = <<>> /\ WellFormed(Words(text)) =>
    /\ pc # "done" => FlattenSeq(evaluated) = Printed(Words(text))
    /\ pc # "done" /\ driver = "core" => AtNil
    /\ pc = "done" =>
         /\ evaluated # <<>> /\ FlattenSeq(Front(evaluated)) = Printed(Words(text))
         /\ driver = "core" => Last(evaluated) = <<"NIL">>

\* What print_errors has printed.
Reported == driver = "repl" => reported = [i \in 1 .. signalled |-> "eval"]

\* All of it.
Inv == Types /\ Buffered /\ Matching /\ AtEnd /\ Reported

-----------------------------------------------------------------------------
(* Words taken and consumed                                                  *)

\* What is left of a sequence without the end that follows c.
LEMMA Before ==
  ASSUME NEW c \in Seq(Tokens), NEW d \in Seq(Tokens), NEW s, s = c \o d
  PROVE  SubSeq(s, 1, Len(s) - Len(d)) = c
<1>1. PICK m \in Nat : m = Len(c)
  OBVIOUS
<1>2. PICK n \in Nat : n = Len(d)
  OBVIOUS
<1>3. /\ s \in Seq(Tokens) /\ Len(s) = m + n
      /\ \A i \in 1 .. m + n : s[i] = IF i <= m THEN c[i] ELSE d[i - m]
  BY <1>1, <1>2, ConcatProperties
<1>4. Len(s) - Len(d) = m
  BY <1>2, <1>3
<1>5. \A i \in 1 .. m : s[i] = c[i] /\ s[i] \in Tokens
  BY <1>1, <1>3
<1>6. PICK t : t = SubSeq(s, 1, m)
  OBVIOUS
<1>7. t \in Seq(Tokens) /\ Len(t) = m /\ \A i \in 1 .. m : t[i] = s[i]
  <2>1. t \in Seq(Tokens)
    <3>1. \A i \in 1 .. m : s[i] \in Tokens
      BY <1>5
    <3> QED BY ONLY <1>6, <3>1, 1 \in Int, m \in Int, SubSeqProperties
  <2>2. Len(t) = m
    BY <1>3, <1>6
  <2>3. \A i \in 1 .. m : t[i] = s[i]
    BY <1>3, <1>6
  <2> QED BY <2>1, <2>2, <2>3
<1>8. t = c
  BY <1>1, <1>5, <1>7, SeqEqual
<1> QED BY <1>4, <1>6, <1>8

\* Types of what has been taken and consumed.
LEMMA TakenType ==
  ASSUME Types
  PROVE  SubSeq(text, 1, taken) \in Seq(Seq(Tokens)) /\ Taken \in Seq(Tokens) /\ Consumed \in Seq(Tokens)
<1>1. PICK l \in Nat : l = Len(text) /\ taken \in 0 .. l
  BY DEF Types
<1>2. \A i \in 1 .. taken : text[i] \in Seq(Tokens)
  BY <1>1 DEF Types
<1>3. SubSeq(text, 1, taken) \in Seq(Seq(Tokens))
  BY <1>1, <1>2, SubSeqProperties
<1>4. Taken \in Seq(Tokens)
  BY <1>3, FlattenType DEF Taken, Words
<1>5. PICK t \in Seq(Tokens) : t = Taken
  BY <1>4
<1>6. PICK m \in Nat : m = Len(t)
  OBVIOUS
<1>7. PICK n \in Nat : n = Len(buffer)
  BY DEF Types
<1>8. SubSeq(t, 1, m - n) \in Seq(Tokens)
  <2>1. \A i \in 1 .. m - n : t[i] \in Tokens
    <3>1. \A i \in 1 .. m - n : i \in 1 .. m
      OBVIOUS
    <3> QED BY <1>6, <3>1
  <2> QED BY <2>1, SubSeqProperties
<1>9. Consumed = SubSeq(t, 1, m - n)
  BY <1>5, <1>6, <1>7 DEF Consumed, Taken
<1> QED BY <1>3, <1>4, <1>8, <1>9

\* A line more.
LEMMA TakenLine ==
  ASSUME Types, taken < Len(text)
  PROVE  Words(SubSeq(text, 1, taken + 1)) = Taken \o text[taken + 1] /\ text[taken + 1] \in Seq(Tokens)
<1>1. PICK l \in Nat : l = Len(text) /\ taken \in 0 .. l /\ taken < l
  BY DEF Types
<1>2. taken + 1 \in 1 .. l /\ 1 \in 1 .. l /\ taken + 1 \in 1 .. Len(text) /\ (taken + 1) - 1 = taken
  BY <1>1
<1>3. text[taken + 1] \in Seq(Tokens)
  BY <1>1, <1>2 DEF Types
<1>4. PICK s \in Seq(Seq(Tokens)) : s = SubSeq(text, 1, taken)
  BY TakenType
<1>5. SubSeq(text, 1, taken + 1) = Append(s, text[taken + 1])
  <2>1. SubSeq(text, 1, taken + 1) = SubSeq(text, 1, (taken + 1) - 1) \o <<text[taken + 1]>>
    BY <1>1, <1>2, SubSeqRecursiveSecond DEF Types
  <2>2. Append(s, text[taken + 1]) = s \o <<text[taken + 1]>>
    BY <1>3, AppendIsConcat
  <2> QED BY <1>2, <1>4, <2>1, <2>2
<1>6. FlattenSeq(Append(s, text[taken + 1])) = FlattenSeq(s) \o text[taken + 1]
  BY <1>3, FlattenAppend
<1> QED BY <1>3, <1>4, <1>5, <1>6 DEF Words, Taken

\* A buffer that is not empty is its first word and the rest.
LEMMA HeadTailIs ==
  ASSUME NEW s \in Seq(Tokens), s # <<>>
  PROVE  s = <<Head(s)>> \o Tail(s) /\ Head(s) \in Tokens /\ Tail(s) \in Seq(Tokens)
OBVIOUS

\* A word more.
LEMMA WordRead ==
  ASSUME Types, Buffered, NextWord
  PROVE  /\ Word \in Tokens /\ buffer' \in Seq(Tokens)
         /\ ~ended => Consumed' = Append(Consumed, Word) /\ Buffered'
<1>1. buffer \in Seq(Tokens) /\ buffer # <<>> /\ buffer' = Tail(buffer)
  BY DEF Types, NextWord
<1>2. buffer = <<Word>> \o buffer' /\ Word \in Tokens /\ buffer' \in Seq(Tokens)
  BY <1>1, HeadTailIs DEF Word
<1>3. ASSUME ~ended PROVE Consumed' = Append(Consumed, Word) /\ Buffered'
  <2>1. PICK c \in Seq(Tokens), x \in Seq(Tokens), d \in Seq(Tokens) : c = Consumed /\ x = <<Word>> /\ d = buffer'
    BY <1>2, TakenType, Single
  <2>2. Taken = c \o (x \o d)
    BY <1>2, <1>3, <2>1 DEF Buffered
  <2>3. PICK y \in Seq(Tokens) : y = c \o x
    BY Joined
  <2>4. Taken = y \o d
    <3>1. Regroup(c, x, d)
      BY Regrouped
    <3> QED BY <2>2, <2>3, <3>1 DEF Regroup
  <2>5. SubSeq(Taken, 1, Len(Taken) - Len(d)) = y
    BY <2>4, Before
  <2>6. Taken' = Taken
    BY DEF NextWord, source, loop, Taken
  <2>7. Consumed' = y
    BY <2>1, <2>5, <2>6 DEF Consumed, Taken
  <2>8. y = Append(c, Word)
    BY <1>2, <2>1, <2>3, AppendIsConcat
  <2> QED BY <2>1, <2>4, <2>6, <2>7, <2>8 DEF Buffered
<1> QED BY <1>2, <1>3

\* If w begins with c and a word more, it begins with c and goes on with that word.
LEMMA BeginsWith ==
  ASSUME NEW c \in Seq(Tokens), NEW x \in Tokens, NEW w \in Seq(Tokens),
         Begins(Append(c, x), w)
  PROVE  /\ Begins(c, w) /\ w[Len(c) + 1] = x /\ Len(c) + 1 \in 1 .. Len(w)
         /\ Len(Append(c, x)) = Len(c) + 1
<1>1. PICK n \in Nat : n = Len(c)
  OBVIOUS
<1>2. PICK l \in Nat : l = Len(w)
  OBVIOUS
<1>3. PICK d : d = Append(c, x)
  OBVIOUS
<1>4. Len(d) = n + 1 /\ (\A i \in 1 .. n : d[i] = c[i]) /\ d[n + 1] = x
  BY <1>1, <1>3, AppendProperties
<1>5. n + 1 <= l /\ \A i \in 1 .. n + 1 : w[i] = d[i]
  BY <1>2, <1>3, <1>4 DEF Begins
<1>6. n + 1 \in 1 .. l /\ n <= l /\ n + 1 \in 1 .. n + 1 /\ \A i \in 1 .. n : i \in 1 .. n + 1
  BY <1>5
<1> QED BY <1>1, <1>2, <1>3, <1>4, <1>5, <1>6 DEF Begins

\* The actions that take a word from the buffer.
WordAction ==
  Open \/ ReadMacro \/ Comment \/ Atom \/ CloseList \/ Unmatched \/ DotTooEarly \/ Dot \/ AfterTail

\* Mode is the mode of the stack, and only the top level needs no frame.
LEMMA ModeIs ==
  /\ Mode = ModeOf(stack)
  /\ Mode \notin {"top"} => stack # <<>>
BY DEF Mode, ModeOf

\* Types of a stack without its top frame.
LEMMA FrontType ==
  ASSUME NEW s \in Seq(Frames), s # <<>>
  PROVE  Front(s) \in Seq(Frames) /\ Last(s) \in Frames /\ Last(s).items \in Seq(Tokens)
<1>1. PICK n \in Nat : n = Len(s) /\ n > 0
  BY EmptySeq
<1>2. Last(s) \in Frames
  BY <1>1 DEF Last
<1>3. \A i \in 1 .. n - 1 : s[i] \in Frames
  BY <1>1
<1>4. Front(s) \in Seq(Frames)
  BY <1>1, <1>3, SubSeqProperties DEF Front
<1> QED BY <1>2, <1>4 DEF Frames

\* What every word has in common.
LEMMA WordKeeps ==
  ASSUME WordAction
  PROVE  /\ pc = "read" /\ NextWord
         /\ UNCHANGED <<driver, text, taken, ended, line, nils, evaluated, signalled, reported>>
BY DEF WordAction, Open, ReadMacro, Comment, Atom, CloseList, Unmatched, DotTooEarly, Dot,
   AfterTail,
       NextWord, source, loop

\* Reading a word keeps the types.
LEMMA WordTypes ==
  ASSUME Types, Buffered, WordAction
  PROVE  Types'
<1>1. /\ pc = "read" /\ NextWord
      /\ UNCHANGED <<driver, text, taken, ended, line, nils, evaluated, signalled, reported>>
  BY WordKeeps
<1>2. Word \in Tokens /\ buffer' \in Seq(Tokens)
  BY <1>1, WordRead
<1>3. SUFFICES /\ stack' \in Seq(Frames)
               /\ pc' \in {"read", "return"}
               /\ val' \in Seq(Tokens) /\ val' # <<>>
  BY <1>1, <1>2 DEF Types
<1>4. stack \in Seq(Frames) /\ val \in Seq(Tokens) /\ val # <<>>
  BY DEF Types
<1>5. Null \in Seq(Tokens) /\ Null # <<>>
  <2>1. <<"(", ")">> \in Seq(Tokens)
    BY MarkTokens
  <2> QED BY <2>1 DEF Null
<1>6. \A f \in Frames : Append(stack, f) \in Seq(Frames) /\ (stack # <<>> => Append(Front(stack), f) \in Seq(Frames))
  BY <1>4, FrontType, AppendProperties
<1>7. CASE Open
  <2>1. Frame("list", <<>>) \in Frames
    BY FrameType, Joined
  <2> QED BY <1>1, <1>4, <1>6, <1>7, <2>1 DEF Open, Calls
<1>8. CASE ReadMacro
  <2>1. Frame("quote", <<>>) \in Frames
    BY FrameType, Joined
  <2> QED BY <1>1, <1>4, <1>6, <1>8, <2>1 DEF ReadMacro, Calls
<1>9. CASE Comment
  BY <1>1, <1>4, <1>9 DEF Comment
<1>10. CASE Atom
  BY <1>2, <1>4, <1>10, Single DEF Atom, Returns
<1>11. CASE CloseList
  <2>1. stack # <<>>
    BY <1>11, ModeIs DEF CloseList
  <2>2. Items \in Seq(Tokens) /\ Front(stack) \in Seq(Frames)
    BY <1>4, <2>1, FrontType DEF Items
  <2>3. <<"(">> \o Items \o <<")">> \in Seq(Tokens) /\ <<"(">> \o Items \o <<")">> # <<>>
    <3>1. PICK x \in Seq(Tokens) : x = <<"(">> \o Items /\ x # <<>>
      BY <2>2, MarkTokens, Single, Joined
    <3>2. x \o <<")">> \in Seq(Tokens) /\ x \o <<")">> # <<>>
      BY <3>1, MarkTokens, Single, Joined
    <3> QED BY <3>1, <3>2
  <2> QED BY <1>11, <2>2, <2>3 DEF CloseList, Returns
<1>12. CASE Unmatched
  BY <1>4, <1>5, <1>12 DEF Unmatched, Returns
<1>13. CASE DotTooEarly
  <2>1. stack # <<>>
    BY <1>13, ModeIs DEF DotTooEarly
  <2> QED BY <1>4, <1>5, <1>13, <2>1, FrontType DEF DotTooEarly, Returns
<1>14. CASE Dot
  <2>1. stack # <<>>
    BY <1>14, ModeIs DEF Dot
  <2>2. Frame("dot", Items) \in Frames
    BY <1>4, <2>1, FrontType, FrameType DEF Items
  <2> QED BY <1>1, <1>4, <1>6, <1>14, <2>1, <2>2 DEF Dot
<1>15. CASE AfterTail
  <2>1. stack # <<>>
    BY <1>15, ModeIs DEF AfterTail
  <2>2. Items \in Seq(Tokens) /\ Front(stack) \in Seq(Frames) /\ Items # <<>>
    <3>1. Last(stack).kind = "close"
      BY <1>15, <2>1 DEF AfterTail, Mode
    <3> QED BY <1>4, <2>1, <3>1, FrontType DEF Items, Frames
  <2> QED BY <1>5, <1>15, <2>2 DEF AfterTail, Returns
<1> QED BY <1>7, <1>8, <1>9, <1>10, <1>11, <1>12, <1>13, <1>14, <1>15 DEF WordAction

\* One word of a well-formed text.
LEMMA WordWhere ==
  ASSUME Types, WordAction, NEW w \in Seq(Tokens), WellFormed(w), NEW z \in 1 .. Len(w),
         w[z] = Word,
         NEW e, Stands(w, stack, z, e)
  PROVE  Where(w, z, stack', pc', val', e)
<1>1. stack \in Seq(Frames) /\ pc = "read" /\ NextWord
  BY WordKeeps DEF Types
<1>2. Mode = ModeOf(stack) /\ (Mode # "top" => stack # <<>>)
  BY ModeIs
<1>3. z \in Nat
  OBVIOUS
<1>4. CASE Open
  <2>1. Stands(w, stack', z + 1, e)
    BY <1>1, <1>2, <1>4, ReadOpen DEF Open, Calls
  <2> QED BY <1>1, <1>4, <2>1 DEF Where, Open, Calls
<1>5. CASE ReadMacro
  <2>1. Stands(w, stack', z + 1, e)
    BY <1>1, <1>2, <1>5, ReadQuote DEF ReadMacro, Calls
  <2> QED BY <1>1, <1>5, <2>1 DEF Where, ReadMacro, Calls
<1>6. CASE Comment
  <2>1. Stands(w, stack', z + 1, e)
    BY <1>1, <1>2, <1>6, ReadComment DEF Comment
  <2> QED BY <1>1, <1>6, <2>1 DEF Where, Comment
<1>7. CASE Atom
  <2>1. stack' = stack /\ pc' = "return" /\ val' = <<w[z]>> /\ ModeOf(stack) # "close" /\ w[z] \notin Marks
    BY <1>2, <1>7 DEF Atom, Returns
  <2>2. ValueOk(w, z, z, ModeOf(stack), <<w[z]>>)
    BY <2>1, ReadAtom
  <2> QED BY <1>3, <2>1, <2>2 DEF Where
<1>8. CASE CloseList
  <2>1. /\ stack' = Front(stack) /\ pc' = "return" /\ stack # <<>> /\ ModeOf(stack) = "list" /\ w[z] = ")"
        /\ val' = <<"(">> \o Last(stack).items \o <<")">>
    BY <1>2, <1>8 DEF CloseList, Returns, Items
  <2>2. \E b \in Nat : Stands(w, stack', b, e) /\ ValueOk(w, b, z, ModeOf(stack'), val')
    BY <1>1, <2>1, ReadClose
  <2>3. ModeOf(stack') # "close"
    BY <1>1, <1>3, <2>1, Popped
  <2> QED BY <2>1, <2>2, <2>3 DEF Where
<1>9. ~Unmatched
  <2>1. ASSUME Unmatched PROVE FALSE
    <3>1. w[z] \in {")", "."} /\ ModeOf(stack) \in {"top", "quote", "dot"}
      BY <1>2, <2>1 DEF Unmatched, InExpr
    <3> QED BY <1>1, <3>1, NoUnmatched
  <2> QED BY <2>1
<1>10. ~DotTooEarly
  <2>1. ASSUME DotTooEarly PROVE FALSE
    <3>1. w[z] = "." /\ ModeOf(stack) = "list" /\ stack # <<>> /\ Last(stack).items = <<>>
      BY <1>2, <2>1 DEF DotTooEarly, Items
    <3> QED BY <1>1, <3>1, NoEarlyDot
  <2> QED BY <2>1
<1>11. CASE Dot
  <2>1. /\ w[z] = "." /\ ModeOf(stack) = "list" /\ stack # <<>> /\ pc' = "read"
        /\ stack' = Append(Front(stack), Frame("dot", Last(stack).items))
    BY <1>1, <1>2, <1>11 DEF Dot, Items
  <2>2. Stands(w, stack', z + 1, e)
    BY <1>1, <2>1, ReadDot
  <2> QED BY <2>1, <2>2 DEF Where
<1>12. CASE AfterTail
  <2>1. ModeOf(stack) = "close" /\ stack # <<>>
    BY <1>2, <1>12 DEF AfterTail
  <2>2. w[z] = ")"
    BY <1>1, <2>1, NoLongTail
  <2>3. stack' = Front(stack) /\ pc' = "return" /\ val' = Last(stack).items
    BY <1>12, <2>2 DEF AfterTail, Returns, Items
  <2>4. \E b \in Nat : Stands(w, stack', b, e) /\ ValueOk(w, b, z, ModeOf(stack'), val')
    BY <1>1, <2>1, <2>2, <2>3, ReadClose
  <2>5. ModeOf(stack') # "close"
    BY <1>1, <1>3, <2>1, <2>3, Popped
  <2> QED BY <2>3, <2>4, <2>5 DEF Where
<1> QED BY <1>4, <1>5, <1>6, <1>7, <1>8, <1>9, <1>10, <1>11, <1>12 DEF WordAction

\* Reading a word keeps the frames in step with every text that goes on like this.
LEMMA WordMatching ==
  ASSUME Types, Buffered, Matching, WordAction
  PROVE  Buffered' /\ Matching'
<1>1. /\ pc = "read" /\ NextWord
      /\ UNCHANGED <<driver, text, taken, ended, line, nils, evaluated, signalled, reported>>
  BY WordKeeps
<1>2. ASSUME ~ended PROVE Buffered' /\ Matching'
  <2>1. Consumed' = Append(Consumed, Word) /\ Buffered' /\ Word \in Tokens
    BY <1>1, <1>2, WordRead
  <2>2. PICK c \in Seq(Tokens) : c = Consumed
    BY TakenType
  <2>3. ASSUME NEW w \in Seq(Tokens), WellFormed(w), Begins(Append(c, Word), w)
        PROVE  Where(w, Len(Append(c, Word)), stack', pc', val', FlattenSeq(evaluated))
    <3>1. PICK z \in 1 .. Len(w) : z = Len(c) + 1 /\ w[z] = Word /\ Begins(c, w) /\ z = Len(Append(c, Word))
      BY <2>1, <2>3, BeginsWith
    <3>2. Where(w, Len(c), stack, pc, val, FlattenSeq(evaluated))
      BY <1>2, <2>2, <2>3, <3>1 DEF Matching
    <3>3. Stands(w, stack, z, FlattenSeq(evaluated))
      BY <1>1, <3>1, <3>2 DEF Where
    <3>4. Where(w, z, stack', pc', val', FlattenSeq(evaluated))
      BY <2>3, <3>1, <3>3, WordWhere
    <3> QED BY <3>1, <3>4
  <2>4. Matching'
    BY <1>1, <2>1, <2>2, <2>3 DEF Matching
  <2> QED BY <2>1, <2>4
<1> QED BY <1>1, <1>2 DEF Buffered, Matching

\* After the end of the text a loop reads whatever it finds, and load_core NIL.
LEMMA WordAtEnd ==
  ASSUME Types, AtEnd, WordAction, Types'
  PROVE  AtEnd'
<1>1. /\ pc = "read" /\ NextWord
      /\ UNCHANGED <<driver, text, taken, ended, line, nils, evaluated, signalled, reported>>
  BY WordKeeps
<1>2. pc' # "done"
  BY <1>1 DEF WordAction, Open, ReadMacro, Comment, Atom, CloseList, Unmatched,
     DotTooEarly, Dot, AfterTail,
       Calls, Returns
<1>3. ASSUME AtNil PROVE AtNil'
  <2>1. buffer = <<"NIL">> /\ stack = <<>>
    BY <1>1, <1>3 DEF AtNil, NextWord
  <2>2. Word = "NIL" /\ Mode = "top"
    BY <2>1 DEF Word, Mode
  <2>3. Atom
    BY <2>2 DEF WordAction, Open, ReadMacro, Comment, CloseList, Unmatched, DotTooEarly,
       Dot, AfterTail
  <2> QED BY <2>1, <2>2, <2>3 DEF AtNil, Atom, Returns
<1> QED BY <1>1, <1>2, <1>3 DEF AtEnd

-----------------------------------------------------------------------------
(* Refilling the buffer                                                      *)

\* What every refill function leaves alone, and how it ends.
LEMMA RefreshKeeps ==
  ASSUME Types, Buffered, Refresh
  PROVE  /\ pc = "read" /\ buffer = <<>> /\ pc' = pc
         /\ UNCHANGED <<driver, text, stack, val, evaluated, signalled, reported>>
         /\ ended' \in BOOLEAN /\ line' \in Seq(Tokens) /\ buffer' \in Seq(Tokens)
         /\ taken' \in 0 .. Len(text)
         /\ ended' => driver # "repl" /\ taken' = Len(text)
         /\ ~ended' /\ driver # "repl" => taken' < Len(text)
         /\ ended /\ driver = "core" => buffer' = <<"NIL">>
         /\ ended => ended'
         /\ ~ended => taken < Len(text) /\ taken' = taken + 1
         /\ ~ended /\ (~ended' \/ driver = "core") => buffer' = text[taken + 1]
<1>1. /\ pc = "read" /\ buffer = <<>> /\ pc' = pc
      /\ UNCHANGED <<driver, text, stack, val, evaluated, signalled, reported>>
      /\ rebuffer_core \/ rebuffer_file \/ rebuffer_repl \/ PastEnd
  BY DEF Refresh, loop
<1>2. PICK l \in Nat : l = Len(text) /\ taken \in 0 .. l
  BY DEF Types
<1>3. /\ driver \in {"core", "file", "repl"} /\ ended \in BOOLEAN /\ line \in Seq(Tokens)
      /\ ended => driver # "repl" /\ taken = l
      /\ ~ended /\ driver # "repl" => taken < l
  BY <1>2 DEF Types
<1>4. taken < l => text[taken + 1] \in Seq(Tokens)
  BY <1>2, TakenLine
<1>5. <<"NIL">> \in Seq(Tokens)
  BY MarkTokens, Single
<1>6. CASE rebuffer_core
  <2>1. /\ driver = "core" /\ ~ended /\ taken' = taken + 1 /\ (ended' <=> taken + 1 = l)
        /\ buffer' = text[taken + 1] /\ line' = line /\ ended' \in BOOLEAN
    BY <1>2, <1>6 DEF rebuffer_core, IsLast, NextLine
  <2>2. taken < l /\ taken' \in 0 .. l /\ (ended' => taken' = l) /\ (~ended' => taken' < l)
    BY <1>2, <1>3, <2>1
  <2> QED BY <1>1, <1>2, <1>3, <1>4, <2>1, <2>2
<1>7. CASE rebuffer_file
  <2>1. /\ driver = "file" /\ ~ended /\ taken' = taken + 1 /\ (ended' <=> taken + 1 = l)
        /\ buffer' = line' /\ line' \in {line, text[taken + 1]} /\ ended' \in BOOLEAN
        /\ ~ended' => line' = text[taken + 1]
    BY <1>2, <1>7 DEF rebuffer_file, IsLast, NextLine
  <2>2. taken < l /\ taken' \in 0 .. l /\ (ended' => taken' = l) /\ (~ended' => taken' < l)
    BY <1>2, <1>3, <2>1
  <2>3. line' \in Seq(Tokens) /\ buffer' \in Seq(Tokens)
    BY <1>3, <1>4, <2>1, <2>2
  <2> QED BY <1>1, <1>2, <1>3, <2>1, <2>2, <2>3
<1>8. CASE rebuffer_repl
  <2>1. /\ driver = "repl" /\ taken < l /\ taken' = taken + 1 /\ ended' = ended /\ line' = line
        /\ buffer' = text[taken + 1]
    BY <1>2, <1>8 DEF rebuffer_repl, NextLine
  <2>2. taken' \in 0 .. l /\ ~ended
    BY <1>2, <1>3, <2>1
  <2> QED BY <1>1, <1>2, <1>3, <1>4, <2>1, <2>2
<1>9. CASE PastEnd
  BY <1>1, <1>2, <1>3, <1>5, <1>9 DEF PastEnd
<1> QED BY <1>1, <1>6, <1>7, <1>8, <1>9

\* A refill only moves words into the buffer.
LEMMA RefreshMatching ==
  ASSUME Types, Buffered, Matching, Refresh
  PROVE  Types' /\ Buffered' /\ Matching'
<1>1. /\ pc = "read" /\ buffer = <<>> /\ pc' = pc
      /\ UNCHANGED <<driver, text, stack, val, evaluated, signalled, reported>>
      /\ ended' \in BOOLEAN /\ line' \in Seq(Tokens) /\ buffer' \in Seq(Tokens)
      /\ taken' \in 0 .. Len(text)
      /\ ended' => driver # "repl" /\ taken' = Len(text)
      /\ ~ended' /\ driver # "repl" => taken' < Len(text)
      /\ ended => ended'
      /\ ~ended => taken < Len(text) /\ taken' = taken + 1
      /\ ~ended /\ (~ended' \/ driver = "core") => buffer' = text[taken + 1]
  BY RefreshKeeps
<1>2. Types'
  BY <1>1 DEF Types
<1>3. ASSUME ~ended' PROVE Buffered' /\ Matching'
  <2>1. ~ended /\ taken < Len(text) /\ taken' = taken + 1 /\ buffer' = text[taken + 1]
    BY <1>1, <1>3 DEF Types
  <2>2. PICK c \in Seq(Tokens), d \in Seq(Tokens) : c = Consumed /\ d = buffer'
    BY <1>1, TakenType
  <2>3. Taken = c
    BY <1>1, <2>1, <2>2, Joined DEF Buffered
  <2>4. Taken' = c \o d
    BY <1>1, <2>1, <2>2, <2>3, TakenLine DEF Taken
  <2>5. SubSeq(Taken', 1, Len(Taken') - Len(d)) = c
    BY <2>4, Before
  <2>6. Consumed' = c
    BY <2>2, <2>5 DEF Consumed, Taken
  <2> QED BY <1>1, <2>1, <2>2, <2>4, <2>6 DEF Buffered, Matching
<1> QED BY <1>2, <1>3 DEF Buffered, Matching

\* An empty last line is taken when nothing is pending.
LEMMA RefreshAtEnd ==
  ASSUME Types, Buffered, Matching, AtEnd, Refresh
  PROVE  AtEnd'
<1>1. /\ pc = "read" /\ buffer = <<>> /\ pc' = pc
      /\ UNCHANGED <<driver, text, stack, val, evaluated, signalled, reported>>
      /\ taken' \in 0 .. Len(text)
      /\ ended' => driver # "repl" /\ taken' = Len(text)
      /\ ended /\ driver = "core" => buffer' = <<"NIL">>
      /\ ~ended => taken < Len(text) /\ taken' = taken + 1
      /\ ~ended /\ (~ended' \/ driver = "core") => buffer' = text[taken + 1]
  BY RefreshKeeps
<1> SUFFICES ASSUME ended', Last(text) = <<>>, WellFormed(Words(text))
             PROVE  /\ FlattenSeq(evaluated) = Printed(Words(text))
                    /\ driver = "core" => AtNil'
  BY <1>1 DEF AtEnd
<1>2. CASE ended
  BY <1>1, <1>2 DEF AtEnd, AtNil
<1>3. CASE ~ended
  <2>1. taken < Len(text) /\ taken + 1 = Len(text)
    BY <1>1, <1>3
  <2>2. PICK c \in Seq(Tokens) : c = Consumed
    BY TakenType
  <2>3. Taken = c
    BY <1>1, <1>3, <2>2, Joined DEF Buffered
  <2>4. text[taken + 1] = <<>>
    BY <2>1 DEF Last
  <2>5. Words(text) = c
    <3>1. SubSeq(text, 1, Len(text)) = text
      BY SubSeqFull DEF Types
    <3>2. Words(SubSeq(text, 1, taken + 1)) = Taken \o text[taken + 1]
      BY <2>1, TakenLine
    <3> QED BY <2>1, <2>3, <2>4, <3>1, <3>2, Joined
  <2>6. Begins(c, c)
    BY DEF Begins
  <2>7. Stands(c, stack, Len(c) + 1, FlattenSeq(evaluated))
    BY <1>1, <1>3, <2>2, <2>5, <2>6 DEF Matching, Where
  <2>8. stack = <<>> /\ FlattenSeq(evaluated) = Printed(c)
    BY <2>5, <2>7, NothingPending DEF Types
  <2> QED BY <1>1, <1>3, <2>4, <2>5, <2>8 DEF AtNil
<1> QED BY <1>2, <1>3

-----------------------------------------------------------------------------
(* Values                                                                    *)

\* Dotted makes a list.
LEMMA DottedType ==
  ASSUME NEW items \in Seq(Tokens), NEW v \in Seq(Tokens), v # <<>>
  PROVE  Frame("close", Dotted(items, v)) \in Frames
<1>1. PICK o \in Seq(Tokens), k \in Seq(Tokens) : o = <<"(">> /\ k = <<")">> /\ o # <<>>
  BY MarkTokens, Single
<1>2. PICK q \in Seq(Tokens), d \in Seq(Tokens) : q = <<"quote">> /\ d = <<".">>
  BY MarkTokens, Single
<1>3. Tail(v) \in Seq(Tokens)
  BY HeadTailIs
<1>4. PICK y \in Seq(Tokens) : y = o \o items /\ y # <<>>
  BY <1>1, Joined
<1>5. y \o Tail(v) \in Seq(Tokens) /\ y \o Tail(v) # <<>>
  BY <1>3, <1>4, Joined
<1>6. ((y \o q) \o Tail(v)) \o k \in Seq(Tokens) /\ ((y \o q) \o Tail(v)) \o k # <<>>
  <2>1. PICK x \in Seq(Tokens) : x = y \o q /\ x # <<>>
    BY <1>4, Joined
  <2>2. PICK s \in Seq(Tokens) : s = x \o Tail(v) /\ s # <<>>
    BY <1>3, <2>1, Joined
  <2>3. s \o k \in Seq(Tokens) /\ s \o k # <<>>
    BY <2>2, Joined
  <2> QED BY <2>1, <2>2, <2>3
<1>7. ((y \o d) \o v) \o k \in Seq(Tokens) /\ ((y \o d) \o v) \o k # <<>>
  <2>1. PICK x \in Seq(Tokens) : x = y \o d /\ x # <<>>
    BY <1>4, Joined
  <2>2. PICK s \in Seq(Tokens) : s = x \o v /\ s # <<>>
    BY <2>1, Joined
  <2>3. s \o k \in Seq(Tokens) /\ s \o k # <<>>
    BY <2>2, Joined
  <2> QED BY <2>1, <2>2, <2>3
<1>8. Dotted(items, v) = y \o Tail(v) \/ Dotted(items, v) = ((y \o q) \o Tail(v)) \o k
      \/ Dotted(items, v) = ((y \o d) \o v) \o k
  BY <1>1, <1>2, <1>4 DEF Dotted
<1>9. Dotted(items, v) \in Seq(Tokens) /\ Dotted(items, v) # <<>>
  BY <1>5, <1>6, <1>7, <1>8
<1> QED BY <1>9, CloseType

\* A value is taken without a word being read.
LEMMA ReturnKeeps ==
  ASSUME Return
  PROVE  /\ pc = "return"
         /\ UNCHANGED <<driver, text, taken, ended, line, nils, buffer, evaluated, signalled, reported>>
BY DEF Return, source, loop

\* Taking a value keeps the types.
LEMMA ReturnTypes ==
  ASSUME Types, Return
  PROVE  Types'
<1>1. /\ pc = "return"
      /\ UNCHANGED <<driver, text, taken, ended, line, nils, buffer, evaluated, signalled, reported>>
  BY ReturnKeeps
<1>2. SUFFICES /\ stack' \in Seq(Frames)
               /\ pc' \in {"read", "return", "eval"} /\ (pc' = "eval" => stack' = <<>>)
               /\ val' \in Seq(Tokens) /\ val' # <<>>
  BY <1>1 DEF Types
<1>3. stack \in Seq(Frames) /\ val \in Seq(Tokens) /\ val # <<>>
  BY DEF Types
<1>4. \A f \in Frames : stack # <<>> => Append(Front(stack), f) \in Seq(Frames)
  BY <1>3, FrontType, AppendProperties
<1>5. CASE Mode = "top"
  <2>1. stack = <<>>
    <3>1. stack # <<>> => Last(stack) \in Frames
      BY <1>3, FrontType
    <3> QED BY <1>5, <3>1 DEF Mode, Frames
  <2> QED BY <1>3, <1>5, <2>1 DEF Return
<1>6. CASE Mode = "quote"
  <2>1. stack # <<>>
    BY <1>6, ModeIs
  <2>2. <<"'">> \o val \in Seq(Tokens) /\ <<"'">> \o val # <<>>
    BY <1>3, MarkTokens, Single, Joined
  <2> QED BY <1>1, <1>3, <1>6, <2>1, <2>2, FrontType DEF Return
<1>7. CASE Mode = "list"
  <2>1. stack # <<>>
    BY <1>7, ModeIs
  <2>2. Frame("list", Items \o val) \in Frames
    <3>1. Items \o val \in Seq(Tokens)
      BY <1>3, <2>1, FrontType, Joined DEF Items
    <3> QED BY <3>1, FrameType
  <2> QED BY <1>1, <1>3, <1>4, <1>7, <2>1, <2>2 DEF Return
<1>8. CASE Mode = "dot"
  <2>1. stack # <<>>
    BY <1>8, ModeIs
  <2>2. Frame("close", Dotted(Items, val)) \in Frames
    BY <1>3, <2>1, FrontType, DottedType DEF Items
  <2> QED BY <1>1, <1>3, <1>4, <1>8, <2>1, <2>2 DEF Return
<1> QED BY <1>5, <1>6, <1>7, <1>8 DEF Return

\* Taking a value keeps the frames in step.
LEMMA ReturnMatching ==
  ASSUME Types, Buffered, Matching, Return
  PROVE  Buffered' /\ Matching'
<1>1. /\ pc = "return"
      /\ UNCHANGED <<driver, text, taken, ended, line, nils, buffer, evaluated, signalled, reported>>
  BY ReturnKeeps
<1>2. Taken' = Taken /\ Consumed' = Consumed
  BY <1>1 DEF Taken, Consumed
<1>3. Buffered'
  BY <1>1, <1>2 DEF Buffered
<1>4. stack \in Seq(Frames) /\ Mode = ModeOf(stack) /\ (Mode # "top" => stack # <<>>)
  BY ModeIs DEF Types
<1>5. PICK n \in Nat : n = Len(Consumed)
  BY TakenType
<1>6. PICK e : e = FlattenSeq(evaluated)
  OBVIOUS
<1>7. ASSUME NEW w \in Seq(Tokens), WellFormed(w), Where(w, n, stack, pc, val, e)
      PROVE  Where(w, n, stack', pc', val', e)
  <2>1. PICK b \in Nat : Stands(w, stack, b, e) /\ ValueOk(w, b, n, ModeOf(stack), val)
    BY <1>1, <1>7 DEF Where
  <2>2. CASE Mode = "top"
    <3>1. pc' = "eval" /\ stack' = stack /\ val' = val
      BY <2>2 DEF Return
    <3> QED BY <1>1, <1>7, <3>1 DEF Where
  <2>3. CASE Mode = "quote"
    <3>1. pc' = "return" /\ stack' = Front(stack) /\ val' = <<"'">> \o val /\ stack # <<>>
      BY <1>1, <1>4, <2>3 DEF Return
    <3>2. \E a \in Nat : Stands(w, stack', a, e) /\ ValueOk(w, a, n, ModeOf(stack'), val')
      BY <1>4, <1>7, <2>1, <2>3, <3>1, TakeQuote
    <3>3. ModeOf(stack') # "close"
      BY <1>4, <2>1, <3>1, Popped
    <3> QED BY <3>1, <3>2, <3>3 DEF Where
  <2>4. CASE Mode = "list"
    <3>1. /\ pc' = "read" /\ stack # <<>>
          /\ stack' = Append(Front(stack), Frame("list", Last(stack).items \o val))
      BY <1>4, <2>4 DEF Return, Items
    <3>2. Stands(w, stack', n + 1, e)
      BY <1>4, <1>7, <2>1, <2>4, <3>1, TakeItem
    <3> QED BY <3>1, <3>2 DEF Where
  <2>5. CASE Mode = "dot"
    <3>1. /\ pc' = "read" /\ stack # <<>>
          /\ stack' = Append(Front(stack), Frame("close", Dotted(Last(stack).items, val)))
      BY <1>4, <2>5 DEF Return, Items
    <3>2. Stands(w, stack', n + 1, e)
      BY <1>4, <1>7, <2>1, <2>5, <3>1, TakeTail
    <3> QED BY <3>1, <3>2 DEF Where
  <2> QED BY <2>2, <2>3, <2>4, <2>5 DEF Return
<1>8. Matching'
  BY <1>1, <1>2, <1>5, <1>6, <1>7 DEF Matching
<1> QED BY <1>3, <1>8

\* After the end, a value is only passed on.
LEMMA ReturnAtEnd ==
  ASSUME Types, AtEnd, Return
  PROVE  AtEnd'
<1>1. /\ pc = "return"
      /\ UNCHANGED <<driver, text, taken, ended, line, nils, buffer, evaluated, signalled, reported>>
  BY ReturnKeeps
<1>2. pc' # "done"
  BY <1>1 DEF Return
<1>3. AtNil => AtNil'
  BY <1>1 DEF AtNil, Return, Mode
<1> QED BY <1>1, <1>2, <1>3 DEF AtEnd

-----------------------------------------------------------------------------
(* The loops                                                                 *)

\* A value is evaluated.
LEMMA EvalMatching ==
  ASSUME Types, Buffered, Matching, pc = "eval", evaluated' = Append(evaluated, val),
         UNCHANGED <<driver, source, buffer, stack, val>>,
         pc' \in {"read", "print", "done"}, signalled' \in Nat
  PROVE  Types' /\ Buffered' /\ Matching'
<1>1. UNCHANGED <<driver, text, taken, ended, line, nils, buffer, stack, val>>
  BY DEF source
<1>2. evaluated \in Seq(Seq(Tokens)) /\ val \in Seq(Tokens) /\ stack = <<>>
  BY DEF Types
<1>3. Types'
  <2>1. evaluated' \in Seq(Seq(Tokens))
    BY <1>2, AppendProperties
  <2> QED BY <1>1, <1>2, <2>1 DEF Types
<1>4. Taken' = Taken /\ Consumed' = Consumed /\ Buffered'
  BY <1>1 DEF Taken, Consumed, Buffered
<1>5. PICK n \in Nat : n = Len(Consumed)
  BY TakenType
<1>6. PICK e \in Seq(Tokens) : e = FlattenSeq(evaluated)
  BY <1>2, FlattenType
<1>7. FlattenSeq(evaluated') = e \o val
  BY <1>2, <1>6, FlattenAppend
<1>8. ASSUME NEW w \in Seq(Tokens), WellFormed(w), Where(w, n, stack, pc, val, e)
      PROVE  Where(w, n, stack', pc', val', e \o val)
  <2>1. ModeOf(stack) = "top"
    BY <1>2 DEF ModeOf
  <2>2. PICK b \in Nat : Stands(w, <<>>, b, e) /\ ValueOk(w, b, n, "top", val)
    BY <1>2, <1>8, <2>1 DEF Where
  <2>3. Stands(w, <<>>, n + 1, e \o val)
    BY <2>2, TakeTop
  <2> QED BY <1>1, <1>2, <2>3 DEF Where
<1>9. Matching'
  BY <1>1, <1>4, <1>5, <1>6, <1>7, <1>8 DEF Matching
<1> QED BY <1>3, <1>4, <1>9

\* Front takes away what Append adds.
LEMMA FrontOfAppend ==
  ASSUME NEW S, NEW s \in Seq(S), NEW x \in S
  PROVE  Front(Append(s, x)) = s /\ Last(Append(s, x)) = x /\ Append(s, x) # <<>>
<1>1. PICK t \in Seq(S) : t = Append(s, x) /\ t # <<>>
  BY AppendProperties
<1>2. PICK n \in Nat : n = Len(s)
  OBVIOUS
<1>3. Len(t) = n + 1 /\ (\A i \in 1 .. n : t[i] = s[i]) /\ t[n + 1] = x
  BY <1>1, <1>2
<1>4. (n + 1) - 1 = n
  OBVIOUS
<1>5. PICK f : f = SubSeq(t, 1, n)
  OBVIOUS
<1>6. f \in Seq(S)
  <2>1. \A i \in 1 .. n : t[i] \in S
    BY <1>2, <1>3
  <2> QED BY ONLY <1>5, <2>1, 1 \in Int, n \in Int, SubSeqProperties
<1>7. Len(f) = n /\ \A i \in 1 .. n : f[i] = s[i]
  BY <1>3, <1>5
<1>8. f = s
  BY <1>2, <1>6, <1>7, SeqEqual
<1> QED BY <1>1, <1>3, <1>4, <1>5, <1>8 DEF Front, Last

\* The loops that load a text.
LEMMA LoadKeepsInv ==
  ASSUME Inv, load_core \/ load_file
  PROVE  Inv'
<1>1. /\ driver # "repl" /\ pc = "eval"
      /\ evaluated' = Append(evaluated, val)
      /\ UNCHANGED <<driver, source, buffer, stack, val, signalled, errors, reported>>
      /\ pc' \in {"read", "done"} /\ (ended => pc' = "done")
  BY DEF load_core, load_file
<1>2. driver # "repl" /\ pc = "eval"
  BY DEF load_core, load_file
<1>3. Types' /\ Buffered' /\ Matching'
  <2>1. signalled' \in Nat
    BY <1>1 DEF Inv, Types
  <2> QED BY <1>1, <1>2, <2>1, EvalMatching DEF Inv
<1>4. Reported'
  BY <1>1, <1>2 DEF Reported
<1>5. AtEnd'
  <2> SUFFICES ASSUME ended', Last(text)' = <<>>, WellFormed(Words(text))'
               PROVE  /\ pc' = "done" /\ evaluated' # <<>>
                      /\ FlattenSeq(Front(evaluated')) = Printed(Words(text))'
                      /\ driver' = "core" => Last(evaluated') = <<"NIL">>
    BY DEF AtEnd
  <2>1. ended /\ text' = text /\ driver' = driver
    BY <1>1 DEF source
  <2>2. FlattenSeq(evaluated) = Printed(Words(text)) /\ (driver = "core" => AtNil)
    BY <1>2, <2>1 DEF Inv, AtEnd
  <2>3. Front(evaluated') = evaluated /\ Last(evaluated') = val /\ evaluated' # <<>>
    BY <1>1, FrontOfAppend DEF Inv, Types
  <2> QED BY <1>1, <1>2, <2>1, <2>2, <2>3 DEF AtNil
<1> QED BY <1>3, <1>4, <1>5 DEF Inv

\* The loop at the keyboard.
LEMMA ReplKeepsInv ==
  ASSUME Inv, ReplQuits \/ (\E n \in 0 .. MaxErrors : ReplEval(n)) \/ ReplPrint
  PROVE  Inv'
<1>1. driver = "repl" /\ driver' = driver /\ ~ended /\ ended' = ended
  BY DEF ReplQuits, ReplEval, ReplPrint, loop, source, Inv, Types
<1>2. AtEnd'
  BY <1>1 DEF AtEnd
<1>3. reported = [i \in 1 .. signalled |-> "eval"]
  BY <1>1 DEF Inv, Reported
<1>4. CASE ReplQuits
  <2>1. /\ pc' = "done"
        /\ UNCHANGED <<driver, evaluated, signalled, reported, text, taken, ended, line, nils, buffer, stack, val>>
    BY <1>4 DEF ReplQuits, loop, source
  <2>2. Types'
    BY <2>1 DEF Inv, Types
  <2>3. Taken' = Taken /\ Consumed' = Consumed
    BY <2>1 DEF Taken, Consumed
  <2>4. Buffered'
    BY <2>1, <2>3 DEF Inv, Buffered
  <2>5. Matching'
    BY <2>1 DEF Matching, Where
  <2> QED BY <1>2, <1>3, <2>1, <2>2, <2>4, <2>5 DEF Inv, Reported
<1>5. ASSUME NEW n \in 0 .. MaxErrors, ReplEval(n) PROVE Inv'
  <2>1. /\ pc = "eval" /\ pc' = "print" /\ evaluated' = Append(evaluated, val) /\ signalled' = n
        /\ UNCHANGED <<driver, source, buffer, stack, val>>
        /\ reported' = [i \in 1 .. n |-> "eval"] \o <<>>
    BY <1>5 DEF ReplEval, error_clear
  <2>2. n \in Nat
    BY BoundAssumption
  <2>3. Types' /\ Buffered' /\ Matching'
    BY <2>1, <2>2, EvalMatching DEF Inv
  <2>4. [i \in 1 .. n |-> "eval"] \o <<>> = [i \in 1 .. n |-> "eval"]
    <3>1. [i \in 1 .. n |-> "eval"] \in Seq({"eval"})
      BY <2>2
    <3> QED BY <3>1, ConcatEmptySeq
  <2> QED BY <1>2, <2>1, <2>3, <2>4 DEF Inv, Reported
<1>6. CASE ReplPrint
  <2>1. /\ pc = "print" /\ pc' = "read"
        /\ UNCHANGED <<driver, evaluated, signalled, text, taken, ended, line, nils, buffer, stack, val>>
        /\ reported' = reported \o <<>>
    BY <1>6 DEF ReplPrint, error_clear, source
  <2>2. Types'
    BY <2>1 DEF Inv, Types
  <2>3. Taken' = Taken /\ Consumed' = Consumed
    BY <2>1 DEF Taken, Consumed
  <2>4. Buffered'
    BY <2>1, <2>3 DEF Inv, Buffered
  <2>5. Matching'
    BY <2>1, <2>3 DEF Inv, Matching, Where
  <2>6. reported \o <<>> = reported
    <3>1. signalled \in Nat
      BY DEF Inv, Types
    <3>2. [i \in 1 .. signalled |-> "eval"] \in Seq({"eval"})
      BY <3>1
    <3> QED BY <1>3, <3>2, ConcatEmptySeq
  <2> QED BY <1>2, <1>3, <2>1, <2>2, <2>4, <2>5, <2>6 DEF Inv, Reported
<1> QED BY <1>4, <1>5, <1>6

-----------------------------------------------------------------------------
\* A source is a sequence of lines.
LEMMA TextType == \A t \in Texts : t \in Seq(Seq(Tokens)) /\ t # <<>>
<1> SUFFICES ASSUME NEW t \in Texts PROVE t \in Seq(Seq(Tokens)) /\ t # <<>>
  OBVIOUS
<1>1. t \in Seq(Seq(STRING)) /\ t # <<>>
  BY TextAssumption
<1>2. Seq(STRING) \subseteq Seq(Tokens)
  <2>1. STRING \subseteq Tokens
    BY DEF Tokens
  <2> QED BY <2>1, SeqMonotonic
<1>3. t \in Seq(Seq(Tokens))
  BY <1>1, <1>2, SeqMonotonic
<1> QED BY <1>1, <1>3

\* The invariant holds before the first word.
LEMMA InitInv == Init => Inv
<1> SUFFICES ASSUME Init PROVE Inv
  OBVIOUS
<1>1. /\ driver \in {"core", "file", "repl"} /\ text \in Seq(Seq(Tokens)) /\ text # <<>>
      /\ taken = 0 /\ ended = FALSE /\ line = <<>> /\ buffer = <<>> /\ stack = <<>>
      /\ pc = "read" /\ val = Null /\ evaluated = <<>> /\ signalled = 0 /\ reported = <<>>
  BY TextType, DriverAssumption DEF Init
<1>2. Types
  <2>1. Null \in Seq(Tokens) /\ Null # <<>>
    BY MarkTokens DEF Null
  <2>2. taken \in 0 .. Len(text) /\ taken < Len(text)
    BY <1>1, EmptySeq
  <2>3. <<>> \in Seq(Tokens) /\ <<>> \in Seq(Frames) /\ <<>> \in Seq(Seq(Tokens))
    BY EmptySeq
  <2>4. /\ line \in Seq(Tokens) /\ buffer \in Seq(Tokens) /\ stack \in Seq(Frames)
        /\ evaluated \in Seq(Seq(Tokens)) /\ val \in Seq(Tokens) /\ val # <<>>
    BY <1>1, <2>1, <2>3
  <2>5. signalled \in Nat /\ ended \in BOOLEAN /\ ended = FALSE
    BY <1>1
  <2> QED BY <1>1, <2>2, <2>4, <2>5 DEF Types
<1>3. Taken = <<>>
  <2>1. SubSeq(text, 1, 0) = <<>>
    BY SubSeqEmpty
  <2> QED BY <1>1, <2>1, FlattenEmpty DEF Taken, Words
<1>4. Consumed = <<>>
  <2>1. <<>> = <<>> \o <<>>
    BY Joined
  <2>2. SubSeq(<<>>, 1, Len(<<>>) - Len(<<>>)) = <<>>
    BY <2>1, Joined, Before
  <2> QED BY <1>1, <1>3, <2>2 DEF Consumed, Taken
<1>5. Buffered
  BY <1>1, <1>3, <1>4, Joined DEF Buffered
<1>6. ASSUME NEW w \in Seq(Tokens) PROVE Stands(w, <<>>, 1, <<>>)
  <2>1. PICK l \in Nat : l = Len(w) /\ 1 \in 1 .. l + 1 /\ 0 \in 0 .. l
    OBVIOUS
  <2>2. ~BehindDot(w, 1)
    BY DEF BehindDot
  <2>3. Depth(w, 0) = 0 /\ Told(w, 0) = <<>>
    BY <2>1, DepthStep, ToldStep
  <2>4. 1 - 1 = 0 /\ 1 \in Nat
    OBVIOUS
  <2> QED BY <2>1, <2>2, <2>3, <2>4, StandsTop
<1>7. Matching
  <2>1. Len(Consumed) = 0 /\ 0 + 1 = 1 /\ FlattenSeq(evaluated) = <<>>
    BY <1>1, <1>4, FlattenEmpty
  <2>2. ASSUME NEW w \in Seq(Tokens) PROVE Where(w, 0, stack, pc, val, <<>>)
    BY <1>1, <1>6, <2>1 DEF Where
  <2> QED BY <2>1, <2>2 DEF Matching
<1>8. AtEnd
  BY <1>1 DEF AtEnd
<1>9. Reported
  <2>1. [i \in 1 .. 0 |-> "eval"] = <<>>
    OBVIOUS
  <2> QED BY <1>1, <2>1 DEF Reported
<1> QED BY <1>2, <1>5, <1>7, <1>8, <1>9 DEF Inv

\* Every step keeps the invariant.
LEMMA NextInv == Inv /\ [Next]_vars => Inv'
<1> SUFFICES ASSUME Inv, [Next]_vars PROVE Inv'
  OBVIOUS
<1>1. Types /\ Buffered /\ Matching /\ AtEnd /\ Reported
  BY DEF Inv
<1>2. CASE Refresh
  <2>1. Types' /\ Buffered' /\ Matching' /\ AtEnd'
    BY <1>1, <1>2, RefreshMatching, RefreshAtEnd
  <2>2. Reported'
    BY <1>1, <1>2 DEF Reported, Refresh, loop
  <2> QED BY <2>1, <2>2 DEF Inv
<1>3. CASE WordAction
  <2>1. Types' /\ Buffered' /\ Matching' /\ AtEnd'
    BY <1>1, <1>3, WordTypes, WordMatching, WordAtEnd
  <2>2. Reported'
    BY <1>1, <1>3, WordKeeps DEF Reported
  <2> QED BY <2>1, <2>2 DEF Inv
<1>4. CASE Return
  <2>1. Types' /\ Buffered' /\ Matching' /\ AtEnd'
    BY <1>1, <1>4, ReturnTypes, ReturnMatching, ReturnAtEnd
  <2>2. Reported'
    BY <1>1, <1>4, ReturnKeeps DEF Reported
  <2> QED BY <2>1, <2>2 DEF Inv
<1>5. CASE Loop
  BY <1>5, LoadKeepsInv, ReplKeepsInv DEF Loop
<1>6. CASE UNCHANGED vars
  <2>1. UNCHANGED <<driver, text, taken, ended, line, buffer, stack, pc, val, nils, evaluated, signalled, errors, reported>>
    BY <1>6 DEF vars
  <2>2. Taken' = Taken /\ Consumed' = Consumed
    BY <2>1 DEF Taken, Consumed
  <2>3. Types' /\ AtEnd' /\ Reported'
    BY <1>1, <2>1 DEF Types, AtEnd, AtNil, Reported
  <2>4. Buffered' /\ Matching'
    BY <1>1, <2>1, <2>2 DEF Buffered, Matching
  <2> QED BY <2>3, <2>4 DEF Inv
<1> QED BY <1>2, <1>3, <1>4, <1>5, <1>6 DEF Next, Read, WordAction

\* The frames, the buffer and the loops are always in step with the text.
THEOREM InvIsInvariant == Spec => []Inv
BY InitInv, NextInv, PTL DEF Spec

\* For all texts, all layouts on lines and all three loops: between two expressions,
\* what has been evaluated is what a well-formed source says so far (read_list,
\* next_expr and the refill functions against Printed).
THEOREM EvaluatedAsWritten == Spec => []AsWritten
<1>1. Inv => AsWritten
  <2> SUFFICES ASSUME Inv, pc = "read", stack = <<>>, ~ended, WellFormed(Consumed)
               PROVE  FlattenSeq(evaluated) = Printed(Consumed)
    BY DEF AsWritten
  <2>1. PICK c \in Seq(Tokens) : c = Consumed
    BY TakenType DEF Inv
  <2>2. Begins(c, c)
    BY DEF Begins
  <2>3. Stands(c, stack, Len(c) + 1, FlattenSeq(evaluated))
    BY <2>1, <2>2 DEF Inv, Matching, Where
  <2> QED BY <2>1, <2>3, NothingPending DEF Inv, Types
<1> QED BY <1>1, InvIsInvariant, PTL

\* For all texts that end with a newline: when load_core or load_file returns, the
\* whole text has been evaluated, and one expression more, which is NIL for load_core.
THEOREM TextsAreLoadedCompletely == Spec => []LoadComplete
<1>1. Inv => LoadComplete
  BY DEF Inv, AtEnd, LoadComplete
<1> QED BY <1>1, InvIsInvariant, PTL

\* However many errors an evaluation signals and whatever the reader has signalled:
\* when flisp_repl reads again, each of them has been reported once, with none of an
\* earlier evaluation (Reader.ErrorsReportedOnce).
THEOREM ErrorsAreReportedOnce == Spec => []ErrorsReportedOnce
<1>1. ASSUME Inv PROVE ErrorsReportedOnce
  <2> SUFFICES ASSUME driver = "repl"
      PROVE Cardinality({i \in DOMAIN reported : reported[i] = "eval"}) = signalled
    BY DEF ErrorsReportedOnce
  <2>1. reported = [i \in 1 .. signalled |-> "eval"] /\ signalled \in Nat
    BY <1>1 DEF Inv, Reported, Types
  <2>2. {i \in DOMAIN reported : reported[i] = "eval"} = 1 .. signalled
    BY <2>1
  <2>3. Cardinality(1 .. signalled) = signalled
    BY <2>1, FS_Interval
  <2> QED
    BY <2>2, <2>3
<1> QED BY <1>1, InvIsInvariant, PTL

=============================================================================
