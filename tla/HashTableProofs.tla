-------------------------- MODULE HashTableProofs --------------------------
(***************************************************************************)
(* Proofs about HashTable: the fill count is right and the load bounded, a *)
(* resize leaves at most one entry where gethash does not look, and every  *)
(* other global reads back; for all keys, values and hashes, and however   *)
(* often the table is resized.                                             *)
(***************************************************************************)
EXTENDS HashTable, Integers, TLAPS, FiniteSetTheorems, WellFoundedInduction

\* The tables of n buckets.
Tabs(n) == [fill : Nat, buckets : [0 .. n - 1 -> Seq(Entry)]]

\* An entry for k is in the bucket where gethash looks, and it is the only one.
InPlace(T, k, n) ==
  \A b \in 0 .. n - 1 : \A i \in 1 .. Len(T.buckets[b]) :
    T.buckets[b][i].key = k =>
      /\ b = Bucket(k, n)
      /\ \A j \in 1 .. Len(T.buckets[b]) : T.buckets[b][j].key = k => j = i

\* There is an entry e; one for k.
Holds(T, e, n) ==
  \E b \in 0 .. n - 1 : \E i \in 1 .. Len(T.buckets[b]) : T.buckets[b][i] = e
Present(T, k, n) ==
  \E b \in 0 .. n - 1 : \E i \in 1 .. Len(T.buckets[b]) : T.buckets[b][i].key = k

\* At most one entry is in a bucket where gethash does not look for it.
OneMisplaced(T, n) ==
  \A b \in 0 .. n - 1 : \A i \in 1 .. Len(T.buckets[b]) :
    Bucket(T.buckets[b][i].key, n) # b =>
      \A c \in 0 .. n - 1 : \A j \in 1 .. Len(T.buckets[c]) :
        Bucket(T.buckets[c][j].key, n) # c => b = c /\ i = j

\* U is T with the value v in entry i of bucket b, P is T with a new entry e there.
Updated(T, U, n, b, i, v) ==
  /\ U.fill = T.fill
  /\ \A c \in 0 .. n - 1 : Len(U.buckets[c]) = Len(T.buckets[c])
  /\ U.buckets[b][i] = [key |-> T.buckets[b][i].key, val |-> v]
  /\ \A c \in 0 .. n - 1 : \A j \in 1 .. Len(T.buckets[c]) :
       c # b \/ j # i => U.buckets[c][j] = T.buckets[c][j]

Added(T, P, n, b, e) ==
  /\ P.fill = T.fill + 1
  /\ Len(P.buckets[b]) = Len(T.buckets[b]) + 1
  /\ P.buckets[b][1] = e
  /\ \A j \in 2 .. Len(P.buckets[b]) :
       j - 1 \in 1 .. Len(T.buckets[b]) /\ P.buckets[b][j] = T.buckets[b][j - 1]
  /\ \A j \in 1 .. Len(T.buckets[b]) :
       j + 1 \in 2 .. Len(P.buckets[b]) /\ P.buckets[b][j + 1] = T.buckets[b][j]
  /\ \A c \in 0 .. n - 1 : c # b => P.buckets[c] = T.buckets[c]

\* The fill count is the number of entries.
Counted(T) ==
  IsFiniteSet(Positions(T)) /\ T.fill = Cardinality(Positions(T))

-----------------------------------------------------------------------------
(* Induction and recursion over numbers                                      *)

Less == {pair \in Nat \X Nat : pair[1] < pair[2]}

LEMMA LeastIs ==
  ASSUME NEW X \in SUBSET Nat, X # {}
  PROVE  \E n \in X : \A m \in X : n <= m
<1>1. PICK n \in X : \A m \in X : ~(<<m, n>> \in Less)
  <2>1. IsWellFoundedOn(Less, Nat)
    BY NatLessThanWellFounded DEF OpToRel, Less
  <2> QED
    BY <2>1, WFMin
<1>2. ASSUME NEW m \in X PROVE n <= m
  <2>1. m \in Nat /\ n \in Nat
    OBVIOUS
  <2>2. <<m, n>> \in Less <=> m < n
    BY <2>1 DEF Less
  <2> QED
    BY <1>1, <2>1, <2>2
<1> QED
  BY <1>2

\* A set of numbers with 0 in it, and with every number the next one, is all of them.
LEMMA Induct ==
  ASSUME NEW S, 0 \in S, \A n \in Nat : n \in S => n + 1 \in S
  PROVE  Nat \subseteq S
<1> SUFFICES ASSUME Nat \ S # {} PROVE FALSE
  OBVIOUS
<1>1. PICK n \in Nat \ S : \A m \in Nat \ S : n <= m
  BY LeastIs
<1>2. n # 0 /\ n - 1 \in Nat /\ (n - 1) + 1 = n
  BY <1>1
<1>3. n - 1 \in S
  BY <1>1, <1>2
<1> QED
  BY <1>1, <1>2, <1>3

\* A recursive function of the numbers up to L is defined.
Maps(g, S, L) == \A n \in 1 .. L : \A x \in S : g[<<n, x>>] \in S

LEMMA Recursion ==
  ASSUME NEW S, NEW a \in S, NEW L \in Nat, NEW g, Maps(g, S, L)
  PROVE  \E f \in [0 .. L -> S] : f[0] = a /\ \A n \in 1 .. L : f[n] = g[<<n, f[n - 1]>>]
<1> DEFINE Upto(m) == \E f \in [0 .. m -> S] :
                        f[0] = a /\ \A n \in 1 .. m : f[n] = g[<<n, f[n - 1]>>]
           Q == {m \in Nat : m <= L => Upto(m)}
<1>1. Upto(0)
  <2> DEFINE f == [n \in 0 .. 0 |-> a]
  <2>1. f \in [0 .. 0 -> S] /\ f[0] = a /\ \A n \in 1 .. 0 : f[n] = g[<<n, f[n - 1]>>]
    OBVIOUS
  <2> QED
    BY <2>1
<1>2. ASSUME NEW m \in Nat, m + 1 <= L, Upto(m) PROVE Upto(m + 1)
  <2>1. PICK f \in [0 .. m -> S] : f[0] = a /\ \A n \in 1 .. m : f[n] = g[<<n, f[n - 1]>>]
    BY <1>2
  <2> DEFINE h == [n \in 0 .. m + 1 |-> IF n = m + 1 THEN g[<<m + 1, f[m]>>] ELSE f[n]]
  <2>2. f[m] \in S /\ m + 1 \in 1 .. L
    BY <1>2, <2>1
  <2>3. g[<<m + 1, f[m]>>] \in S
    BY <2>2 DEF Maps
  <2>4. \A n \in 0 .. m + 1 : n = m + 1 \/ n \in 0 .. m
    OBVIOUS
  <2>5. h \in [0 .. m + 1 -> S] /\ h[0] = a
    BY <2>1, <2>3, <2>4
  <2>6. ASSUME NEW n \in 1 .. m + 1 PROVE h[n] = g[<<n, h[n - 1]>>]
    <3>1. n - 1 \in 0 .. m /\ n - 1 \in 0 .. m + 1 /\ n - 1 # m + 1 /\ n \in 0 .. m + 1
      OBVIOUS
    <3>2. h[n - 1] = f[n - 1]
      BY <3>1
    <3>3. CASE n = m + 1
      BY <3>1, <3>2, <3>3
    <3>4. CASE n # m + 1
      <4>1. n \in 1 .. m /\ h[n] = f[n]
        BY <3>1, <3>4
      <4> QED
        BY <2>1, <3>2, <4>1
    <3> QED
      BY <3>3, <3>4
  <2> HIDE DEF h
  <2> QED
    BY <2>5, <2>6
<1> HIDE DEF Upto
<1>3. 0 \in Q
  BY <1>1
<1>4. ASSUME NEW m \in Nat, m \in Q PROVE m + 1 \in Q
  BY <1>2, <1>4
<1> HIDE DEF Q
<1>5. Nat \subseteq Q
  BY <1>3, <1>4, Induct
<1>6. Upto(L)
  BY <1>5 DEF Q
<1> QED
  BY <1>6 DEF Upto

-----------------------------------------------------------------------------
(* Tables                                                                    *)

\* The size of a table is the number of its buckets.
LEMMA SizeIs ==
  ASSUME NEW n \in Nat, NEW T \in Tabs(n)
  PROVE  Size(T) = n /\ DOMAIN T.buckets = 0 .. n - 1
<1>1. DOMAIN T.buckets = 0 .. n - 1
  BY DEF Tabs
<1>2. Cardinality(0 .. n - 1) = n
  <2>1. 0 \in Int /\ n - 1 \in Int
    OBVIOUS
  <2>2. Cardinality(0 .. n - 1) = IF 0 > n - 1 THEN 0 ELSE (n - 1) - 0 + 1
    BY <2>1, FS_Interval
  <2> QED
    BY <2>2
<1> QED
  BY <1>1, <1>2 DEF Size

\* A key has a bucket in a table of any size.
LEMMA BucketIs ==
  ASSUME NEW k \in Keys, NEW n \in Nat, n > 0
  PROVE  Bucket(k, n) \in 0 .. n - 1
<1>1. sxhash[k] \in Nat
  BY HashAssumption
<1>2. \A h \in Nat : h % n \in 0 .. n - 1
  OBVIOUS
<1> QED
  BY <1>1, <1>2 DEF Bucket

\* assoc finds an entry for the key if there is one.
LEMMA AssocIs ==
  ASSUME NEW list \in Seq(Entry), NEW k
  PROVE  /\ assoc(k, list) \in 0 .. Len(list)
         /\ assoc(k, list) = 0 => \A i \in 1 .. Len(list) : list[i].key # k
         /\ assoc(k, list) # 0 => list[assoc(k, list)].key = k
<1> DEFINE found == {n \in DOMAIN list : list[n].key = k}
<1>1. found \subseteq 1 .. Len(list) /\ Len(list) \in Nat
      /\ \A i \in 1 .. Len(list) : list[i].key = k <=> i \in found
  OBVIOUS
<1>2. CASE found = {}
  <2>1. assoc(k, list) = 0
    BY <1>2 DEF assoc
  <2> QED
    BY <1>1, <1>2, <2>1
<1>3. CASE found # {}
  <2>1. \E n \in found : \A m \in found : n <= m
    <3>1. found \in SUBSET Nat
      BY <1>1
    <3> HIDE DEF found
    <3> QED
      BY <1>3, <3>1, LeastIs
  <2>2. assoc(k, list) = CHOOSE n \in found : \A m \in found : n <= m
    BY <1>3 DEF assoc
  <2> HIDE DEF found
  <2>3. assoc(k, list) \in found
    BY <2>1, <2>2
  <2>4. assoc(k, list) \in 1 .. Len(list) /\ list[assoc(k, list)].key = k
    BY <1>1, <2>3 DEF found
  <2>5. assoc(k, list) # 0 /\ assoc(k, list) \in 0 .. Len(list)
    BY <1>1, <2>4
  <2> QED
    BY <2>4, <2>5
<1> QED
  BY <1>2, <1>3

\* An update changes one value and moves no entry.
LEMMA UpdateIs ==
  ASSUME NEW n \in Nat, NEW T \in Tabs(n), NEW b \in 0 .. n - 1,
         NEW i \in 1 .. Len(T.buckets[b]), NEW v \in Values
  PROVE  /\ Update(T, b, i, v) \in Tabs(n)
         /\ Updated(T, Update(T, b, i, v), n, b, i, v)
<1>1. PICK U : U = Update(T, b, i, v)
  OBVIOUS
<1>2. PICK list : list = T.buckets[b]
  OBVIOUS
<1>3. list \in Seq(Entry) /\ i \in 1 .. Len(list) /\ list[i] \in Entry
  BY <1>2 DEF Tabs
<1>4. [list[i] EXCEPT !.val = v] = [key |-> list[i].key, val |-> v]
      /\ [list[i] EXCEPT !.val = v] \in Entry
  BY <1>3 DEF Entry
<1>5. PICK new : new = [list EXCEPT ![i] = [list[i] EXCEPT !.val = v]]
  OBVIOUS
<1>6. new \in Seq(Entry) /\ Len(new) = Len(list) /\ new[i] = [key |-> list[i].key, val |-> v]
      /\ \A j \in 1 .. Len(list) : j # i => new[j] = list[j]
  BY <1>3, <1>4, <1>5
<1>7. U = [fill |-> T.fill, buckets |-> [T.buckets EXCEPT ![b] = new]]
  <2>1. U = [T EXCEPT !.buckets = [T.buckets EXCEPT ![b] = new]]
    BY <1>1, <1>2, <1>5 DEF Update
  <2> QED
    BY <2>1 DEF Tabs
<1>8. U \in Tabs(n) /\ U.fill = T.fill /\ U.buckets[b] = new
      /\ \A c \in 0 .. n - 1 : c # b => U.buckets[c] = T.buckets[c]
  BY <1>6, <1>7 DEF Tabs
<1>9. \A c \in 0 .. n - 1 : Len(U.buckets[c]) = Len(T.buckets[c])
  BY <1>2, <1>6, <1>8
<1>10. U.buckets[b][i] = [key |-> T.buckets[b][i].key, val |-> v]
  BY <1>2, <1>6, <1>8
<1>11. \A c \in 0 .. n - 1 : \A j \in 1 .. Len(T.buckets[c]) :
         c # b \/ j # i => U.buckets[c][j] = T.buckets[c][j]
  BY <1>2, <1>6, <1>8
<1> QED
  BY <1>1, <1>8, <1>9, <1>10, <1>11 DEF Updated

\* A new entry comes in front of those in its bucket.
LEMMA PushIs ==
  ASSUME NEW n \in Nat, NEW T \in Tabs(n), NEW b \in 0 .. n - 1, NEW k \in Keys, NEW v \in Values
  PROVE  /\ Push(T, b, k, v) \in Tabs(n)
         /\ Added(T, Push(T, b, k, v), n, b, [key |-> k, val |-> v])
<1>1. PICK P : P = Push(T, b, k, v)
  OBVIOUS
<1>2. PICK list : list = T.buckets[b]
  OBVIOUS
<1>3. PICK e : e = [key |-> k, val |-> v]
  OBVIOUS
<1>4. list \in Seq(Entry) /\ Len(list) \in Nat /\ e \in Entry
  <2>1. list \in Seq(Entry)
    BY <1>2 DEF Tabs
  <2>2. e \in Entry
    BY <1>3 DEF Entry
  <2> QED
    BY <2>1, <2>2
<1>5. PICK new : new = <<e>> \o list
  OBVIOUS
<1>6. new \in Seq(Entry) /\ Len(new) = Len(list) + 1 /\ new[1] = e
  BY <1>4, <1>5
<1>7. \A j \in 2 .. Len(new) : j - 1 \in 1 .. Len(list) /\ new[j] = list[j - 1]
  BY <1>4, <1>5, <1>6
<1>8. \A j \in 1 .. Len(list) : j + 1 \in 2 .. Len(new) /\ new[j + 1] = list[j]
  BY <1>4, <1>6, <1>7
<1>9. P = [fill |-> T.fill + 1, buckets |-> [T.buckets EXCEPT ![b] = new]]
  BY <1>1, <1>2, <1>3, <1>5 DEF Push
<1>10. P \in Tabs(n) /\ P.fill = T.fill + 1 /\ P.buckets[b] = new
       /\ \A c \in 0 .. n - 1 : c # b => P.buckets[c] = T.buckets[c]
  BY <1>6, <1>9 DEF Tabs
<1> QED
  BY <1>1, <1>2, <1>3, <1>6, <1>7, <1>8, <1>10 DEF Added

\* So there is one position more.
LEMMA UpdateCounted ==
  ASSUME NEW n \in Nat, NEW T \in Tabs(n), Counted(T),
         NEW U \in Tabs(n), NEW b, NEW i, NEW v, Updated(T, U, n, b, i, v)
  PROVE  Counted(U)
<1>1. \A c \in 0 .. n - 1 : DOMAIN U.buckets[c] = DOMAIN T.buckets[c]
  <2> TAKE c \in 0 .. n - 1
  <2>1. U.buckets[c] \in Seq(Entry) /\ T.buckets[c] \in Seq(Entry)
    BY DEF Tabs
  <2> QED
    BY <2>1 DEF Updated
<1>2. DOMAIN T.buckets = 0 .. n - 1 /\ DOMAIN U.buckets = 0 .. n - 1
  BY DEF Tabs
<1>3. Positions(U) = Positions(T)
  BY <1>1, <1>2 DEF Positions
<1> QED
  BY <1>3 DEF Counted, Updated

LEMMA PushCounted ==
  ASSUME NEW n \in Nat, NEW T \in Tabs(n), Counted(T), NEW b \in 0 .. n - 1,
         NEW P \in Tabs(n), NEW e, Added(T, P, n, b, e)
  PROVE  Counted(P)
<1>1. DOMAIN T.buckets = 0 .. n - 1 /\ DOMAIN P.buckets = 0 .. n - 1
  BY DEF Tabs
<1>2. \A c \in 0 .. n - 1 : DOMAIN T.buckets[c] = 1 .. Len(T.buckets[c])
                            /\ DOMAIN P.buckets[c] = 1 .. Len(P.buckets[c])
                            /\ Len(T.buckets[c]) \in Nat
  <2> TAKE c \in 0 .. n - 1
  <2>1. P.buckets[c] \in Seq(Entry) /\ T.buckets[c] \in Seq(Entry)
    BY DEF Tabs
  <2> QED
    BY <2>1
<1>3. PICK end : end = <<b, Len(T.buckets[b]) + 1>>
  OBVIOUS
<1>4. ASSUME NEW c, NEW i
      PROVE  <<c, i>> \in Positions(P) <=>
               <<c, i>> \in Positions(T) \cup {<<b, Len(T.buckets[b]) + 1>>}
  <2>1. <<c, i>> \in Positions(P) <=> c \in 0 .. n - 1 /\ i \in 1 .. Len(P.buckets[c])
    BY <1>1, <1>2 DEF Positions
  <2>2. <<c, i>> \in Positions(T) <=> c \in 0 .. n - 1 /\ i \in 1 .. Len(T.buckets[c])
    BY <1>1, <1>2 DEF Positions
  <2>3. CASE c = b
    <3>1. i \in 1 .. Len(P.buckets[b]) <=> i \in 1 .. Len(T.buckets[b]) \/ i = Len(T.buckets[b]) + 1
      BY <1>2 DEF Added
    <3> QED
      BY <2>1, <2>2, <2>3, <3>1
  <2>4. CASE c # b
    BY <2>1, <2>2, <2>4 DEF Added
  <2> QED
    BY <2>3, <2>4
<1>5. \A p \in Positions(P) \cup Positions(T) : p = <<p[1], p[2]>>
  BY DEF Positions
<1>6. Positions(P) = Positions(T) \cup {end}
  <2>1. ASSUME NEW p \in Positions(P) PROVE p \in Positions(T) \cup {end}
    BY <1>3, <1>4, <1>5
  <2>2. ASSUME NEW p \in Positions(T) PROVE p \in Positions(P)
    BY <1>4, <1>5
  <2>3. end \in Positions(P)
    BY <1>3, <1>4
  <2> QED
    BY <2>1, <2>2, <2>3
<1>7. end \notin Positions(T)
  <2>1. end \in Positions(T) => Len(T.buckets[b]) + 1 \in 1 .. Len(T.buckets[b])
    BY <1>1, <1>2, <1>3 DEF Positions
  <2> QED
    BY <1>2, <2>1
<1> QED
  BY <1>6, <1>7, FS_AddElement DEF Counted, Added

-----------------------------------------------------------------------------
(* What updating and adding an entry do to the other entries                 *)

LEMMA UpdatedKeys ==
  ASSUME NEW n \in Nat, NEW T, NEW U, NEW b, NEW i, NEW v, Updated(T, U, n, b, i, v)
  PROVE  \A c \in 0 .. n - 1 : \A j \in 1 .. Len(T.buckets[c]) :
           U.buckets[c][j].key = T.buckets[c][j].key
<1> TAKE c \in 0 .. n - 1
<1> TAKE j \in 1 .. Len(T.buckets[c])
<1>1. CASE c = b /\ j = i
  BY <1>1 DEF Updated
<1>2. CASE c # b \/ j # i
  BY <1>2 DEF Updated
<1> QED
  BY <1>1, <1>2

LEMMA UpdatedInPlace ==
  ASSUME NEW n \in Nat, NEW T, NEW U, NEW b, NEW i, NEW v, Updated(T, U, n, b, i, v), NEW k
  PROVE  InPlace(T, k, n) => InPlace(U, k, n)
<1>1. \A c \in 0 .. n - 1 : /\ Len(U.buckets[c]) = Len(T.buckets[c])
                            /\ \A j \in 1 .. Len(T.buckets[c]) :
                                 U.buckets[c][j].key = T.buckets[c][j].key
  BY UpdatedKeys DEF Updated
<1> QED
  BY <1>1 DEF InPlace

LEMMA UpdatedMisplaced ==
  ASSUME NEW n \in Nat, NEW T, NEW U, NEW b, NEW i, NEW v, Updated(T, U, n, b, i, v)
  PROVE  OneMisplaced(T, n) => OneMisplaced(U, n)
<1>1. \A c \in 0 .. n - 1 : /\ Len(U.buckets[c]) = Len(T.buckets[c])
                            /\ \A j \in 1 .. Len(T.buckets[c]) :
                                 U.buckets[c][j].key = T.buckets[c][j].key
  BY UpdatedKeys DEF Updated
<1> QED
  BY <1>1 DEF OneMisplaced

LEMMA UpdatedHolds ==
  ASSUME NEW n \in Nat, NEW T, NEW U, NEW b \in 0 .. n - 1, NEW i \in 1 .. Len(T.buckets[b]),
         NEW v, Updated(T, U, n, b, i, v)
  PROVE  /\ \A x : Holds(U, x, n) => Holds(T, x, n) \/ x = [key |-> T.buckets[b][i].key, val |-> v]
         /\ \A k : Present(T, k, n) => Present(U, k, n)
<1>0. \A c \in 0 .. n - 1 : \A j \in 1 .. Len(T.buckets[c]) : U.buckets[c][j].key = T.buckets[c][j].key
  BY UpdatedKeys DEF Updated
<1>1. ASSUME NEW x, Holds(U, x, n)
      PROVE  Holds(T, x, n) \/ x = [key |-> T.buckets[b][i].key, val |-> v]
  <2>1. PICK c \in 0 .. n - 1 : \E j \in 1 .. Len(U.buckets[c]) : U.buckets[c][j] = x
    BY <1>1 DEF Holds
  <2>2. PICK j \in 1 .. Len(U.buckets[c]) : U.buckets[c][j] = x
    BY <2>1
  <2>3. j \in 1 .. Len(T.buckets[c])
    BY DEF Updated
  <2>4. CASE c = b /\ j = i
    BY <2>2, <2>4 DEF Updated
  <2>5. CASE c # b \/ j # i
    BY <2>2, <2>3, <2>5 DEF Updated, Holds
  <2> QED
    BY <2>4, <2>5
<1>2. ASSUME NEW k, Present(T, k, n) PROVE Present(U, k, n)
  <2>1. PICK c \in 0 .. n - 1 : \E j \in 1 .. Len(T.buckets[c]) : T.buckets[c][j].key = k
    BY <1>2 DEF Present
  <2>2. PICK j \in 1 .. Len(T.buckets[c]) : T.buckets[c][j].key = k
    BY <2>1
  <2>3. U.buckets[c][j].key = k
    BY <1>0, <2>2
  <2>4. j \in 1 .. Len(U.buckets[c])
    BY DEF Updated
  <2> QED
    BY <2>3, <2>4 DEF Present
<1> QED
  BY <1>1, <1>2

\* Entry j of bucket c of P is the new one or was in T, one place further to the front
\* when it is in the bucket of the new one.
From(T, P, b, e, c, j) ==
  \/ c = b /\ j = 1 /\ P.buckets[c][j] = e
  \/ c = b /\ j # 1 /\ j - 1 \in 1 .. Len(T.buckets[c]) /\ P.buckets[c][j] = T.buckets[c][j - 1]
  \/ c # b /\ j \in 1 .. Len(T.buckets[c]) /\ P.buckets[c][j] = T.buckets[c][j]

LEMMA AddedFrom ==
  ASSUME NEW n \in Nat, NEW T \in Tabs(n), NEW P, NEW b \in 0 .. n - 1, NEW e,
         Added(T, P, n, b, e)
  PROVE  \A c \in 0 .. n - 1 : \A j \in 1 .. Len(P.buckets[c]) : From(T, P, b, e, c, j)
<1> TAKE c \in 0 .. n - 1
<1> TAKE j \in 1 .. Len(P.buckets[c])
<1>1. CASE c = b /\ j # 1
  <2>1. Len(T.buckets[b]) \in Nat
    <3>1. T.buckets[b] \in Seq(Entry)
      BY DEF Tabs
    <3> QED
      BY <3>1
  <2>2. j \in 2 .. Len(P.buckets[b])
    BY <1>1, <2>1 DEF Added
  <2> QED
    BY <1>1, <2>2 DEF Added, From
<1>2. CASE c = b /\ j = 1
  BY <1>2 DEF Added, From
<1>3. CASE c # b
  BY <1>3 DEF Added, From
<1> QED
  BY <1>1, <1>2, <1>3

LEMMA AddedInPlace ==
  ASSUME NEW n \in Nat, NEW T \in Tabs(n), NEW P, NEW b \in 0 .. n - 1, NEW e,
         Added(T, P, n, b, e), NEW k, InPlace(T, k, n),
         e.key = k => b = Bucket(k, n) /\ \A i \in 1 .. Len(T.buckets[b]) : T.buckets[b][i].key # k
  PROVE  InPlace(P, k, n)
<1>0. \A c \in 0 .. n - 1 : \A j \in 1 .. Len(P.buckets[c]) : From(T, P, b, e, c, j)
  BY AddedFrom
<1> SUFFICES ASSUME NEW c \in 0 .. n - 1, NEW i \in 1 .. Len(P.buckets[c]),
                    P.buckets[c][i].key = k
             PROVE  /\ c = Bucket(k, n)
                    /\ \A j \in 1 .. Len(P.buckets[c]) : P.buckets[c][j].key = k => j = i
  BY DEF InPlace
<1>1. \/ c = b /\ i = 1 /\ P.buckets[c][i] = e
      \/ c = b /\ i # 1 /\ i - 1 \in 1 .. Len(T.buckets[c]) /\ P.buckets[c][i] = T.buckets[c][i - 1]
      \/ c # b /\ i \in 1 .. Len(T.buckets[c]) /\ P.buckets[c][i] = T.buckets[c][i]
  BY <1>0 DEF From
<1>2. c = Bucket(k, n)
  BY <1>1 DEF InPlace
<1>3. ASSUME NEW j \in 1 .. Len(P.buckets[c]), P.buckets[c][j].key = k PROVE j = i
  <2>1. \/ c = b /\ j = 1 /\ P.buckets[c][j] = e
        \/ c = b /\ j # 1 /\ j - 1 \in 1 .. Len(T.buckets[c]) /\ P.buckets[c][j] = T.buckets[c][j - 1]
        \/ c # b /\ j \in 1 .. Len(T.buckets[c]) /\ P.buckets[c][j] = T.buckets[c][j]
    BY <1>0 DEF From
  <2>2. CASE e.key = k
    BY <1>1, <1>2, <1>3, <2>1, <2>2
  <2>3. CASE e.key # k /\ c = b
    <3>1. /\ i - 1 \in 1 .. Len(T.buckets[c]) /\ T.buckets[c][i - 1].key = k
          /\ j - 1 \in 1 .. Len(T.buckets[c]) /\ T.buckets[c][j - 1].key = k
      BY <1>1, <1>3, <2>1, <2>3
    <3>2. j - 1 = i - 1
      BY <3>1 DEF InPlace
    <3> QED
      BY <3>2
  <2>4. CASE c # b
    BY <1>1, <1>3, <2>1, <2>4 DEF InPlace
  <2> QED
    BY <2>2, <2>3, <2>4
<1> QED
  BY <1>2, <1>3

LEMMA AddedMisplaced ==
  ASSUME NEW n \in Nat, NEW T \in Tabs(n), NEW P, NEW b \in 0 .. n - 1, NEW e,
         Added(T, P, n, b, e), OneMisplaced(T, n),
         \/ Bucket(e.key, n) = b
         \/ \A c \in 0 .. n - 1 : \A i \in 1 .. Len(T.buckets[c]) : Bucket(T.buckets[c][i].key, n) = c
  PROVE  OneMisplaced(P, n)
<1>0. \A c \in 0 .. n - 1 : \A j \in 1 .. Len(P.buckets[c]) : From(T, P, b, e, c, j)
  BY AddedFrom
<1> SUFFICES ASSUME NEW c \in 0 .. n - 1, NEW i \in 1 .. Len(P.buckets[c]),
                    NEW d \in 0 .. n - 1, NEW j \in 1 .. Len(P.buckets[d]),
                    Bucket(P.buckets[c][i].key, n) # c, Bucket(P.buckets[d][j].key, n) # d
             PROVE  c = d /\ i = j
  BY DEF OneMisplaced
<1>1. \/ c = b /\ i = 1 /\ P.buckets[c][i] = e
      \/ c = b /\ i # 1 /\ i - 1 \in 1 .. Len(T.buckets[c]) /\ P.buckets[c][i] = T.buckets[c][i - 1]
      \/ c # b /\ i \in 1 .. Len(T.buckets[c]) /\ P.buckets[c][i] = T.buckets[c][i]
  BY <1>0 DEF From
<1>2. \/ d = b /\ j = 1 /\ P.buckets[d][j] = e
      \/ d = b /\ j # 1 /\ j - 1 \in 1 .. Len(T.buckets[d]) /\ P.buckets[d][j] = T.buckets[d][j - 1]
      \/ d # b /\ j \in 1 .. Len(T.buckets[d]) /\ P.buckets[d][j] = T.buckets[d][j]
  BY <1>0 DEF From
<1>3. CASE Bucket(e.key, n) # b
  BY <1>1, <1>2, <1>3
<1>4. CASE Bucket(e.key, n) = b
  <2>1. PICK x \in 1 .. Len(T.buckets[c]) :
          /\ Bucket(T.buckets[c][x].key, n) # c
          /\ x = IF c = b THEN i - 1 ELSE i
    BY <1>1, <1>4
  <2>2. PICK y \in 1 .. Len(T.buckets[d]) :
          /\ Bucket(T.buckets[d][y].key, n) # d
          /\ y = IF d = b THEN j - 1 ELSE j
    BY <1>2, <1>4
  <2>3. c = d /\ x = y
    <3>1. \A d1 \in 0 .. n - 1 : \A j1 \in 1 .. Len(T.buckets[d1]) :
            Bucket(T.buckets[d1][j1].key, n) # d1 => c = d1 /\ x = j1
      BY <2>1 DEF OneMisplaced
    <3> QED
      BY <2>2, <3>1
  <2> QED
    BY <2>1, <2>2, <2>3
<1> QED
  BY <1>3, <1>4

LEMMA AddedHolds ==
  ASSUME NEW n \in Nat, NEW T \in Tabs(n), NEW P, NEW b \in 0 .. n - 1, NEW e,
         Added(T, P, n, b, e)
  PROVE  /\ \A x : Holds(P, x, n) => Holds(T, x, n) \/ x = e
         /\ \A k : Present(T, k, n) \/ k = e.key => Present(P, k, n)
<1>0. \A c \in 0 .. n - 1 : \A j \in 1 .. Len(P.buckets[c]) : From(T, P, b, e, c, j)
  BY AddedFrom
<1>1. ASSUME NEW x, Holds(P, x, n) PROVE Holds(T, x, n) \/ x = e
  <2>1. PICK c \in 0 .. n - 1 : \E j \in 1 .. Len(P.buckets[c]) : P.buckets[c][j] = x
    BY <1>1 DEF Holds
  <2>2. PICK j \in 1 .. Len(P.buckets[c]) : P.buckets[c][j] = x
    BY <2>1
  <2>3. \/ c = b /\ j = 1 /\ P.buckets[c][j] = e
        \/ c = b /\ j # 1 /\ j - 1 \in 1 .. Len(T.buckets[c]) /\ P.buckets[c][j] = T.buckets[c][j - 1]
        \/ c # b /\ j \in 1 .. Len(T.buckets[c]) /\ P.buckets[c][j] = T.buckets[c][j]
    BY <1>0 DEF From
  <2> QED
    BY <2>2, <2>3 DEF Holds
<1>2. ASSUME NEW k, Present(T, k, n) PROVE Present(P, k, n)
  <2>1. PICK c \in 0 .. n - 1 : \E j \in 1 .. Len(T.buckets[c]) : T.buckets[c][j].key = k
    BY <1>2 DEF Present
  <2>2. PICK j \in 1 .. Len(T.buckets[c]) : T.buckets[c][j].key = k
    BY <2>1
  <2>3. CASE c # b
    BY <2>2, <2>3 DEF Present, Added
  <2>4. CASE c = b
    <3>1. j + 1 \in 1 .. Len(P.buckets[b]) /\ P.buckets[b][j + 1] = T.buckets[b][j]
      BY <2>4 DEF Added
    <3> QED
      BY <2>2, <2>4, <3>1 DEF Present
  <2> QED
    BY <2>3, <2>4
<1>3. Present(P, e.key, n)
  <2>1. Len(T.buckets[b]) \in Nat
    <3>1. T.buckets[b] \in Seq(Entry)
      BY DEF Tabs
    <3> QED
      BY <3>1
  <2>2. 1 \in 1 .. Len(P.buckets[b]) /\ P.buckets[b][1] = e
    BY <2>1 DEF Added
  <2> QED
    BY <2>2 DEF Present
<1> QED
  BY <1>1, <1>2, <1>3

-----------------------------------------------------------------------------
(* sethash that does not resize                                              *)

\* Put updates an entry in the bucket of the key or adds one there.
LEMMA PutCases ==
  ASSUME NEW n \in Nat, n > 0, NEW T \in Tabs(n), NEW e \in Entry
  PROVE  \E b \in 0 .. n - 1 :
           /\ b = Bucket(e.key, n)
           /\ Put(T, e) \in Tabs(n)
           /\ \/ \E i \in 1 .. Len(T.buckets[b]) :
                   T.buckets[b][i].key = e.key /\ Updated(T, Put(T, e), n, b, i, e.val)
              \/ /\ \A i \in 1 .. Len(T.buckets[b]) : T.buckets[b][i].key # e.key
                 /\ Added(T, Put(T, e), n, b, e)
<1>1. e.key \in Keys /\ e.val \in Values /\ e = [key |-> e.key, val |-> e.val]
  BY DEF Entry
<1>2. PICK b \in 0 .. n - 1 : b = Bucket(e.key, n)
  BY <1>1, BucketIs
<1>3. Size(T) = n /\ T.buckets[b] \in Seq(Entry)
  BY SizeIs DEF Tabs
<1>4. PICK i : i = assoc(e.key, T.buckets[b])
  OBVIOUS
<1>5. /\ i \in 0 .. Len(T.buckets[b])
      /\ i = 0 => \A j \in 1 .. Len(T.buckets[b]) : T.buckets[b][j].key # e.key
      /\ i # 0 => T.buckets[b][i].key = e.key
  BY <1>3, <1>4, AssocIs
<1>6. Put(T, e) = IF i # 0 THEN Update(T, b, i, e.val) ELSE Push(T, b, e.key, e.val)
  BY <1>2, <1>3, <1>4 DEF Put
<1>7. CASE i # 0
  <2>1. i \in 1 .. Len(T.buckets[b])
    BY <1>3, <1>5, <1>7
  <2>2. Put(T, e) = Update(T, b, i, e.val)
    BY <1>6, <1>7
  <2>3. Put(T, e) \in Tabs(n) /\ Updated(T, Put(T, e), n, b, i, e.val)
    BY <1>1, <2>1, <2>2, UpdateIs
  <2> QED
    BY <1>2, <1>5, <1>7, <2>1, <2>3
<1>8. CASE i = 0
  <2>1. Put(T, e) = Push(T, b, e.key, e.val)
    BY <1>6, <1>8
  <2>2. Put(T, e) \in Tabs(n) /\ Added(T, Put(T, e), n, b, e)
    <3>1. /\ Push(T, b, e.key, e.val) \in Tabs(n)
          /\ Added(T, Push(T, b, e.key, e.val), n, b, [key |-> e.key, val |-> e.val])
      BY <1>1, PushIs
    <3> QED
      BY <1>1, <2>1, <3>1
  <2> QED
    BY <1>2, <1>5, <1>8, <2>2
<1> QED
  BY <1>7, <1>8

\* It keeps every other entry where it is looked for, and puts its own there.
LEMMA PutKeeps ==
  ASSUME NEW n \in Nat, n > 0, NEW T \in Tabs(n), NEW e \in Entry
  PROVE  /\ Put(T, e) \in Tabs(n)
         /\ T.fill <= Put(T, e).fill /\ Put(T, e).fill <= T.fill + 1
         /\ Counted(T) => Counted(Put(T, e))
         /\ OneMisplaced(T, n) => OneMisplaced(Put(T, e), n)
         /\ \A k : InPlace(T, k, n) => InPlace(Put(T, e), k, n)
         /\ \A x : Holds(Put(T, e), x, n) => Holds(T, x, n) \/ x = e
         /\ \A k : Present(T, k, n) \/ k = e.key => Present(Put(T, e), k, n)
<1>1. PICK b \in 0 .. n - 1 :
        /\ b = Bucket(e.key, n)
        /\ Put(T, e) \in Tabs(n)
        /\ \/ \E i \in 1 .. Len(T.buckets[b]) :
                T.buckets[b][i].key = e.key /\ Updated(T, Put(T, e), n, b, i, e.val)
           \/ /\ \A i \in 1 .. Len(T.buckets[b]) : T.buckets[b][i].key # e.key
              /\ Added(T, Put(T, e), n, b, e)
  BY PutCases
<1>2. PICK P \in Tabs(n) : P = Put(T, e)
  BY <1>1
<1>3. e = [key |-> e.key, val |-> e.val] /\ T.fill \in Nat
  BY DEF Entry, Tabs
<1>4. CASE \E i \in 1 .. Len(T.buckets[b]) :
             T.buckets[b][i].key = e.key /\ Updated(T, P, n, b, i, e.val)
  <2>1. PICK i \in 1 .. Len(T.buckets[b]) :
          T.buckets[b][i].key = e.key /\ Updated(T, P, n, b, i, e.val)
    BY <1>4
  <2>2. Counted(T) => Counted(P)
    BY <2>1, UpdateCounted
  <2>3. OneMisplaced(T, n) => OneMisplaced(P, n)
    BY <2>1, UpdatedMisplaced
  <2>4. \A k : InPlace(T, k, n) => InPlace(P, k, n)
    BY <2>1, UpdatedInPlace
  <2>5. /\ \A x : Holds(P, x, n) => Holds(T, x, n) \/ x = [key |-> T.buckets[b][i].key, val |-> e.val]
        /\ \A k : Present(T, k, n) => Present(P, k, n)
    BY <2>1, UpdatedHolds
  <2>6. Present(T, e.key, n)
    BY <2>1 DEF Present
  <2>7. P.fill = T.fill
    BY <2>1 DEF Updated
  <2> QED
    BY <1>2, <1>3, <2>1, <2>2, <2>3, <2>4, <2>5, <2>6, <2>7
<1>5. CASE /\ \A i \in 1 .. Len(T.buckets[b]) : T.buckets[b][i].key # e.key
           /\ Added(T, P, n, b, e)
  <2>1. Counted(T) => Counted(P)
    BY <1>5, PushCounted
  <2>2. OneMisplaced(T, n) => OneMisplaced(P, n)
    BY <1>1, <1>5, AddedMisplaced
  <2>3. \A k : InPlace(T, k, n) => InPlace(P, k, n)
    BY <1>1, <1>5, AddedInPlace
  <2>4. /\ \A x : Holds(P, x, n) => Holds(T, x, n) \/ x = e
        /\ \A k : Present(T, k, n) \/ k = e.key => Present(P, k, n)
    BY <1>5, AddedHolds
  <2>5. P.fill = T.fill + 1
    BY <1>5 DEF Added
  <2> QED
    BY <1>2, <1>3, <2>1, <2>2, <2>3, <2>4, <2>5
<1> QED
  BY <1>1, <1>2, <1>4, <1>5

\* When its key was in place, its value is the only one for its key.
LEMMA PutOnly ==
  ASSUME NEW n \in Nat, n > 0, NEW T \in Tabs(n), NEW e \in Entry, InPlace(T, e.key, n),
         NEW x, Holds(Put(T, e), x, n), x.key = e.key
  PROVE  x = e
<1>1. PICK b \in 0 .. n - 1 :
        /\ b = Bucket(e.key, n)
        /\ Put(T, e) \in Tabs(n)
        /\ \/ \E i \in 1 .. Len(T.buckets[b]) :
                T.buckets[b][i].key = e.key /\ Updated(T, Put(T, e), n, b, i, e.val)
           \/ /\ \A i \in 1 .. Len(T.buckets[b]) : T.buckets[b][i].key # e.key
              /\ Added(T, Put(T, e), n, b, e)
  BY PutCases
<1>2. PICK P \in Tabs(n) : P = Put(T, e)
  BY <1>1
<1>3. e = [key |-> e.key, val |-> e.val]
  BY DEF Entry
<1>4. CASE \E i \in 1 .. Len(T.buckets[b]) :
             T.buckets[b][i].key = e.key /\ Updated(T, P, n, b, i, e.val)
  <2>1. PICK i \in 1 .. Len(T.buckets[b]) :
          T.buckets[b][i].key = e.key /\ Updated(T, P, n, b, i, e.val)
    BY <1>4
  <2>2. InPlace(P, e.key, n)
    BY <2>1, UpdatedInPlace
  <2>3. i \in 1 .. Len(P.buckets[b]) /\ P.buckets[b][i] = e
    BY <1>3, <2>1 DEF Updated
  <2>4. PICK c \in 0 .. n - 1 : \E j \in 1 .. Len(P.buckets[c]) : P.buckets[c][j] = x
    BY <1>2 DEF Holds
  <2>5. PICK j \in 1 .. Len(P.buckets[c]) : P.buckets[c][j] = x
    BY <2>4
  <2>6. c = b
    BY <1>1, <2>2, <2>5 DEF InPlace
  <2>7. i = j
    BY <2>2, <2>3, <2>5, <2>6 DEF InPlace
  <2> QED
    BY <2>3, <2>5, <2>6, <2>7
<1>5. CASE /\ \A i \in 1 .. Len(T.buckets[b]) : T.buckets[b][i].key # e.key
           /\ Added(T, P, n, b, e)
  <2>1. Holds(T, x, n) \/ x = e
    BY <1>2, <1>5, AddedHolds
  <2>2. ASSUME Holds(T, x, n) PROVE FALSE
    <3>1. PICK c \in 0 .. n - 1 : \E j \in 1 .. Len(T.buckets[c]) : T.buckets[c][j] = x
      BY <2>2 DEF Holds
    <3>2. c = b
      BY <1>1, <3>1 DEF InPlace
    <3> QED
      BY <1>5, <3>1, <3>2
  <2> QED
    BY <2>1, <2>2
<1> QED
  BY <1>1, <1>2, <1>4, <1>5

-----------------------------------------------------------------------------
(* ht_resize                                                                 *)

\* PutAll puts one entry after the other.
LEMMA PutAllRecursion ==
  ASSUME NEW n \in Nat, n > 0, NEW T \in Tabs(n), NEW list \in Seq(Entry)
  PROVE  \E put : /\ put[0] = T
                  /\ \A i \in 1 .. Len(list) : put[i] = Put(put[i - 1], list[i])
                  /\ PutAll(T, list) = put[Len(list)]
<1> DEFINE g == [p \in (1 .. Len(list)) \X Tabs(n) |-> Put(p[2], list[p[1]])]
           Body(f) == [i \in 0 .. Len(list) |-> IF i = 0 THEN T ELSE Put(f[i - 1], list[i])]
<1>1. Len(list) \in Nat /\ \A i \in 1 .. Len(list) : list[i] \in Entry
  OBVIOUS
<1>2. \A i \in 1 .. Len(list) : \A R \in Tabs(n) : g[<<i, R>>] = Put(R, list[i])
  OBVIOUS
<1>3. Maps(g, Tabs(n), Len(list))
  <2>1. \A i \in 1 .. Len(list) : \A R \in Tabs(n) : Put(R, list[i]) \in Tabs(n)
    BY <1>1, PutKeeps
  <2> HIDE DEF g
  <2> QED
    BY <1>2, <2>1 DEF Maps
<1> HIDE DEF g
<1>4. PICK h \in [0 .. Len(list) -> Tabs(n)] :
        h[0] = T /\ \A i \in 1 .. Len(list) : h[i] = g[<<i, h[i - 1]>>]
  BY <1>1, <1>3, Recursion
<1>5. \A i \in 1 .. Len(list) : h[i] = Put(h[i - 1], list[i])
  <2> TAKE i \in 1 .. Len(list)
  <2>1. i - 1 \in 0 .. Len(list)
    BY <1>1
  <2>2. h[i - 1] \in Tabs(n)
    BY <2>1
  <2> QED
    BY <1>2, <1>4, <2>2
<1>6. h = Body(h)
  <2>1. \A i \in 0 .. Len(list) : h[i] = IF i = 0 THEN T ELSE Put(h[i - 1], list[i])
    BY <1>1, <1>4, <1>5
  <2>2. h = [i \in 0 .. Len(list) |-> h[i]]
    OBVIOUS
  <2> QED
    BY <2>1, <2>2
<1>7. PICK f : f = CHOOSE x : x = Body(x)
  OBVIOUS
<1> HIDE DEF Body
<1>8. f = Body(f)
  BY <1>6, <1>7
<1>9. PutAll(T, list) = f[Len(list)]
  BY <1>7 DEF PutAll, Body
<1>10. f[0] = T /\ \A i \in 1 .. Len(list) : f[i] = Put(f[i - 1], list[i])
  <2>1. \A i \in 0 .. Len(list) : Body(f)[i] = IF i = 0 THEN T ELSE Put(f[i - 1], list[i])
    BY DEF Body
  <2>2. 0 \in 0 .. Len(list) /\ \A i \in 1 .. Len(list) : i \in 0 .. Len(list) /\ i # 0
    BY <1>1
  <2> QED
    BY <1>8, <2>1, <2>2
<1> QED
  BY <1>9, <1>10

\* R is T with the first i entries of the list put into it.
PutSome(T, R, list, i, n) ==
  /\ R \in Tabs(n) /\ Counted(R) /\ R.fill <= T.fill + i
  /\ \A k \in Keys : InPlace(R, k, n)
  /\ \A x : Holds(R, x, n) => Holds(T, x, n) \/ \E j \in 1 .. i : list[j] = x
  /\ \A k : Present(T, k, n) \/ (\E j \in 1 .. i : list[j].key = k) => Present(R, k, n)

LEMMA PutOneMore ==
  ASSUME NEW n \in Nat, n > 0, NEW T \in Tabs(n), NEW list \in Seq(Entry), NEW R,
         NEW i \in 1 .. Len(list), PutSome(T, R, list, i - 1, n)
  PROVE  PutSome(T, Put(R, list[i]), list, i, n)
<1>1. R \in Tabs(n) /\ list[i] \in Entry /\ i \in Nat /\ i - 1 \in Nat
  BY DEF PutSome
<1>2. PICK e \in Entry : e = list[i]
  BY <1>1
<1>3. /\ Put(R, e) \in Tabs(n)
      /\ R.fill <= Put(R, e).fill /\ Put(R, e).fill <= R.fill + 1
      /\ Counted(R) => Counted(Put(R, e))
      /\ \A k : InPlace(R, k, n) => InPlace(Put(R, e), k, n)
      /\ \A x : Holds(Put(R, e), x, n) => Holds(R, x, n) \/ x = e
      /\ \A k : Present(R, k, n) \/ k = e.key => Present(Put(R, e), k, n)
  BY <1>1, PutKeeps
<1>4. PICK P \in Tabs(n) : P = Put(R, e)
  BY <1>3
<1>5. T.fill \in Nat /\ R.fill \in Nat /\ P.fill \in Nat
  BY <1>1 DEF Tabs
<1>6. P.fill <= T.fill + i
  <2>1. R.fill <= T.fill + (i - 1) /\ P.fill <= R.fill + 1
    BY <1>3, <1>4 DEF PutSome
  <2> QED
    BY <1>1, <1>5, <2>1
<1>7. \A j : j \in 1 .. i <=> j \in 1 .. i - 1 \/ j = i
  BY <1>1
<1>8. Counted(P) /\ \A k \in Keys : InPlace(P, k, n)
  BY <1>3, <1>4 DEF PutSome
<1>9. ASSUME NEW x, Holds(P, x, n)
      PROVE  Holds(T, x, n) \/ \E j \in 1 .. i : list[j] = x
  <2>1. Holds(R, x, n) \/ x = e
    BY <1>3, <1>4, <1>9
  <2> QED
    BY <1>2, <1>7, <2>1 DEF PutSome
<1>10. ASSUME NEW k, Present(T, k, n) \/ \E j \in 1 .. i : list[j].key = k
       PROVE  Present(P, k, n)
  <2>1. Present(R, k, n) \/ k = e.key
    BY <1>2, <1>7, <1>10 DEF PutSome
  <2> QED
    BY <1>3, <1>4, <2>1
<1>11. PutSome(T, P, list, i, n)
  BY <1>6, <1>8, <1>9, <1>10 DEF PutSome
<1> QED
  BY <1>2, <1>4, <1>11

LEMMA PutAllIs ==
  ASSUME NEW n \in Nat, n > 0, NEW T \in Tabs(n), NEW list \in Seq(Entry), Counted(T),
         \A k \in Keys : InPlace(T, k, n)
  PROVE  PutSome(T, PutAll(T, list), list, Len(list), n)
<1>1. PICK put : /\ put[0] = T
                 /\ \A i \in 1 .. Len(list) : put[i] = Put(put[i - 1], list[i])
                 /\ PutAll(T, list) = put[Len(list)]
  BY PutAllRecursion
<1> DEFINE Q == {i \in Nat : i <= Len(list) => PutSome(T, put[i], list, i, n)}
<1>2. Len(list) \in Nat
  OBVIOUS
<1>3. 0 \in Q
  <2>1. T.fill <= T.fill + 0
    BY DEF Tabs
  <2>2. PutSome(T, T, list, 0, n)
    BY <2>1 DEF PutSome
  <2> QED
    BY <1>1, <2>2
<1>4. ASSUME NEW i \in Nat, i \in Q PROVE i + 1 \in Q
  <2> SUFFICES ASSUME i + 1 <= Len(list) PROVE PutSome(T, put[i + 1], list, i + 1, n)
    OBVIOUS
  <2>1. i + 1 \in 1 .. Len(list) /\ (i + 1) - 1 = i /\ i <= Len(list)
    BY <1>2
  <2>2. PutSome(T, put[i], list, (i + 1) - 1, n)
    BY <1>4, <2>1
  <2>3. PutSome(T, Put(put[i], list[i + 1]), list, i + 1, n)
    BY <2>1, <2>2, PutOneMore
  <2>4. put[i + 1] = Put(put[i], list[i + 1])
    BY <1>1, <2>1
  <2> QED
    BY <2>3, <2>4
<1> HIDE DEF Q
<1>5. Len(list) \in Q
  BY <1>2, <1>3, <1>4, Induct
<1> QED
  BY <1>1, <1>2, <1>5 DEF Q

\* The positions in the first b buckets.
Before(T, b) == UNION {{c} \X DOMAIN T.buckets[c] : c \in 0 .. b - 1}

LEMMA BeforeNone ==
  ASSUME NEW T
  PROVE  IsFiniteSet(Before(T, 0)) /\ Cardinality(Before(T, 0)) = 0
<1>1. 0 .. 0 - 1 = {}
  OBVIOUS
<1>2. Before(T, 0) = {}
  BY <1>1 DEF Before
<1> QED
  BY <1>2, FS_EmptySet

LEMMA BeforeMore ==
  ASSUME NEW n \in Nat, NEW T \in Tabs(n), NEW b \in 0 .. n - 1, IsFiniteSet(Before(T, b))
  PROVE  /\ IsFiniteSet(Before(T, b + 1))
         /\ Cardinality(Before(T, b + 1)) = Cardinality(Before(T, b)) + Len(T.buckets[b])
<1>1. PICK L \in Nat : L = Len(T.buckets[b])
  <2>1. T.buckets[b] \in Seq(Entry)
    BY DEF Tabs
  <2> QED
    BY <2>1
<1>2. DOMAIN T.buckets[b] = 1 .. L
  <2>1. T.buckets[b] \in Seq(Entry)
    BY DEF Tabs
  <2> QED
    BY <1>1, <2>1
<1>3. PICK row : row = {b} \X (1 .. L)
  OBVIOUS
<1>4. IsFiniteSet(1 .. L) /\ Cardinality(1 .. L) = L
  <2>1. 1 \in Int /\ L \in Int
    OBVIOUS
  <2>2. IsFiniteSet(1 .. L) /\ Cardinality(1 .. L) = IF 1 > L THEN 0 ELSE L - 1 + 1
    BY <2>1, FS_Interval
  <2> QED
    BY <2>2
<1>5. ExistsBijection(1 .. L, row)
  <2> DEFINE f == [i \in 1 .. L |-> <<b, i>>]
  <2>1. f \in [1 .. L -> row]
    BY <1>3
  <2>2. \A i, j \in 1 .. L : f[i] = f[j] => i = j
    OBVIOUS
  <2>3. \A p \in row : \E i \in 1 .. L : f[i] = p
    BY <1>3
  <2> HIDE DEF f
  <2>4. IsInjective(f)
    BY <2>1, <2>2 DEF IsInjective
  <2>5. f \in Injection(1 .. L, row)
    BY <2>1, <2>4 DEF Injection
  <2>6. f \in Surjection(1 .. L, row)
    BY <2>1, <2>3 DEF Surjection
  <2>7. f \in Bijection(1 .. L, row)
    BY <2>5, <2>6 DEF Bijection
  <2> QED
    BY <2>7 DEF ExistsBijection
<1>6. IsFiniteSet(row) /\ Cardinality(row) = L
  BY <1>4, <1>5, FS_Bijection
<1>7. 0 .. (b + 1) - 1 = (0 .. b - 1) \cup {b} /\ b \notin 0 .. b - 1
  OBVIOUS
<1>8. Before(T, b + 1) = Before(T, b) \cup row
  BY <1>2, <1>3, <1>7 DEF Before
<1>9. Before(T, b) \cap row = {}
  <2> SUFFICES ASSUME NEW p \in Before(T, b), p \in row PROVE FALSE
    OBVIOUS
  <2>1. p[1] \in 0 .. b - 1
    BY DEF Before
  <2>2. p[1] = b
    BY <1>3
  <2> QED
    BY <1>7, <2>1, <2>2
<1>10. /\ IsFiniteSet(Before(T, b) \cup row)
       /\ Cardinality(Before(T, b) \cup row) =
            Cardinality(Before(T, b)) + Cardinality(row) - Cardinality(Before(T, b) \cap row)
  BY <1>6, FS_Union
<1>11. Cardinality(Before(T, b) \cap row) = 0 /\ Cardinality(Before(T, b)) \in Nat
  BY <1>9, FS_EmptySet, FS_CardinalityType
<1>12. Cardinality(Before(T, b + 1)) = Cardinality(Before(T, b)) + L - 0
  BY <1>6, <1>8, <1>10, <1>11
<1>13. Cardinality(Before(T, b)) + L - 0 = Cardinality(Before(T, b)) + L
  BY <1>11
<1> QED
  BY <1>1, <1>8, <1>10, <1>12, <1>13

\* R holds what the first b buckets of T do, and has room for it.
Moved(T, R, b, m) ==
  /\ IsFiniteSet(Before(T, b))
  /\ R \in Tabs(m) /\ Counted(R) /\ R.fill <= Cardinality(Before(T, b))
  /\ \A k \in Keys : InPlace(R, k, m)
  /\ \A x : Holds(R, x, m) => Holds(T, x, b)
  /\ \A k : Present(T, k, b) => Present(R, k, m)

\* A new table is empty.
LEMMA NewTable ==
  ASSUME NEW m \in Nat
  PROVE  /\ gc_new_ht(m) \in Tabs(m) /\ gc_new_ht(m).fill = 0 /\ Counted(gc_new_ht(m))
         /\ \A k : InPlace(gc_new_ht(m), k, m)
         /\ \A x : ~Holds(gc_new_ht(m), x, m)
         /\ OneMisplaced(gc_new_ht(m), m)
<1>1. gc_new_ht(m) \in Tabs(m)
  <2>1. <<>> \in Seq(Entry)
    OBVIOUS
  <2> QED
    BY <2>1 DEF gc_new_ht, Tabs
<1>2. gc_new_ht(m).fill = 0 /\ DOMAIN gc_new_ht(m).buckets = 0 .. m - 1
      /\ \A b \in 0 .. m - 1 : gc_new_ht(m).buckets[b] = <<>>
  BY DEF gc_new_ht
<1>3. \A b \in 0 .. m - 1 : /\ DOMAIN gc_new_ht(m).buckets[b] = {}
                            /\ 1 .. Len(gc_new_ht(m).buckets[b]) = {}
  BY <1>2
<1>4. Positions(gc_new_ht(m)) = {}
  BY <1>2, <1>3 DEF Positions
<1>5. Counted(gc_new_ht(m))
  BY <1>2, <1>4, FS_EmptySet DEF Counted
<1> QED
  BY <1>1, <1>2, <1>3, <1>5 DEF InPlace, Holds, OneMisplaced

LEMMA MoveBucket ==
  ASSUME NEW n \in Nat, NEW T \in Tabs(n), NEW b \in 0 .. n - 1, NEW m \in Nat, m > 0,
         NEW R, Moved(T, R, b, m)
  PROVE  Moved(T, PutAll(R, T.buckets[b]), b + 1, m)
<1>1. PICK list \in Seq(Entry) : list = T.buckets[b]
  BY DEF Tabs
<1>2. R \in Tabs(m) /\ Counted(R) /\ \A k \in Keys : InPlace(R, k, m)
  BY DEF Moved
<1>3. PutSome(R, PutAll(R, list), list, Len(list), m)
  BY <1>2, PutAllIs
<1>4. PICK P : P = PutAll(R, list)
  OBVIOUS
<1>5. /\ P \in Tabs(m) /\ Counted(P) /\ P.fill <= R.fill + Len(list)
      /\ \A k \in Keys : InPlace(P, k, m)
      /\ \A x : Holds(P, x, m) => Holds(R, x, m) \/ \E j \in 1 .. Len(list) : list[j] = x
      /\ \A k : Present(R, k, m) \/ (\E j \in 1 .. Len(list) : list[j].key = k) => Present(P, k, m)
  BY <1>3, <1>4 DEF PutSome
<1>6. /\ IsFiniteSet(Before(T, b + 1))
      /\ Cardinality(Before(T, b + 1)) = Cardinality(Before(T, b)) + Len(list)
  BY <1>1, BeforeMore DEF Moved
<1>7. P.fill <= Cardinality(Before(T, b + 1))
  <2>1. /\ R.fill \in Nat /\ P.fill \in Nat /\ Len(list) \in Nat
        /\ Cardinality(Before(T, b)) \in Nat /\ R.fill <= Cardinality(Before(T, b))
    BY <1>2, <1>5, FS_CardinalityType DEF Moved, Tabs
  <2> QED
    BY <1>5, <1>6, <2>1
<1>8. \A c : c \in 0 .. (b + 1) - 1 <=> c \in 0 .. b - 1 \/ c = b
  OBVIOUS
<1>9. ASSUME NEW x, Holds(P, x, m) PROVE Holds(T, x, b + 1)
  <2>1. Holds(T, x, b) \/ \E j \in 1 .. Len(T.buckets[b]) : T.buckets[b][j] = x
    BY <1>1, <1>5, <1>9 DEF Moved
  <2> QED
    BY <1>8, <2>1 DEF Holds
<1>10. ASSUME NEW k, Present(T, k, b + 1) PROVE Present(P, k, m)
  <2>1. Present(T, k, b) \/ \E j \in 1 .. Len(T.buckets[b]) : T.buckets[b][j].key = k
    BY <1>8, <1>10 DEF Present
  <2> QED
    BY <1>1, <1>5, <2>1 DEF Moved
<1>11. Moved(T, P, b + 1, m)
  BY <1>5, <1>6, <1>7, <1>9, <1>10 DEF Moved
<1> QED
  BY <1>1, <1>4, <1>11

\* A table grows by half, rounded down.
LEMMA NewSizeIs ==
  ASSUME NEW n \in Nat, n >= 2
  PROVE  NewSize(n) \in Nat /\ NewSize(n) > n /\ 3 * n <= 2 * NewSize(n) + 1
<1>1. \A x \in Nat : x \div 2 \in Nat /\ x <= 2 * (x \div 2) + 1
  OBVIOUS
<1>2. 3 * n \in Nat
  OBVIOUS
<1>3. NewSize(n) \in Nat /\ 3 * n <= 2 * NewSize(n) + 1
  BY <1>1, <1>2 DEF NewSize
<1>4. PICK m \in Nat : m = NewSize(n) /\ 3 * n <= 2 * m + 1
  BY <1>3
<1>5. m > n
  BY <1>4
<1> QED
  BY <1>4, <1>5

\* ht_resize moves one bucket after the other.
LEMMA ResizeRecursion ==
  ASSUME NEW n \in Nat, n >= 2, NEW T \in Tabs(n)
  PROVE  \E new : /\ new[0] = gc_new_ht(NewSize(n))
                  /\ \A b \in 1 .. n : new[b] = PutAll(new[b - 1], T.buckets[b - 1])
                  /\ ht_resize(T) = new[n]
<1>1. PICK m \in Nat : m = NewSize(n) /\ m > 0
  BY NewSizeIs
<1> DEFINE S == {R \in Tabs(m) : Counted(R) /\ \A k \in Keys : InPlace(R, k, m)}
           g == [p \in (1 .. n) \X S |-> PutAll(p[2], T.buckets[p[1] - 1])]
           Body(f) == [b \in 0 .. n |-> IF b = 0 THEN gc_new_ht(m)
                                        ELSE PutAll(f[b - 1], T.buckets[b - 1])]
<1>2. \A b \in 1 .. n : T.buckets[b - 1] \in Seq(Entry)
  <2> TAKE b \in 1 .. n
  <2>1. b - 1 \in 0 .. n - 1
    OBVIOUS
  <2> QED
    BY <2>1 DEF Tabs
<1>3. \A b \in 1 .. n : \A R \in S : PutAll(R, T.buckets[b - 1]) \in S
  <2> TAKE b \in 1 .. n
  <2> TAKE R \in S
  <2>1. PICK list \in Seq(Entry) : list = T.buckets[b - 1]
    BY <1>2
  <2>2. PutSome(R, PutAll(R, list), list, Len(list), m)
    BY <1>1, PutAllIs
  <2> QED
    BY <2>1, <2>2 DEF PutSome
<1>4. gc_new_ht(m) \in S
  BY NewTable
<1>5. \A b \in 1 .. n : \A R \in S : g[<<b, R>>] = PutAll(R, T.buckets[b - 1])
  OBVIOUS
<1> HIDE DEF S, g
<1>6. Maps(g, S, n)
  BY <1>3, <1>5 DEF Maps
<1>7. PICK h \in [0 .. n -> S] : h[0] = gc_new_ht(m) /\ \A b \in 1 .. n : h[b] = g[<<b, h[b - 1]>>]
  BY <1>4, <1>6, Recursion
<1>8. \A b \in 1 .. n : h[b] = PutAll(h[b - 1], T.buckets[b - 1])
  <2> TAKE b \in 1 .. n
  <2>1. b - 1 \in 0 .. n
    OBVIOUS
  <2>2. h[b - 1] \in S
    BY <2>1
  <2> QED
    BY <1>5, <1>7, <2>2
<1>9. h = Body(h)
  <2>1. \A b \in 0 .. n : h[b] = IF b = 0 THEN gc_new_ht(m) ELSE PutAll(h[b - 1], T.buckets[b - 1])
    BY <1>7, <1>8
  <2>2. h = [b \in 0 .. n |-> h[b]]
    OBVIOUS
  <2> QED
    BY <2>1, <2>2
<1>10. PICK f : f = CHOOSE x : x = Body(x)
  OBVIOUS
<1> HIDE DEF Body
<1>11. f = Body(f)
  BY <1>9, <1>10
<1>12. ht_resize(T) = f[n]
  <2>1. Size(T) = n
    BY SizeIs
  <2> QED
    BY <1>1, <1>10, <2>1 DEF ht_resize, Body
<1>13. f[0] = gc_new_ht(m) /\ \A b \in 1 .. n : f[b] = PutAll(f[b - 1], T.buckets[b - 1])
  <2>1. \A b \in 0 .. n : Body(f)[b] = IF b = 0 THEN gc_new_ht(m)
                                       ELSE PutAll(f[b - 1], T.buckets[b - 1])
    BY DEF Body
  <2>2. 0 \in 0 .. n /\ \A b \in 1 .. n : b \in 0 .. n /\ b # 0
    OBVIOUS
  <2> QED
    BY <1>11, <2>1, <2>2
<1> QED
  BY <1>1, <1>12, <1>13

\* The new table holds what the old one did, every entry where it is looked for.
LEMMA ResizeIs ==
  ASSUME NEW n \in Nat, n >= 2, NEW T \in Tabs(n)
  PROVE  Moved(T, ht_resize(T), n, NewSize(n))
<1>1. PICK new : /\ new[0] = gc_new_ht(NewSize(n))
                 /\ \A b \in 1 .. n : new[b] = PutAll(new[b - 1], T.buckets[b - 1])
                 /\ ht_resize(T) = new[n]
  BY ResizeRecursion
<1>2. PICK m \in Nat : m = NewSize(n) /\ m > 0
  BY NewSizeIs
<1> DEFINE Q == {b \in Nat : b <= n => Moved(T, new[b], b, m)}
<1>3. 0 \in Q
  <2>1. Moved(T, gc_new_ht(m), 0, m)
    <3>1. 0 <= Cardinality(Before(T, 0)) /\ 0 .. 0 - 1 = {}
      BY BeforeNone
    <3>2. \A k : ~Present(T, k, 0)
      BY <3>1 DEF Present
    <3> QED
      BY <3>1, <3>2, BeforeNone, NewTable DEF Moved
  <2> QED
    BY <1>1, <1>2, <2>1
<1>4. ASSUME NEW b \in Nat, b \in Q PROVE b + 1 \in Q
  <2> SUFFICES ASSUME b + 1 <= n PROVE Moved(T, new[b + 1], b + 1, m)
    OBVIOUS
  <2>1. b \in 0 .. n - 1 /\ b + 1 \in 1 .. n /\ (b + 1) - 1 = b /\ b <= n
    OBVIOUS
  <2>2. Moved(T, new[b], b, m)
    BY <1>4, <2>1
  <2>3. Moved(T, PutAll(new[b], T.buckets[b]), b + 1, m)
    BY <1>2, <2>1, <2>2, MoveBucket
  <2>4. new[b + 1] = PutAll(new[b], T.buckets[b])
    BY <1>1, <2>1
  <2> QED
    BY <2>3, <2>4
<1> HIDE DEF Q
<1>5. n \in Q
  BY <1>3, <1>4, Induct
<1> QED
  BY <1>1, <1>2, <1>5 DEF Q

\* Before of all buckets is all positions: the new table is no fuller than the old.
LEMMA ResizeFill ==
  ASSUME NEW n \in Nat, n >= 2, NEW T \in Tabs(n), Counted(T)
  PROVE  ht_resize(T).fill \in Nat /\ ht_resize(T).fill <= T.fill
<1>1. Moved(T, ht_resize(T), n, NewSize(n))
  BY ResizeIs
<1>2. DOMAIN T.buckets = 0 .. n - 1
  BY SizeIs
<1>3. Before(T, n) = Positions(T)
  BY <1>2 DEF Before, Positions
<1> QED
  BY <1>1, <1>3 DEF Moved, Counted, Tabs

-----------------------------------------------------------------------------
(* sethash and remhash                                                       *)

\* What holds of every table a program can hold: it is at most one entry over its
\* threshold, and at most one entry is misplaced.
Table(T, n) ==
  T \in Tabs(n) /\ Counted(T) /\ 4 * (T.fill - 1) <= 3 * n /\ OneMisplaced(T, n)

\* All of T's entries for k are one, where gethash looks, and its value is v.
Global(T, k, v, n) ==
  /\ InPlace(T, k, n)
  /\ \A x : Holds(T, x, n) /\ x.key = k => x.val = v
  /\ v # Absent => Present(T, k, n)

\* gethash reads that value.
LEMMA GethashIs ==
  ASSUME NEW n \in Nat, n >= 2, NEW T \in Tabs(n), NEW k \in Keys, NEW v, Global(T, k, v, n)
  PROVE  gethash(T, k) = v
<1>1. PICK b \in 0 .. n - 1 : b = Bucket(k, n)
  BY BucketIs
<1>2. Size(T) = n /\ T.buckets[b] \in Seq(Entry)
  BY SizeIs DEF Tabs
<1>3. PICK i : i = assoc(k, T.buckets[b])
  OBVIOUS
<1>4. /\ i \in 0 .. Len(T.buckets[b])
      /\ i = 0 => \A j \in 1 .. Len(T.buckets[b]) : T.buckets[b][j].key # k
      /\ i # 0 => T.buckets[b][i].key = k
  BY <1>2, <1>3, AssocIs
<1>5. gethash(T, k) = IF i = 0 THEN Absent ELSE T.buckets[b][i].val
  BY <1>1, <1>2, <1>3 DEF gethash
<1>6. CASE i = 0
  <2>1. ~Present(T, k, n)
    BY <1>1, <1>4, <1>6 DEF Present, Global, InPlace
  <2> QED
    BY <1>5, <1>6, <2>1 DEF Global
<1>7. CASE i # 0
  <2>1. i \in 1 .. Len(T.buckets[b])
    BY <1>2, <1>4, <1>7
  <2>2. PICK x : x = T.buckets[b][i]
    OBVIOUS
  <2>3. Holds(T, x, n) /\ x.key = k
    BY <1>4, <1>7, <2>1, <2>2 DEF Holds
  <2> QED
    BY <1>5, <1>7, <2>2, <2>3 DEF Global
<1> QED
  BY <1>6, <1>7

\* When sethash finds the key the table gets no fuller.
LEMMA PutFill ==
  ASSUME NEW n \in Nat, n > 0, NEW T \in Tabs(n), NEW e \in Entry, Finds(T, e.key)
  PROVE  Put(T, e).fill = T.fill
<1>1. PICK b \in 0 .. n - 1 :
        /\ b = Bucket(e.key, n)
        /\ Put(T, e) \in Tabs(n)
        /\ \/ \E i \in 1 .. Len(T.buckets[b]) :
                T.buckets[b][i].key = e.key /\ Updated(T, Put(T, e), n, b, i, e.val)
           \/ /\ \A i \in 1 .. Len(T.buckets[b]) : T.buckets[b][i].key # e.key
              /\ Added(T, Put(T, e), n, b, e)
  BY PutCases
<1>2. Size(T) = n /\ T.buckets[b] \in Seq(Entry)
  BY SizeIs DEF Tabs
<1>3. PICK i : i = assoc(e.key, T.buckets[b])
  OBVIOUS
<1>4. i \in 0 .. Len(T.buckets[b]) /\ (i # 0 => T.buckets[b][i].key = e.key)
  BY <1>2, <1>3, AssocIs
<1>5. i # 0
  BY <1>1, <1>2, <1>3 DEF Finds
<1>6. i \in 1 .. Len(T.buckets[b]) /\ T.buckets[b][i].key = e.key
  BY <1>2, <1>4, <1>5
<1> QED
  BY <1>1, <1>6 DEF Updated

\* sethash without a resize.
LEMMA PutTable ==
  ASSUME NEW n \in Nat, n >= 2, NEW T, Table(T, n), NEW e \in Entry, ~Resizes(T, e.key)
  PROVE  /\ Table(Put(T, e), n)
         /\ \A k \in Keys \ {e.key} : \A v : Global(T, k, v, n) => Global(Put(T, e), k, v, n)
         /\ InPlace(T, e.key, n) => Global(Put(T, e), e.key, e.val, n)
<1>1. T \in Tabs(n) /\ n > 0
  BY DEF Table
<1>2. /\ Put(T, e) \in Tabs(n)
      /\ T.fill <= Put(T, e).fill /\ Put(T, e).fill <= T.fill + 1
      /\ Counted(T) => Counted(Put(T, e))
      /\ OneMisplaced(T, n) => OneMisplaced(Put(T, e), n)
      /\ \A k : InPlace(T, k, n) => InPlace(Put(T, e), k, n)
      /\ \A x : Holds(Put(T, e), x, n) => Holds(T, x, n) \/ x = e
      /\ \A k : Present(T, k, n) \/ k = e.key => Present(Put(T, e), k, n)
  BY <1>1, PutKeeps
<1>3. 4 * (Put(T, e).fill - 1) <= 3 * n
  <2>1. PICK f \in Nat : f = T.fill
    BY <1>1 DEF Tabs
  <2>2. PICK h \in Nat : h = Put(T, e).fill
    BY <1>2 DEF Tabs
  <2>3. CASE Finds(T, e.key)
    BY <1>1, <2>3, PutFill DEF Table
  <2>4. CASE ~Finds(T, e.key)
    <3>1. ~(4 * f > 3 * n)
      BY <1>1, <2>1, <2>4, SizeIs DEF Resizes, OverThreshold
    <3>2. h <= f + 1
      BY <1>2, <2>1, <2>2
    <3>3. 4 * (h - 1) <= 3 * n
      BY <3>1, <3>2
    <3> QED
      BY <2>2, <3>3
  <2> QED
    BY <2>3, <2>4
<1>4. Table(Put(T, e), n)
  BY <1>2, <1>3 DEF Table
<1>5. \A k \in Keys \ {e.key} : \A v : Global(T, k, v, n) => Global(Put(T, e), k, v, n)
  <2> SUFFICES ASSUME NEW k \in Keys \ {e.key}, NEW v, Global(T, k, v, n)
               PROVE  Global(Put(T, e), k, v, n)
    OBVIOUS
  <2>1. InPlace(Put(T, e), k, n)
    BY <1>2 DEF Global
  <2>2. \A x : Holds(Put(T, e), x, n) /\ x.key = k => x.val = v
    BY <1>2 DEF Global
  <2>3. v # Absent => Present(Put(T, e), k, n)
    BY <1>2 DEF Global
  <2> QED
    BY <2>1, <2>2, <2>3 DEF Global
<1>6. ASSUME InPlace(T, e.key, n) PROVE Global(Put(T, e), e.key, e.val, n)
  <2>1. \A x : Holds(Put(T, e), x, n) /\ x.key = e.key => x = e
    BY <1>1, <1>6, PutOnly
  <2> QED
    BY <1>2, <1>6, <2>1 DEF Global
<1> QED
  BY <1>4, <1>5, <1>6

\* sethash with one: the new entry goes to the bucket of the old table, which the
\* new table has too; only that entry can be misplaced.
LEMMA ResizeTable ==
  ASSUME NEW n \in Nat, n >= 2, NEW T, Table(T, n), NEW k \in Keys, NEW v \in Values,
         Resizes(T, k)
  PROVE  /\ Table(sethash(T, k, v), NewSize(n))
         /\ \A j \in Keys \ {k} : \A w :
              Global(T, j, w, n) => Global(sethash(T, k, v), j, w, NewSize(n))
<1>1. T \in Tabs(n) /\ Counted(T)
  BY DEF Table
<1>2. PICK m \in Nat : m = NewSize(n) /\ m > n /\ 3 * n <= 2 * m + 1
  BY NewSizeIs
<1>3. PICK R : R = ht_resize(T)
  OBVIOUS
<1>4. Moved(T, R, n, m)
  BY <1>1, <1>2, <1>3, ResizeIs
<1>5. R \in Tabs(m) /\ Counted(R) /\ \A j \in Keys : InPlace(R, j, m)
  BY <1>4 DEF Moved
<1>6. PICK b \in 0 .. m - 1 : b = Bucket(k, n)
  <2>1. Bucket(k, n) \in 0 .. n - 1
    BY BucketIs
  <2> QED
    BY <1>2, <2>1
<1>7. PICK e \in Entry : e = [key |-> k, val |-> v]
  BY DEF Entry
<1>8. PICK P : P = Push(R, b, k, v)
  OBVIOUS
<1>9. P \in Tabs(m) /\ Added(R, P, m, b, e)
  BY <1>5, <1>7, <1>8, PushIs
<1>10. sethash(T, k, v) = P
  BY <1>1, <1>3, <1>6, <1>8, SizeIs DEF sethash
<1>11. Counted(P)
  BY <1>5, <1>9, PushCounted
<1>12. \A c \in 0 .. m - 1 : \A i \in 1 .. Len(R.buckets[c]) : Bucket(R.buckets[c][i].key, m) = c
  <2> TAKE c \in 0 .. m - 1
  <2> TAKE i \in 1 .. Len(R.buckets[c])
  <2>1. R.buckets[c] \in Seq(Entry)
    BY <1>5 DEF Tabs
  <2>2. R.buckets[c][i] \in Entry
    BY <2>1
  <2>3. R.buckets[c][i].key \in Keys
    BY <2>2 DEF Entry
  <2>4. InPlace(R, R.buckets[c][i].key, m)
    BY <1>5, <2>3
  <2> QED
    BY <2>4 DEF InPlace
<1>13. OneMisplaced(R, m)
  BY <1>12 DEF OneMisplaced
<1>14. OneMisplaced(P, m)
  BY <1>5, <1>9, <1>12, <1>13, AddedMisplaced
<1>15. 4 * (P.fill - 1) <= 3 * m
  <2>1. PICK f \in Nat : f = T.fill
    BY <1>1 DEF Tabs
  <2>2. PICK r \in Nat : r = R.fill
    BY <1>5 DEF Tabs
  <2>3. PICK h \in Nat : h = P.fill
    BY <1>9 DEF Tabs
  <2>4. h = r + 1 /\ r <= f
    BY <1>1, <1>3, <1>9, <2>1, <2>2, <2>3, ResizeFill DEF Added
  <2>5. 4 * (f - 1) <= 3 * n
    BY <2>1 DEF Table
  <2>6. 4 * (h - 1) <= 3 * m
    BY <1>2, <2>4, <2>5
  <2> QED
    BY <2>3, <2>6
<1>16. ASSUME NEW j \in Keys \ {k}, NEW w, Global(T, j, w, n) PROVE Global(P, j, w, m)
  <2>1. e.key = k
    BY <1>7
  <2>2. InPlace(P, j, m)
    BY <1>5, <1>9, <2>1, AddedInPlace
  <2>3. \A x : Holds(P, x, m) => Holds(R, x, m) \/ x = e
    BY <1>5, <1>9, AddedHolds
  <2>4. \A x : Holds(P, x, m) /\ x.key = j => Holds(T, x, n)
    BY <1>4, <2>1, <2>3 DEF Moved
  <2>5. \A x : Holds(P, x, m) /\ x.key = j => x.val = w
    BY <1>16, <2>4 DEF Global
  <2>6. Present(T, j, n) => Present(P, j, m)
    BY <1>4, <1>5, <1>9, AddedHolds DEF Moved
  <2>7. w # Absent => Present(P, j, m)
    BY <1>16, <2>6 DEF Global
  <2> QED
    BY <2>2, <2>5, <2>7 DEF Global
<1> QED
  BY <1>2, <1>9, <1>10, <1>11, <1>14, <1>15, <1>16 DEF Table

\* remhash finds no entry.
LEMMA RemhashIs ==
  ASSUME NEW n \in Nat, n >= 2, NEW T \in Tabs(n), NEW k \in Keys
  PROVE  remhash(T, k) = T
<1>1. PICK b \in 0 .. n - 1 : b = Bucket(k, n)
  BY BucketIs
<1>2. PICK list \in Seq(Entry) : list = T.buckets[b]
  BY DEF Tabs
<1>3. Size(T) = n
  BY SizeIs
<1>4. \A i \in DOMAIN list : list[i] # k
  <2> TAKE i \in DOMAIN list
  <2>1. list[i] \in Entry
    OBVIOUS
  <2> QED
    BY <2>1, KeyAssumption DEF Entry
<1>5. {i \in DOMAIN T.buckets[b] : T.buckets[b][i] = k} = {}
  BY <1>2, <1>4
<1> QED
  BY <1>1, <1>3, <1>5 DEF remhash

-----------------------------------------------------------------------------
(* The invariant                                                             *)

\* A table an older handle keeps.
Kept(T) == \E n \in Nat : n >= 2 /\ Table(T, n)

\* The globals that were never added by a resizing call are in place, with their values.
GlobalsKept ==
  \E n \in Nat :
    n >= 2 /\ Table(globals, n) /\ \A k \in Keys \ strayed : Global(globals, k, last[k], n)

HInv ==
  /\ GlobalsKept
  /\ held = NoHandle \/ held = Same \/ \E T : held = Older(T) /\ Kept(T)
  /\ last \in [Keys -> Values \cup {Absent}]
  /\ strayed \subseteq Keys

LEMMA InitHolds == HashInit => HInv
<1> SUFFICES ASSUME HashInit PROVE HInv
  OBVIOUS
<1>1. InitSize \in Nat /\ InitSize >= 2
  BY SizeAssumption
<1>2. PICK T : T = gc_new_ht(InitSize) /\ globals = T
  BY DEF HashInit
<1>3. /\ T \in Tabs(InitSize) /\ T.fill = 0 /\ Counted(T)
      /\ \A k : InPlace(T, k, InitSize)
      /\ \A x : ~Holds(T, x, InitSize)
      /\ OneMisplaced(T, InitSize)
  BY <1>1, <1>2, NewTable
<1>4. Table(T, InitSize)
  BY <1>1, <1>3 DEF Table
<1>5. \A k \in Keys : Global(T, k, Absent, InitSize)
  BY <1>3 DEF Global
<1>6. \A k \in Keys : last[k] = Absent
  BY DEF HashInit
<1>7. GlobalsKept
  BY <1>1, <1>2, <1>4, <1>5, <1>6 DEF GlobalsKept
<1> QED
  BY <1>7 DEF HashInit, HInv

\* What a call that writes a global does to the table of globals.
LEMMA Defined ==
  ASSUME HInv, NEW k \in Keys, NEW v \in Values,
         globals' = sethash(globals, k, v), last' = [last EXCEPT ![k] = v],
         strayed' = IF Resizes(globals, k) THEN strayed \cup {k} ELSE strayed
  PROVE  GlobalsKept' /\ last' \in [Keys -> Values \cup {Absent}] /\ strayed' \subseteq Keys
<1>1. PICK n \in Nat : /\ n >= 2 /\ Table(globals, n)
                       /\ \A j \in Keys \ strayed : Global(globals, j, last[j], n)
  BY DEF HInv, GlobalsKept
<1>2. last'[k] = v /\ \A j \in Keys \ {k} : last'[j] = last[j]
  BY DEF HInv
<1>3. PICK e \in Entry : e = [key |-> k, val |-> v]
  BY DEF Entry
<1>4. CASE Resizes(globals, k)
  <2>1. PICK P : P = globals'
    OBVIOUS
  <2>2. /\ Table(P, NewSize(n))
        /\ \A j \in Keys \ {k} : \A w : Global(globals, j, w, n) => Global(P, j, w, NewSize(n))
    BY <1>1, <1>4, <2>1, ResizeTable
  <2>3. NewSize(n) \in Nat /\ NewSize(n) >= 2
    BY <1>1, NewSizeIs
  <2>4. strayed' = strayed \cup {k}
    BY <1>4
  <2>5. \A j \in Keys \ strayed' : Global(P, j, last'[j], NewSize(n))
    BY <1>1, <1>2, <2>2, <2>4
  <2>6. GlobalsKept'
    BY <2>1, <2>2, <2>3, <2>5 DEF GlobalsKept
  <2> QED
    BY <2>4, <2>6 DEF HInv
<1>5. CASE ~Resizes(globals, k)
  <2>1. PICK P : P = globals'
    OBVIOUS
  <2>2. P = Put(globals, e) /\ e.key = k /\ e.val = v
    BY <1>3, <1>5, <2>1 DEF sethash
  <2>3. /\ Table(P, n)
        /\ \A j \in Keys \ {k} : \A w : Global(globals, j, w, n) => Global(P, j, w, n)
        /\ InPlace(globals, k, n) => Global(P, k, v, n)
    BY <1>1, <1>5, <2>2, PutTable
  <2>4. strayed' = strayed
    BY <1>5
  <2>5. ASSUME NEW j \in Keys \ strayed PROVE Global(P, j, last'[j], n)
    BY <1>1, <1>2, <2>3 DEF Global
  <2>6. GlobalsKept'
    BY <1>1, <2>1, <2>3, <2>4, <2>5 DEF GlobalsKept
  <2> QED
    BY <2>4, <2>6 DEF HInv
<1> QED
  BY <1>4, <1>5

\* The handles are told apart.
LEMMA HandlesDiffer == \A T : Older(T).state = "older" /\ Older(T) # Same /\ Older(T) # NoHandle
                              /\ Older(T).table = T /\ Same.state = "same" /\ NoHandle.state = "none"
BY DEF Older, Same, NoHandle

LEMMA StepHolds == HInv /\ [HashNext]_hashVars => HInv'
<1> SUFFICES ASSUME HInv, [HashNext]_hashVars PROVE HInv'
  OBVIOUS
<1>1. ASSUME NEW k \in Keys, NEW v \in Values, env_define(k, v) PROVE HInv'
  <2>1. GlobalsKept' /\ last' \in [Keys -> Values \cup {Absent}] /\ strayed' \subseteq Keys
    BY <1>1, Defined DEF env_define
  <2>2. Kept(globals)
    BY DEF HInv, GlobalsKept, Kept
  <2>3. held' = held \/ held' = Older(globals)
    BY <1>1 DEF env_define
  <2>4. held' = NoHandle \/ held' = Same \/ \E T : held' = Older(T) /\ Kept(T)
    BY <2>2, <2>3 DEF HInv
  <2> QED
    BY <2>1, <2>4 DEF HInv
<1>2. ASSUME NEW k \in Keys, NEW v \in Values, SetThroughHandle(k, v) PROVE HInv'
  <2>1. GlobalsKept' /\ last' \in [Keys -> Values \cup {Absent}] /\ strayed' \subseteq Keys
    BY <1>2, Defined DEF SetThroughHandle
  <2> QED
    BY <1>2, <2>1 DEF SetThroughHandle, HInv
<1>3. ASSUME NEW k \in Keys, NEW v \in Values, SetInOlder(k, v) PROVE HInv'
  <2>1. PICK T : held = Older(T) /\ Kept(T)
    BY <1>3, HandlesDiffer DEF HInv, SetInOlder
  <2>2. PICK n \in Nat : n >= 2 /\ Table(T, n)
    BY <2>1 DEF Kept
  <2>3. PICK e \in Entry : e = [key |-> k, val |-> v]
    BY DEF Entry
  <2>4. held.table = T
    BY <2>1, HandlesDiffer
  <2>5. sethash(T, k, v) = Put(T, e) /\ e.key = k /\ ~Resizes(T, k)
    BY <1>3, <2>3, <2>4 DEF SetInOlder, sethash
  <2>6. Table(Put(T, e), n)
    BY <2>2, <2>5, PutTable
  <2>7. held' = Older(Put(T, e))
    BY <1>3, <2>4, <2>5 DEF SetInOlder
  <2>8. Kept(Put(T, e))
    BY <2>2, <2>6 DEF Kept
  <2>9. GlobalsKept'
    BY <1>3 DEF HInv, SetInOlder, GlobalsKept
  <2> QED
    BY <1>3, <2>7, <2>8, <2>9 DEF HInv, SetInOlder
<1>4. ASSUME NEW k \in Keys, NEW v \in Values, SetIsLost(k, v) PROVE HInv'
  BY <1>4 DEF HInv, SetIsLost, GlobalsKept, hashVars
<1>5. ASSUME NEW k \in Keys, proc_remhash(k) PROVE HInv'
  <2>1. CASE held = Same
    <3>1. PICK n \in Nat : n >= 2 /\ globals \in Tabs(n)
      BY DEF HInv, GlobalsKept, Table
    <3>2. globals' = globals /\ held' = held
      BY <1>5, <2>1, <3>1, RemhashIs DEF proc_remhash
    <3> QED
      BY <1>5, <3>2 DEF HInv, GlobalsKept, proc_remhash
  <2>2. CASE held # Same
    <3>1. PICK T : held = Older(T) /\ Kept(T)
      BY <1>5, <2>2 DEF HInv, proc_remhash
    <3>2. held.table = T
      BY <3>1, HandlesDiffer
    <3>3. PICK n \in Nat : n >= 2 /\ T \in Tabs(n)
      BY <3>1 DEF Kept, Table
    <3>4. globals' = globals /\ held' = held
      BY <1>5, <2>2, <3>1, <3>2, <3>3, RemhashIs DEF proc_remhash
    <3> QED
      BY <1>5, <3>4 DEF HInv, GlobalsKept, proc_remhash
  <2> QED
    BY <2>1, <2>2
<1>6. CASE proc_toplevel
  BY <1>6 DEF HInv, GlobalsKept, proc_toplevel
<1>7. CASE UNCHANGED hashVars
  BY <1>7 DEF HInv, GlobalsKept, hashVars
<1> QED
  BY <1>1, <1>2, <1>3, <1>4, <1>5, <1>6, <1>7 DEF HashNext

\* HInv holds in every state.
THEOREM Invariance == HashSpec => []HInv
<1>1. HashInit => HInv
  BY InitHolds
<1>2. HInv /\ [HashNext]_hashVars => HInv'
  BY StepHolds
<1> QED
  BY <1>1, <1>2, PTL DEF HashSpec

\* The tables the properties speak of.
LEMMA TablesAre ==
  ASSUME HInv, NEW T \in Tables
  PROVE  \E n \in Nat : n >= 2 /\ Table(T, n)
<1>1. CASE T = globals
  BY <1>1 DEF HInv, GlobalsKept
<1>2. CASE T # globals
  <2>1. held.state = "older" /\ T = held.table
    BY <1>2 DEF Tables
  <2>2. PICK O : held = Older(O) /\ Kept(O)
    BY <2>1, HandlesDiffer DEF HInv
  <2>3. T = O
    BY <2>1, <2>2, HandlesDiffer
  <2> QED
    BY <2>2, <2>3 DEF Kept
<1> QED
  BY <1>1, <1>2

\* The fill count, on which the decision to resize rests, is the number of entries, no
\* table is more than one entry over its threshold, and a resize leaves a table that
\* is below it: sethash never resizes inside ht_resize (HashTable.LoadFactor).
THEOREM LoadIsBounded == HashSpec => []LoadFactor
<1>1. HInv => LoadFactor
  <2> SUFFICES ASSUME HInv, NEW T \in Tables
               PROVE  /\ T.fill = Cardinality(Positions(T))
                      /\ 4 * (T.fill - 1) <= 3 * Size(T)
                      /\ 4 * (ht_resize(T).fill - 1) <= 3 * NewSize(Size(T))
    BY DEF LoadFactor
  <2>1. PICK n \in Nat : n >= 2 /\ Table(T, n)
    BY TablesAre
  <2>2. Size(T) = n /\ T \in Tabs(n) /\ Counted(T) /\ 4 * (T.fill - 1) <= 3 * n
    BY <2>1, SizeIs DEF Table
  <2>3. PICK f \in Nat : f = T.fill
    BY <2>2 DEF Tabs
  <2>4. PICK r \in Nat : r = ht_resize(T).fill /\ r <= f
    BY <2>1, <2>2, <2>3, ResizeFill
  <2>5. PICK m \in Nat : m = NewSize(n) /\ m > n
    BY <2>1, NewSizeIs
  <2>6. 4 * (r - 1) <= 3 * m
    BY <2>2, <2>3, <2>4, <2>5
  <2> QED
    BY <2>2, <2>4, <2>5, <2>6 DEF Counted
<1> QED
  BY <1>1, Invariance, PTL

\* In every table at most one entry is in a bucket where gethash does not look for it,
\* however often it was resized (HashTable.AtMostOneMisplaced).
THEOREM AtMostOneIsMisplaced == HashSpec => []AtMostOneMisplaced
<1>1. HInv => AtMostOneMisplaced
  <2> SUFFICES ASSUME HInv, NEW T \in Tables PROVE Cardinality(Misplaced(T)) <= 1
    BY DEF AtMostOneMisplaced
  <2>1. PICK n \in Nat : n >= 2 /\ Table(T, n)
    BY TablesAre
  <2>2. T \in Tabs(n) /\ OneMisplaced(T, n) /\ Size(T) = n /\ DOMAIN T.buckets = 0 .. n - 1
    BY <2>1, SizeIs DEF Table
  <2>3. ASSUME NEW p \in Misplaced(T)
        PROVE  /\ p[1] \in 0 .. n - 1 /\ p[2] \in 1 .. Len(T.buckets[p[1]])
               /\ p = <<p[1], p[2]>> /\ Bucket(T.buckets[p[1]][p[2]].key, n) # p[1]
    <3>1. p \in Positions(T) /\ Bucket(T.buckets[p[1]][p[2]].key, n) # p[1]
      BY <2>2 DEF Misplaced
    <3>2. PICK b \in 0 .. n - 1 : p \in {b} \X DOMAIN T.buckets[b]
      BY <2>2, <3>1 DEF Positions
    <3>3. T.buckets[b] \in Seq(Entry)
      BY <2>2 DEF Tabs
    <3>4. p[1] = b /\ p[2] \in 1 .. Len(T.buckets[b]) /\ p = <<p[1], p[2]>>
      BY <3>2, <3>3
    <3> QED
      BY <3>1, <3>4
  <2>4. ASSUME NEW p \in Misplaced(T), NEW q \in Misplaced(T) PROVE p = q
    <3>1. p[1] = q[1] /\ p[2] = q[2]
      BY <2>2, <2>3 DEF OneMisplaced
    <3> QED
      BY <2>3, <3>1
  <2>5. CASE Misplaced(T) = {}
    BY <2>5, FS_EmptySet
  <2>6. CASE Misplaced(T) # {}
    <3>1. PICK p : p \in Misplaced(T)
      BY <2>6
    <3>2. Misplaced(T) = {p}
      BY <2>4, <3>1
    <3>3. Cardinality({p}) = 1
      BY FS_Singleton
    <3> QED
      BY <3>2, <3>3
  <2> QED
    BY <2>5, <2>6
<1> QED
  BY <1>1, Invariance, PTL

\* A global whose entry was never added by a resizing call reads as it was last
\* written, or as absent when it never was (HashTable.OthersReadBack).
THEOREM OthersAreReadBack == HashSpec => []OthersReadBack
<1>1. HInv => OthersReadBack
  <2> SUFFICES ASSUME HInv, NEW k \in Keys \ strayed PROVE gethash(globals, k) = last[k]
    BY DEF OthersReadBack
  <2>1. PICK n \in Nat : n >= 2 /\ Table(globals, n) /\ Global(globals, k, last[k], n)
    BY DEF HInv, GlobalsKept
  <2> QED
    BY <2>1, GethashIs DEF Table
<1> QED
  BY <1>1, Invariance, PTL

=============================================================================
