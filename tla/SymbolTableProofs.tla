------------------------- MODULE SymbolTableProofs -------------------------
(***************************************************************************)
(* That the symbol table never overwrites a name or a pointer, and that    *)
(* symbols are equal exactly when their names are, for every size of the   *)
(* table, every word size and every set of names.                          *)
(***************************************************************************)
EXTENDS SymbolTable, TLAPS, WellFoundedInduction

Strings == Names \cup {Gensym}

\* The types of the table, and the gap between the names and the pointers.
TableTypes ==
  /\ DOMAIN mem = Bytes
  /\ string_table_p \in Nat
  /\ string_table_p < TableSize
  /\ string_table_p < symbol_p + Word
  /\ interned \in Seq([name : Names, at : Nat])
  /\ symbol_p = Slot(Len(interned) + 1)

HistoryTypes ==
  /\ booted \in 0 .. Len(Boot)
  /\ symbols \subseteq [name : Strings, sym : Nat \cup {NULL}, number : Nat]
  /\ gensyms \in Nat

Types == TableTypes /\ HistoryTypes

\* A string is in the table below string_table_p, and whole.
Stored(at, name) ==
  /\ at + Length[name] <= string_table_p
  /\ HoldsString(mem, at, name)

\* The n-th pointer still leads to its name.
Reaches(n) == HoldsPointer(mem, Slot(n), interned[n].at)

Kept ==
  /\ \A n \in DOMAIN interned :
       /\ Stored(interned[n].at, interned[n].name)
       /\ Safe(n) => Reaches(n)
  /\ \A s \in symbols : s.sym # NULL => Stored(s.sym, s.name)

\* The n-th entry is the one that lookup_symbol finds for the name.
First(n, name) ==
  /\ Reaches(n) /\ interned[n].name = name
  /\ \A m \in DOMAIN interned : Reaches(m) /\ interned[m].name = name => n <= m

Named ==
  /\ \A s \in symbols : s.sym # NULL /\ s.number = 0 =>
       \E n \in DOMAIN interned : First(n, s.name) /\ s.sym = interned[n].at
  /\ \A s \in symbols : s.number > 0 =>
       /\ s.sym # NULL /\ s.name = Gensym /\ s.number <= gensyms
       /\ \A n \in DOMAIN interned : s.sym # interned[n].at
  /\ \A s, t \in symbols : s.number > 0 /\ t.number > 0 =>
       (s.sym = t.sym <=> s.number = t.number)

IInv == Types /\ Kept /\ Named

-----------------------------------------------------------------------------
(* Arithmetic of the slots *)

\* Pointers are a word apart, the ones added earlier above.
LEMMA SlotOrder ==
  ASSUME NEW m \in Nat \ {0}, NEW n \in Nat, m < n
  PROVE  /\ Slot(m) \in Int /\ Slot(n) \in Int
         /\ Slot(m) >= Slot(n) + Word
         /\ Slot(m) <= symbol_table
<1>1. Word \in Nat /\ TableSize \in Nat
  BY WordAssumption, TableAssumption
<1>2. \A k \in Nat : Word * k \in Nat
  BY <1>1
<1>3. PICK d \in Nat : n - 1 = (m - 1) + 1 + d
  <2>1. n - m - 1 \in Nat /\ n - 1 = (m - 1) + 1 + (n - m - 1)
    OBVIOUS
  <2> QED
    BY <2>1
<1>4. Word * (n - 1) = Word * (m - 1) + Word + Word * d
  BY <1>1, <1>3
<1>5. Word * (m - 1) \in Nat /\ Word * d \in Nat
  BY <1>2
<1> QED
  BY <1>1, <1>4, <1>5 DEF Slot, symbol_table

\* The slot after the n-th is one word below it.
LEMMA NextSlot ==
  ASSUME NEW n \in Nat
  PROVE  /\ Slot(n + 2) = Slot(n + 1) - Word
         /\ Slot(n + 1) \in Int
         /\ Slot(n + 1) <= symbol_table
<1>1. Word \in Nat /\ TableSize \in Nat
  BY WordAssumption, TableAssumption
<1>2. Word * (n + 1) = Word * n + Word /\ Word * n \in Nat
  BY <1>1
<1>3. (n + 2) - 1 = n + 1 /\ (n + 1) - 1 = n
  OBVIOUS
<1> QED
  BY <1>1, <1>2, <1>3 DEF Slot, symbol_table

-----------------------------------------------------------------------------
(* What lookup_symbol finds *)

Less == {pair \in Nat \X Nat : pair[1] < pair[2]}

\* A set of positions has a least one, and CHOOSE finds it.
LEMMA LeastIs ==
  ASSUME NEW S \in SUBSET Nat, S # {}
  PROVE  LET least == CHOOSE n \in S : \A m \in S : n <= m
         IN  least \in S /\ \A m \in S : least <= m
<1>1. IsWellFoundedOn(Less, Nat)
  BY NatLessThanWellFounded DEF OpToRel, Less
<1>2. PICK x \in S : \A y \in S : ~(<<y, x>> \in Less)
  BY <1>1, WFMin
<1>3. ASSUME NEW y \in S
      PROVE  x <= y
  <2>1. x \in Nat /\ y \in Nat /\ <<y, x>> \in Nat \X Nat
    OBVIOUS
  <2>2. ~(<<y, x>> \in Less)
    BY <1>2
  <2>3. ~(y < x)
    BY <2>1, <2>2 DEF Less
  <2> QED
    BY <2>1, <2>3
<1> QED
  BY <1>2, <1>3

\* Two strings at one address are the same.
LEMMA OneString ==
  ASSUME NEW at \in Nat, NEW a \in Strings, NEW b \in Strings,
         HoldsString(mem, at, a), HoldsString(mem, at, b)
  PROVE  a = b
<1>1. Length[a] \in Nat \ {0} /\ Length[b] \in Nat \ {0}
  BY LengthAssumption DEF Strings
<1>2. 0 \in 0 .. Length[a] - 1 /\ 0 \in 0 .. Length[b] - 1
  BY <1>1
<1>3. mem[at + 0] = [name |-> a, i |-> 0] /\ mem[at + 0] = [name |-> b, i |-> 0]
  BY <1>2 DEF HoldsString
<1> QED
  BY <1>3

\* The entries of the table have their types.
LEMMA EntryTypes ==
  ASSUME Types, NEW n \in DOMAIN interned
  PROVE  /\ n \in 1 .. Len(interned) /\ Len(interned) \in Nat
         /\ interned[n].name \in Names /\ interned[n].at \in Nat
<1> DEFINE Entry == [name : Names, at : Nat]
<1>1. interned \in Seq(Entry)
  BY DEF Types, TableTypes, HistoryTypes
<1>2. n \in 1 .. Len(interned) /\ Len(interned) \in Nat /\ interned[n] \in Entry
  <2> HIDE DEF Entry
  <2> QED
    BY <1>1
<1> QED
  BY <1>2

\* lookup_symbol returns NULL when no entry has the name, else the first that has.
LEMMA LookupIs ==
  ASSUME Types, Kept, NEW name \in Names
  PROVE  \/ /\ lookup_symbol(Table, name) = NULL
            /\ \A n \in DOMAIN interned : ~(Reaches(n) /\ interned[n].name = name)
         \/ /\ lookup_symbol(Table, name) # NULL
            /\ \E n \in DOMAIN interned :
                 First(n, name) /\ lookup_symbol(Table, name) = interned[n].at
<1> DEFINE found == {n \in DOMAIN interned : LeadsTo(Table, n, name)}
           least == CHOOSE n \in found : \A m \in found : n <= m
<1>1. ASSUME NEW n \in DOMAIN interned
      PROVE  LeadsTo(Table, n, name) <=> Reaches(n) /\ interned[n].name = name
  <2>1. interned[n].name \in Strings /\ interned[n].at \in Nat /\ name \in Strings
    BY EntryTypes DEF Strings
  <2>2. HoldsString(mem, interned[n].at, interned[n].name)
    BY DEF Kept, Stored
  <2>3. HoldsString(mem, interned[n].at, name) <=> interned[n].name = name
    BY <2>1, <2>2, OneString
  <2>4. LeadsTo(Table, n, name) <=> Reaches(n) /\ HoldsString(mem, interned[n].at, name)
    BY DEF LeadsTo, Table, Reaches
  <2> QED
    BY <2>3, <2>4
<1>2. lookup_symbol(Table, name) = IF found = {} THEN NULL ELSE interned[least].at
  BY DEF lookup_symbol, Table
<1>3. ASSUME found # {}
      PROVE  /\ least \in DOMAIN interned /\ First(least, name)
             /\ interned[least].at # NULL
  <2>1. found \subseteq Nat
    BY EntryTypes
  <2>2. least \in found /\ \A m \in found : least <= m
    BY <1>3, <2>1, LeastIs
  <2>3. least \in DOMAIN interned
    BY <2>2
  <2>4. interned[least].at \in Nat
    BY <2>3, EntryTypes
  <2>5. interned[least].at # NULL
    BY <2>4, NullAssumption
  <2> QED
    BY <1>1, <2>2, <2>3, <2>5 DEF First
<1> QED
  BY <1>1, <1>2, <1>3

-----------------------------------------------------------------------------
(* What a step that adds to the table leaves alone *)

\* The entries stay, and only the gap between names and pointers is written.
Grows ==
  /\ string_table_p' \in Nat /\ string_table_p <= string_table_p'
  /\ \A n \in DOMAIN interned : n \in DOMAIN interned' /\ interned'[n] = interned[n]
  /\ \A n \in DOMAIN interned' \ DOMAIN interned : interned'[n].at = string_table_p
  /\ \A b \in Bytes : b < string_table_p \/ b >= symbol_p + Word => mem'[b] = mem[b]

\* A stored string stays stored.
LEMMA StoredStays ==
  ASSUME Types, Grows, NEW at \in Nat, NEW name \in Strings, Stored(at, name)
  PROVE  Stored(at, name)'
<1>1. Length[name] \in Nat \ {0} /\ Word \in Nat \ {0} /\ TableSize \in Nat
  BY LengthAssumption, WordAssumption, TableAssumption DEF Strings
<1>2. at + Length[name] <= string_table_p'
  BY <1>1 DEF Stored, Grows, Types, TableTypes, HistoryTypes
<1>3. ASSUME NEW i \in 0 .. Length[name] - 1
      PROVE  mem'[at + i] = [name |-> name, i |-> i]
  <2>1. at + i \in Bytes /\ at + i < string_table_p
    BY <1>1 DEF Stored, Types, TableTypes, HistoryTypes, Bytes
  <2>2. mem[at + i] = [name |-> name, i |-> i]
    BY DEF Stored, HoldsString
  <2> QED
    BY <2>1, <2>2 DEF Grows
<1> QED
  BY <1>2, <1>3 DEF Stored, HoldsString

\* A pointer of the table lies in memory, above the gap.
LEMMA PointerAboveGap ==
  ASSUME Types, NEW n \in DOMAIN interned, NEW i \in 0 .. Word - 1
  PROVE  Slot(n) + i \in Bytes /\ Slot(n) + i >= symbol_p + Word
<1>1. Word \in Nat \ {0} /\ TableSize \in Nat
  BY WordAssumption, TableAssumption
<1>2. n \in Nat \ {0} /\ Len(interned) + 1 \in Nat /\ n < Len(interned) + 1
  BY EntryTypes
<1>3. /\ Slot(n) \in Int /\ symbol_p \in Int
      /\ Slot(n) >= symbol_p + Word /\ Slot(n) <= symbol_table
  BY <1>2, SlotOrder DEF Types, TableTypes, HistoryTypes
<1>4. symbol_p + Word > 0
  BY <1>1, <1>3 DEF Types, TableTypes, HistoryTypes
<1> QED
  BY <1>1, <1>3, <1>4 DEF Bytes, symbol_table

\* A pointer leads where it led.
LEMMA ReachesStays ==
  ASSUME Types, Grows, NEW n \in DOMAIN interned
  PROVE  Reaches(n)' <=> Reaches(n)
<1>1. interned'[n] = interned[n]
  BY DEF Grows
<1>2. \A i \in 0 .. Word - 1 : mem'[Slot(n) + i] = mem[Slot(n) + i]
  BY PointerAboveGap DEF Grows
<1> QED
  BY <1>1, <1>2 DEF Reaches, HoldsPointer

\* What is found first is found first when more is added at the end.
LEMMA FirstStays ==
  ASSUME Types, Types', Grows, NEW n \in DOMAIN interned, NEW name, First(n, name)
  PROVE  n \in DOMAIN interned' /\ First(n, name)' /\ interned'[n] = interned[n]
<1>1. n \in DOMAIN interned' /\ interned'[n] = interned[n]
  BY DEF Grows
<1>2. Reaches(n)' /\ interned'[n].name = name
  BY <1>1, ReachesStays DEF First
<1>3. ASSUME NEW m \in DOMAIN interned', Reaches(m)', interned'[m].name = name
      PROVE  n <= m
  <2>1. CASE m \in DOMAIN interned
    <3>1. Reaches(m) /\ interned[m].name = name
      BY <1>3, <2>1, ReachesStays DEF Grows
    <3> QED
      BY <2>1, <3>1 DEF First
  <2>2. CASE m \notin DOMAIN interned
    <3>1. DOMAIN interned = 1 .. Len(interned) /\ Len(interned) \in Nat
      BY DEF Types, TableTypes, HistoryTypes
    <3>2. m \in Nat \ {0}
      BY DEF Types, TableTypes, HistoryTypes
    <3> QED
      BY <2>2, <3>1, <3>2
  <2> QED
    BY <2>1, <2>2
<1> QED
  BY <1>1, <1>2, <1>3 DEF First

\* All that was kept is kept.
LEMMA OldKept ==
  ASSUME Types, Kept, Grows
  PROVE  /\ \A n \in DOMAIN interned :
              /\ Stored(interned[n].at, interned[n].name)'
              /\ Safe(n) => Reaches(n)'
         /\ \A s \in symbols : s.sym # NULL => Stored(s.sym, s.name)'
<1>1. ASSUME NEW n \in DOMAIN interned
      PROVE  /\ Stored(interned[n].at, interned[n].name)'
             /\ Safe(n) => Reaches(n)'
  <2>1. interned'[n] = interned[n]
    BY DEF Grows
  <2>2. interned[n].at \in Nat /\ interned[n].name \in Strings
    BY EntryTypes DEF Strings
  <2>3. PICK at \in Nat, name \in Strings : at = interned[n].at /\ name = interned[n].name
    BY <2>2
  <2>4. Stored(at, name)
    BY <2>3 DEF Kept
  <2>5. Stored(at, name)'
    BY <2>4, StoredStays
  <2>6. Stored(interned[n].at, interned[n].name)'
    BY <2>1, <2>3, <2>5 DEF Stored
  <2>7. Safe(n) => Reaches(n)'
    BY ReachesStays DEF Kept
  <2> QED
    BY <2>6, <2>7
<1>2. ASSUME NEW s \in symbols, s.sym # NULL
      PROVE  Stored(s.sym, s.name)'
  <2>1. s \in [name : Strings, sym : Nat \cup {NULL}, number : Nat]
    BY DEF Types, TableTypes, HistoryTypes
  <2>2. s.sym \in Nat /\ s.name \in Strings
    BY <1>2, <2>1
  <2>3. Stored(s.sym, s.name)
    BY <1>2 DEF Kept
  <2> QED
    BY <2>2, <2>3, StoredStays
<1> QED
  BY <1>1, <1>2

-----------------------------------------------------------------------------
(* The two operations that write *)

\* intern_new_symbol writes in the gap, which stays open, and what it writes can be read.
LEMMA InternWrites ==
  ASSUME Types, NEW name \in Names, HasRoom(Table, name),
         Becomes(intern_new_symbol(Table, name))
  PROVE  /\ TableTypes'
         /\ Grows
         /\ interned' = Append(interned, [name |-> name, at |-> string_table_p])
         /\ HoldsString(mem', string_table_p, name)
         /\ HoldsPointer(mem', symbol_p, string_table_p)
         /\ string_table_p' = string_table_p + Length[name]
<1> DEFINE end == string_table_p + Length[name]
           last == string_table_p + Length[name] - 1
           Entry == [name : Names, at : Nat]
           entry == [name |-> name, at |-> string_table_p]
<1>1. /\ Length[name] \in Nat \ {0} /\ Word \in Nat \ {0} /\ TableSize \in Nat \ {0}
      /\ string_table_p \in Nat
  BY LengthAssumption, WordAssumption, TableAssumption DEF Types, TableTypes
<1>2. interned \in Seq(Entry) /\ Len(interned) \in Nat
  BY DEF Types, TableTypes
<1>3. /\ symbol_p \in Int /\ symbol_p <= symbol_table
      /\ symbol_p - Word = Slot(Len(interned) + 2)
  BY <1>2, NextSlot DEF Types, TableTypes
<1>4. symbol_p > end
  BY DEF HasRoom, Table
<1>5. /\ string_table_p' = end
      /\ symbol_p' = symbol_p - Word
      /\ interned' = Append(interned, entry)
      /\ mem' = WithString(WithPointer(mem, symbol_p, string_table_p), string_table_p, name)
  BY DEF Becomes, intern_new_symbol, Table
<1>6. DOMAIN mem' = Bytes
  BY <1>5 DEF WithString, WithPointer, Types, TableTypes
<1>7. ASSUME NEW b \in Bytes
      PROVE  /\ b \in string_table_p .. last =>
                  mem'[b] = [name |-> name, i |-> b - string_table_p]
             /\ b \notin string_table_p .. last =>
                  /\ b \in symbol_p .. symbol_p + Word - 1 =>
                       mem'[b] = [pointer |-> string_table_p, i |-> b - symbol_p]
                  /\ b \notin symbol_p .. symbol_p + Word - 1 => mem'[b] = mem[b]
  <2> DEFINE pointed == WithPointer(mem, symbol_p, string_table_p)
  <2>1. b \in DOMAIN mem
    BY DEF Types, TableTypes
  <2>2. /\ b \in DOMAIN pointed
        /\ b \in symbol_p .. symbol_p + Word - 1 =>
             pointed[b] = [pointer |-> string_table_p, i |-> b - symbol_p]
        /\ b \notin symbol_p .. symbol_p + Word - 1 => pointed[b] = mem[b]
    BY <2>1, Zenon DEF WithPointer
  <2> HIDE DEF pointed
  <2>3. /\ b \in string_table_p .. last =>
             WithString(pointed, string_table_p, name)[b]
               = [name |-> name, i |-> b - string_table_p]
        /\ b \notin string_table_p .. last =>
             WithString(pointed, string_table_p, name)[b] = pointed[b]
    BY <2>2, Zenon DEF WithString
  <2>4. mem' = WithString(pointed, string_table_p, name)
    BY <1>5 DEF pointed
  <2> QED
    BY <2>2, <2>3, <2>4, Zenon
<1>8. interned' \in Seq(Entry) /\ Len(interned') = Len(interned) + 1
  <2>1. entry \in Entry
    BY <1>1
  <2> HIDE DEF Entry, entry
  <2> QED
    BY <1>2, <1>5, <2>1
<1>9. TableTypes'
  <2>1. symbol_p' = Slot(Len(interned') + 1)
    BY <1>2, <1>3, <1>5, <1>8
  <2>2. string_table_p' \in Nat /\ string_table_p' < TableSize
    BY <1>1, <1>3, <1>4, <1>5 DEF symbol_table
  <2>3. string_table_p' < symbol_p' + Word
    BY <1>1, <1>3, <1>4, <1>5
  <2> QED
    BY <1>6, <1>8, <2>1, <2>2, <2>3 DEF TableTypes, Bytes, Slot, symbol_table
<1>10. Grows
  <2>1. \A n \in DOMAIN interned : n \in DOMAIN interned' /\ interned'[n] = interned[n]
    <3> HIDE DEF Entry, entry
    <3> QED
      BY <1>2, <1>5
  <2>2. ASSUME NEW b \in Bytes, b < string_table_p \/ b >= symbol_p + Word
        PROVE  mem'[b] = mem[b]
    <3>1. b \notin string_table_p .. last /\ b \notin symbol_p .. symbol_p + Word - 1
      BY <1>1, <1>3, <1>4, <2>2 DEF Bytes
    <3> QED
      BY <1>7, <3>1
  <2>3. string_table_p' \in Nat /\ string_table_p <= string_table_p'
    BY <1>1, <1>5
  <2>4. \A n \in DOMAIN interned' \ DOMAIN interned : interned'[n].at = string_table_p
    <3>1. \A n \in DOMAIN interned' \ DOMAIN interned : interned'[n] = entry
      <4> HIDE DEF Entry, entry
      <4> QED
        BY <1>2, <1>5
    <3> QED
      BY <3>1
  <2> QED
    BY <2>1, <2>2, <2>3, <2>4 DEF Grows
<1>11. HoldsString(mem', string_table_p, name)
  <2>1. ASSUME NEW i \in 0 .. Length[name] - 1
        PROVE  mem'[string_table_p + i] = [name |-> name, i |-> i]
    <3>1. /\ string_table_p + i \in Bytes /\ string_table_p + i \in string_table_p .. last
          /\ (string_table_p + i) - string_table_p = i
      BY <1>1, <1>3, <1>4 DEF Bytes, symbol_table
    <3> QED
      BY <1>7, <3>1
  <2> QED
    BY <2>1 DEF HoldsString
<1>12. HoldsPointer(mem', symbol_p, string_table_p)
  <2>1. ASSUME NEW i \in 0 .. Word - 1
        PROVE  mem'[symbol_p + i] = [pointer |-> string_table_p, i |-> i]
    <3>1. /\ symbol_p + i \in Bytes /\ symbol_p + i \in symbol_p .. symbol_p + Word - 1
          /\ symbol_p + i \notin string_table_p .. last
          /\ (symbol_p + i) - symbol_p = i
      BY <1>1, <1>3, <1>4 DEF Bytes, symbol_table
    <3> QED
      BY <1>7, <3>1
  <2> QED
    BY <2>1 DEF HoldsPointer
<1> QED
  BY <1>5, <1>9, <1>10, <1>11, <1>12

\* gensym writes its name in the gap and no pointer.
LEMMA GensymWrites ==
  ASSUME Types, gensym
  PROVE  /\ TableTypes'
         /\ Grows
         /\ interned' = interned
         /\ HoldsString(mem', string_table_p, Gensym)
         /\ string_table_p' = string_table_p + Length[Gensym]
<1> DEFINE end == string_table_p + Length[Gensym]
           last == string_table_p + Length[Gensym] - 1
<1>1. /\ Length[Gensym] \in Nat \ {0} /\ Word \in Nat \ {0} /\ TableSize \in Nat \ {0}
      /\ string_table_p \in Nat
  BY LengthAssumption, WordAssumption, TableAssumption DEF Types, TableTypes
<1>2. symbol_p \in Int /\ symbol_p <= symbol_table
  <2>1. Len(interned) \in Nat
    BY DEF Types, TableTypes
  <2> QED
    BY <2>1, NextSlot DEF Types, TableTypes
<1>3. symbol_p > end
  BY DEF gensym, HasRoom, Table
<1>4. /\ string_table_p' = end /\ symbol_p' = symbol_p /\ interned' = interned
      /\ mem' = WithString(mem, string_table_p, Gensym)
  BY DEF gensym
<1>5. DOMAIN mem' = Bytes
  BY <1>4 DEF WithString, Types, TableTypes
<1>6. ASSUME NEW b \in Bytes
      PROVE  /\ b \in string_table_p .. last =>
                  mem'[b] = [name |-> Gensym, i |-> b - string_table_p]
             /\ b \notin string_table_p .. last => mem'[b] = mem[b]
  <2>1. b \in DOMAIN mem
    BY DEF Types, TableTypes
  <2> QED
    BY <1>4, <2>1, Zenon DEF WithString
<1>7. TableTypes'
  <2>1. string_table_p' \in Nat /\ string_table_p' < TableSize
    BY <1>1, <1>2, <1>3, <1>4 DEF symbol_table
  <2>2. string_table_p' < symbol_p' + Word
    BY <1>1, <1>2, <1>3, <1>4
  <2> QED
    BY <1>4, <1>5, <2>1, <2>2 DEF Types, TableTypes, Bytes, Slot, symbol_table
<1>8. Grows
  <2>1. ASSUME NEW b \in Bytes, b < string_table_p \/ b >= symbol_p + Word
        PROVE  mem'[b] = mem[b]
    <3>1. b \notin string_table_p .. last
      BY <1>1, <1>2, <1>3, <2>1 DEF Bytes
    <3> QED
      BY <1>6, <3>1
  <2>2. string_table_p' \in Nat /\ string_table_p <= string_table_p'
    BY <1>1, <1>4
  <2> QED
    BY <1>4, <2>1, <2>2 DEF Grows
<1>9. HoldsString(mem', string_table_p, Gensym)
  <2>1. ASSUME NEW i \in 0 .. Length[Gensym] - 1
        PROVE  mem'[string_table_p + i] = [name |-> Gensym, i |-> i]
    <3>1. /\ string_table_p + i \in Bytes /\ string_table_p + i \in string_table_p .. last
          /\ (string_table_p + i) - string_table_p = i
      BY <1>1, <1>2, <1>3 DEF Bytes, symbol_table
    <3> QED
      BY <1>6, <3>1
  <2> QED
    BY <2>1 DEF HoldsString
<1> QED
  BY <1>4, <1>7, <1>8, <1>9

-----------------------------------------------------------------------------
(* The invariant *)

\* What a step must show of a symbol it hands out.
Handed(s) ==
  /\ s.sym # NULL => Stored(s.sym, s.name)
  /\ s.sym # NULL /\ s.number = 0 =>
       \E n \in DOMAIN interned : First(n, s.name) /\ s.sym = interned[n].at
  /\ s.number > 0 =>
       /\ s.sym # NULL /\ s.name = Gensym /\ s.number <= gensyms
       /\ \A n \in DOMAIN interned : s.sym # interned[n].at

\* A symbol that was handed out stays what it was while the table grows.
LEMMA HandedStays ==
  ASSUME IInv, Types', Grows, gensyms <= gensyms', NEW s \in symbols
  PROVE  Handed(s)'
<1>1. /\ s.name \in Strings /\ s.sym \in Nat \cup {NULL} /\ s.number \in Nat
      /\ gensyms \in Nat /\ gensyms' \in Nat /\ string_table_p \in Nat
  <2>1. s \in [name : Strings, sym : Nat \cup {NULL}, number : Nat]
    BY DEF IInv, Types, HistoryTypes
  <2> QED
    BY <2>1 DEF IInv, Types, HistoryTypes, TableTypes
<1>2. s.sym # NULL => Stored(s.sym, s.name)'
  BY OldKept DEF IInv
<1>3. ASSUME s.sym # NULL, s.number = 0
      PROVE  \E n \in DOMAIN interned' : First(n, s.name)' /\ s.sym = interned'[n].at
  <2>1. PICK n \in DOMAIN interned : First(n, s.name) /\ s.sym = interned[n].at
    BY <1>3 DEF IInv, Named
  <2>2. n \in DOMAIN interned' /\ First(n, s.name)' /\ interned'[n] = interned[n]
    BY <2>1, FirstStays DEF IInv
  <2> QED
    BY <2>1, <2>2
<1>4. ASSUME s.number > 0
      PROVE  /\ s.sym # NULL /\ s.name = Gensym /\ s.number <= gensyms'
             /\ \A n \in DOMAIN interned' : s.sym # interned'[n].at
  <2>1. /\ s.sym # NULL /\ s.name = Gensym /\ s.number <= gensyms
        /\ \A n \in DOMAIN interned : s.sym # interned[n].at
    BY <1>4 DEF IInv, Named
  <2>2. s.sym \in Nat /\ s.sym + Length[s.name] <= string_table_p /\ Length[s.name] \in Nat \ {0}
    BY <1>1, <2>1, LengthAssumption DEF IInv, Kept, Stored, Strings
  <2>3. s.sym # string_table_p
    BY <1>1, <2>2
  <2>4. \A n \in DOMAIN interned' : s.sym # interned'[n].at
    BY <2>1, <2>3 DEF Grows
  <2>5. s.number <= gensyms'
    BY <1>1, <2>1
  <2> QED
    BY <2>1, <2>4, <2>5
<1> QED
  BY <1>2, <1>3, <1>4 DEF Handed

\* A step that adds to the table keeps the invariant if what it adds is right.
LEMMA Added ==
  ASSUME IInv, Types', Grows, gensyms <= gensyms',
         \A n \in DOMAIN interned' \ DOMAIN interned :
           Stored(interned[n].at, interned[n].name)' /\ Reaches(n)',
         symbols \subseteq symbols',
         \A s \in symbols' \ symbols : Handed(s)',
         \A s \in symbols' \ symbols, t \in symbols' : s.number > 0 /\ t.number > 0 =>
           (s.sym = t.sym <=> s.number = t.number)
  PROVE  IInv'
<1>1. \A s \in symbols' : Handed(s)'
  BY HandedStays
<1>2. Kept'
  <2>1. \A n \in DOMAIN interned' :
          /\ Stored(interned[n].at, interned[n].name)'
          /\ Safe(n) => Reaches(n)'
    BY OldKept DEF IInv
  <2>2. \A s \in symbols' : s.sym # NULL => Stored(s.sym, s.name)'
    BY <1>1 DEF Handed
  <2> QED
    BY <2>1, <2>2 DEF Kept, Safe, Slot, symbol_table
<1>3. Named'
  <2>1. \A s, t \in symbols' : s.number > 0 /\ t.number > 0 =>
          (s.sym = t.sym <=> s.number = t.number)
    BY DEF IInv, Named
  <2> QED
    BY <1>1, <2>1 DEF Named, Handed
<1> QED
  BY <1>2, <1>3 DEF IInv

\* A table that is not written grows by nothing.
LEMMA SameTable ==
  ASSUME Types, UNCHANGED <<mem, string_table_p, symbol_p, interned>>
  PROVE  TableTypes' /\ Grows
<1>1. TableTypes'
  BY DEF Types, TableTypes, Bytes, Slot, symbol_table
<1>2. Grows
  BY DEF Types, TableTypes, Grows
<1> QED
  BY <1>1, <1>2

\* The new entry of intern_new_symbol is stored, and its pointer leads to it.
LEMMA NewEntry ==
  ASSUME IInv, NEW name \in Names, HasRoom(Table, name),
         Becomes(intern_new_symbol(Table, name))
  PROVE  /\ DOMAIN interned' = DOMAIN interned \cup {Len(interned) + 1}
         /\ interned'[Len(interned) + 1] = [name |-> name, at |-> string_table_p]
         /\ \A n \in DOMAIN interned' \ DOMAIN interned :
              Stored(interned[n].at, interned[n].name)' /\ Reaches(n)'
<1> DEFINE entry == [name |-> name, at |-> string_table_p]
<1>0. PICK new \in Nat : new = Len(interned) + 1
  BY DEF IInv, Types, TableTypes
<1>1. /\ interned' = Append(interned, entry)
      /\ HoldsString(mem', string_table_p, name)
      /\ HoldsPointer(mem', symbol_p, string_table_p)
      /\ string_table_p' = string_table_p + Length[name]
  BY InternWrites DEF IInv
<1>2. /\ DOMAIN interned' = DOMAIN interned \cup {new}
      /\ interned'[new] = entry
  <2>1. interned \in Seq([name : Names, at : Nat])
    BY DEF IInv, Types, TableTypes
  <2> HIDE DEF entry
  <2> QED
    BY <1>0, <1>1, <2>1
<1>3. Stored(interned[new].at, interned[new].name)'
  <2>1. string_table_p' = string_table_p + Length[name] /\ string_table_p \in Nat
    BY <1>1 DEF IInv, Types, TableTypes
  <2>2. string_table_p + Length[name] <= string_table_p'
    BY <2>1, LengthAssumption
  <2>3. interned'[new].at = string_table_p /\ interned'[new].name = name
    BY <1>2
  <2> QED
    BY <1>1, <2>2, <2>3 DEF Stored
<1>4. Reaches(new)'
  <2>1. symbol_p = Slot(new)
    BY <1>0 DEF IInv, Types, TableTypes
  <2>2. interned'[new].at = string_table_p
    BY <1>2
  <2> QED
    BY <1>1, <2>1, <2>2 DEF Reaches, Slot, symbol_table
<1> QED
  BY <1>0, <1>2, <1>3, <1>4

-----------------------------------------------------------------------------
(* The steps *)

\* The empty table satisfies the invariant.
LEMMA InitInv == SymbolInit => IInv
<1> SUFFICES ASSUME SymbolInit PROVE IInv
  OBVIOUS
<1>1. /\ interned = <<>> /\ symbols = {} /\ string_table_p = 0 /\ symbol_p = symbol_table
      /\ DOMAIN mem = Bytes /\ booted = 0 /\ gensyms = 0
  BY DEF SymbolInit
<1>2. Word \in Nat \ {0} /\ TableSize \in Nat \ {0}
  BY WordAssumption, TableAssumption
<1>3. /\ interned \in Seq([name : Names, at : Nat]) /\ Len(interned) = 0
      /\ DOMAIN interned = {}
  BY <1>1
<1>4. symbol_p = Slot(Len(interned) + 1)
  BY <1>1, <1>2, <1>3 DEF Slot, symbol_table
<1>5. booted \in 0 .. Len(Boot)
  BY <1>1, BootAssumption
<1>6. Types
  BY <1>1, <1>2, <1>3, <1>4, <1>5 DEF Types, TableTypes, HistoryTypes, symbol_table
<1> QED
  BY <1>1, <1>3, <1>6 DEF IInv, Kept, Named

\* symbol_init hands out nothing.
LEMMA BootInv ==
  ASSUME IInv, symbol_init
  PROVE  IInv'
<1>1. /\ booted < Len(Boot) /\ booted' = booted + 1 /\ symbols' = symbols /\ gensyms' = gensyms
  BY DEF symbol_init
<1>2. PICK name \in Names : name = Boot[booted + 1]
  <2>1. Len(Boot) \in Nat /\ booted \in 0 .. Len(Boot)
    BY BootAssumption DEF IInv, Types, HistoryTypes
  <2>2. booted + 1 \in 1 .. Len(Boot)
    BY <1>1, <2>1
  <2> QED
    BY <2>2, BootAssumption
<1>3. HistoryTypes'
  BY <1>1, BootAssumption DEF IInv, Types, HistoryTypes
<1>4. \/ HasRoom(Table, name) /\ Becomes(intern_new_symbol(Table, name))
      \/ UNCHANGED <<mem, string_table_p, symbol_p, interned>>
  BY <1>2 DEF symbol_init
<1>5. ASSUME HasRoom(Table, name), Becomes(intern_new_symbol(Table, name))
      PROVE  IInv'
  <2>1. TableTypes' /\ Grows
    BY <1>5, InternWrites DEF IInv
  <2>2. \A n \in DOMAIN interned' \ DOMAIN interned :
          Stored(interned[n].at, interned[n].name)' /\ Reaches(n)'
    BY <1>5, NewEntry
  <2>3. gensyms <= gensyms'
    BY <1>1 DEF IInv, Types, HistoryTypes
  <2> QED
    BY <1>1, <1>3, <2>1, <2>2, <2>3, Added DEF Types
<1>6. ASSUME UNCHANGED <<mem, string_table_p, symbol_p, interned>>
      PROVE  IInv'
  <2>1. TableTypes' /\ Grows
    BY <1>6, SameTable DEF IInv
  <2>2. gensyms <= gensyms'
    BY <1>1 DEF IInv, Types, HistoryTypes
  <2> QED
    BY <1>1, <1>3, <1>6, <2>1, <2>2, Added DEF Types
<1> QED
  BY <1>4, <1>5, <1>6

\* The first object of the heap reaches no pointer that is inside the table.
LEMMA FirstObjectInv ==
  ASSUME IInv, FirstObject
  PROVE  IInv'
<1>1. /\ symbols = {} /\ symbols' = symbols /\ gensyms' = gensyms /\ booted' = booted
      /\ string_table_p' = string_table_p /\ symbol_p' = symbol_p /\ interned' = interned
      /\ mem' = Overwritten(mem)
  BY DEF FirstObject, Ready
<1>2. /\ DOMAIN mem' = Bytes
      /\ \A b \in Bytes : b < TableSize => mem'[b] = mem[b]
  <2>1. DOMAIN mem = Bytes
    BY DEF IInv, Types, TableTypes
  <2>2. TableSize \in Nat /\ Word \in Nat
    BY TableAssumption, WordAssumption
  <2>3. \A b \in Bytes : b < TableSize => ~(b >= TableSize)
    BY <2>2 DEF Bytes
  <2>4. DOMAIN mem' = Bytes
    BY <1>1, <2>1 DEF Overwritten
  <2>5. \A b \in Bytes : ~(b >= TableSize) => mem'[b] = mem[b]
    BY <1>1, <2>1, Zenon DEF Overwritten
  <2> QED
    BY <2>3, <2>4, <2>5
<1>3. Types'
  BY <1>1, <1>2 DEF IInv, Types, TableTypes, HistoryTypes, Bytes, Slot, symbol_table
<1>4. ASSUME NEW n \in DOMAIN interned
      PROVE  /\ Stored(interned[n].at, interned[n].name)'
             /\ Safe(n) => Reaches(n)'
  <2>1. /\ interned[n].at \in Nat /\ interned[n].name \in Names
        /\ string_table_p \in Nat /\ string_table_p < TableSize
    BY EntryTypes DEF IInv, Types, TableTypes
  <2>2. PICK at \in Nat, name \in Names : at = interned[n].at /\ name = interned[n].name
    BY <2>1
  <2>3. /\ Length[name] \in Nat \ {0} /\ TableSize \in Nat \ {0} /\ Word \in Nat \ {0}
    BY LengthAssumption, TableAssumption, WordAssumption
  <2>4. at + Length[name] <= string_table_p /\ HoldsString(mem, at, name)
    BY <2>2 DEF IInv, Kept, Stored
  <2>5. ASSUME NEW i \in 0 .. Length[name] - 1
        PROVE  mem'[at + i] = mem[at + i]
    <3>1. at + i \in Bytes /\ at + i < TableSize
      BY <2>1, <2>3, <2>4 DEF Bytes
    <3> QED
      BY <1>2, <3>1
  <2>6. HoldsString(mem', at, name)
    BY <2>4, <2>5 DEF HoldsString
  <2>7. Stored(interned[n].at, interned[n].name)'
    BY <1>1, <2>2, <2>4, <2>6 DEF Stored
  <2>8. ASSUME Safe(n)
        PROVE  Reaches(n)'
    <3>1. Reaches(n)
      BY <2>8 DEF IInv, Kept
    <3>2. ASSUME NEW i \in 0 .. Word - 1
          PROVE  mem'[Slot(n) + i] = mem[Slot(n) + i]
      <4>1. Slot(n) + i \in Bytes
        BY PointerAboveGap DEF IInv
      <4>2. Slot(n) \in Int
        BY EntryTypes, <2>3 DEF IInv, Slot, symbol_table
      <4>3. Slot(n) + i < TableSize
        BY <2>3, <2>8, <4>2 DEF Safe
      <4> QED
        BY <1>2, <4>1, <4>3
    <3> QED
      BY <1>1, <3>1, <3>2 DEF Reaches, HoldsPointer, Slot, symbol_table
  <2> QED
    BY <2>7, <2>8
<1>5. Kept'
  BY <1>1, <1>4 DEF Kept, Safe, Slot, symbol_table
<1>6. Named'
  BY <1>1 DEF Named
<1> QED
  BY <1>3, <1>5, <1>6 DEF IInv

\* A symbol of a name has its type.
LEMMA SymbolType ==
  ASSUME NEW name \in Names, NEW at \in Nat \cup {NULL}
  PROVE  /\ Symbol(name, at) \in [name : Strings, sym : Nat \cup {NULL}, number : Nat]
         /\ Symbol(name, at).sym = at /\ Symbol(name, at).name = name
         /\ Symbol(name, at).number = 0
BY DEF Symbol, Strings

\* A name that is found is a symbol with the address of its first entry.
LEMMA InternOldInv ==
  ASSUME IInv, NEW name \in Names, InternOld(name)
  PROVE  IInv'
<1>1. /\ UNCHANGED <<mem, string_table_p, symbol_p, interned>>
      /\ gensyms' = gensyms /\ booted' = booted
      /\ lookup_symbol(Table, name) # NULL
      /\ symbols' = symbols \cup {Symbol(name, lookup_symbol(Table, name))}
  BY DEF InternOld, Ready
<1>2. PICK n \in DOMAIN interned :
        First(n, name) /\ lookup_symbol(Table, name) = interned[n].at
  BY <1>1, LookupIs DEF IInv
<1>3. PICK at \in Nat : at = interned[n].at
  BY EntryTypes DEF IInv
<1>4. symbols' = symbols \cup {Symbol(name, at)}
  BY <1>1, <1>2, <1>3
<1>5. /\ Symbol(name, at) \in [name : Strings, sym : Nat \cup {NULL}, number : Nat]
      /\ Symbol(name, at).sym = at /\ Symbol(name, at).name = name
      /\ Symbol(name, at).number = 0
  BY SymbolType
<1>6. TableTypes' /\ Grows
  BY <1>1, SameTable DEF IInv
<1>7. Types'
  BY <1>1, <1>4, <1>5, <1>6 DEF IInv, Types, HistoryTypes
<1>8. ASSUME NEW s \in symbols' \ symbols
      PROVE  Handed(s)' /\ s.number = 0
  <2>1. s.sym = at /\ s.name = name /\ s.number = 0
    BY <1>4, <1>5
  <2>2. Stored(s.sym, s.name)
    BY <1>2, <1>3, <2>1 DEF IInv, Kept, First
  <2>3. name \in Strings /\ at \in Nat
    BY DEF Strings
  <2>4. Stored(s.sym, s.name)'
    BY <1>6, <2>1, <2>2, <2>3, StoredStays DEF IInv
  <2>5. n \in DOMAIN interned' /\ First(n, name)' /\ interned'[n] = interned[n]
    BY <1>2, <1>6, <1>7, FirstStays DEF IInv
  <2> QED
    BY <1>3, <2>1, <2>4, <2>5 DEF Handed
<1>9. gensyms <= gensyms'
  BY <1>1 DEF IInv, Types, HistoryTypes
<1> QED
  BY <1>1, <1>4, <1>6, <1>7, <1>8, <1>9, Added

\* A name that is not found is a symbol with the address of the new entry, which
\* is the only one and hence the first with that name.
LEMMA InternNewInv ==
  ASSUME IInv, NEW name \in Names, InternNew(name)
  PROVE  IInv'
<1>1. /\ HasRoom(Table, name) /\ Becomes(intern_new_symbol(Table, name))
      /\ gensyms' = gensyms /\ booted' = booted
      /\ lookup_symbol(Table, name) = NULL
      /\ symbols' = symbols \cup {Symbol(name, string_table_p)}
  BY DEF InternNew, Ready
<1>2. PICK at \in Nat : at = string_table_p
  BY DEF IInv, Types, TableTypes
<1>3. PICK new \in Nat : new = Len(interned) + 1
  BY DEF IInv, Types, TableTypes
<1>4. /\ Symbol(name, at) \in [name : Strings, sym : Nat \cup {NULL}, number : Nat]
      /\ Symbol(name, at).sym = at /\ Symbol(name, at).name = name
      /\ Symbol(name, at).number = 0
  BY SymbolType
<1>5. TableTypes' /\ Grows
  BY <1>1, InternWrites DEF IInv
<1>6. symbols' = symbols \cup {Symbol(name, at)}
  BY <1>1, <1>2
<1>7. Types'
  BY <1>1, <1>4, <1>5, <1>6 DEF IInv, Types, HistoryTypes
<1>8. /\ DOMAIN interned' = DOMAIN interned \cup {new}
      /\ interned'[new] = [name |-> name, at |-> at]
      /\ \A n \in DOMAIN interned' \ DOMAIN interned :
           Stored(interned[n].at, interned[n].name)' /\ Reaches(n)'
      /\ new \notin DOMAIN interned
  <2>1. new \notin DOMAIN interned
    BY <1>3 DEF IInv, Types, TableTypes
  <2> QED
    BY <1>1, <1>2, <1>3, <2>1, NewEntry
<1>9. interned'[new].at = at /\ interned'[new].name = name
  BY <1>8
<1>10. First(new, name)'
  <2>1. Reaches(new)'
    BY <1>8
  <2>2. \A m \in DOMAIN interned : ~(Reaches(m) /\ interned[m].name = name)
    BY <1>1, LookupIs DEF IInv
  <2>3. \A m \in DOMAIN interned : ~(Reaches(m)' /\ interned'[m].name = name)
    BY <1>5, <2>2, ReachesStays DEF IInv, Grows
  <2>4. \A m \in DOMAIN interned' : Reaches(m)' /\ interned'[m].name = name => new <= m
    BY <1>8, <2>3
  <2> QED
    BY <1>9, <2>1, <2>4 DEF First
<1>11. ASSUME NEW s \in symbols' \ symbols
       PROVE  Handed(s)' /\ s.number = 0
  <2>1. s.sym = at /\ s.name = name /\ s.number = 0
    BY <1>4, <1>6
  <2>2. Stored(interned[new].at, interned[new].name)'
    BY <1>8
  <2>3. Stored(s.sym, s.name)'
    BY <1>9, <2>1, <2>2 DEF Stored
  <2>4. new \in DOMAIN interned'
    BY <1>8
  <2> QED
    BY <1>9, <1>10, <2>1, <2>3, <2>4 DEF Handed
<1>12. gensyms <= gensyms'
  BY <1>1 DEF IInv, Types, HistoryTypes
<1> QED
  BY <1>5, <1>6, <1>7, <1>8, <1>11, <1>12, Added

\* A name for which there is no room is a symbol without an address.
LEMMA InternFailsInv ==
  ASSUME IInv, NEW name \in Names, InternFails(name)
  PROVE  IInv'
<1>1. /\ UNCHANGED <<mem, string_table_p, symbol_p, interned>>
      /\ gensyms' = gensyms /\ booted' = booted
      /\ symbols' = symbols \cup {Symbol(name, NULL)}
  BY DEF InternFails, Ready
<1>2. /\ Symbol(name, NULL) \in [name : Strings, sym : Nat \cup {NULL}, number : Nat]
      /\ Symbol(name, NULL).sym = NULL /\ Symbol(name, NULL).number = 0
  BY SymbolType
<1>3. TableTypes' /\ Grows
  BY <1>1, SameTable DEF IInv
<1>4. Types'
  BY <1>1, <1>2, <1>3 DEF IInv, Types, HistoryTypes
<1>5. ASSUME NEW s \in symbols' \ symbols
      PROVE  Handed(s)' /\ s.number = 0
  <2>1. s.sym = NULL /\ s.number = 0
    BY <1>1, <1>2
  <2> QED
    BY <2>1 DEF Handed
<1>6. gensyms <= gensyms'
  BY <1>1 DEF IInv, Types, HistoryTypes
<1> QED
  BY <1>1, <1>3, <1>4, <1>5, <1>6, Added

\* A gensym has an address above those of all symbols before it, and a new number.
LEMMA GensymInv ==
  ASSUME IInv, gensym
  PROVE  IInv'
<1>1. /\ gensyms' = gensyms + 1 /\ booted' = booted
      /\ symbols' = symbols \cup {[name |-> Gensym, sym |-> string_table_p, number |-> gensyms']}
  BY DEF gensym, Ready
<1>2. /\ TableTypes' /\ Grows /\ interned' = interned
      /\ HoldsString(mem', string_table_p, Gensym)
      /\ string_table_p' = string_table_p + Length[Gensym]
  BY GensymWrites DEF IInv
<1>3. PICK at \in Nat, number \in Nat : at = string_table_p /\ number = gensyms + 1
  BY DEF IInv, Types, TableTypes, HistoryTypes
<1> DEFINE new == [name |-> Gensym, sym |-> at, number |-> number]
<1>4. symbols' = symbols \cup {new}
  BY <1>1, <1>3
<1>5. /\ new \in [name : Strings, sym : Nat \cup {NULL}, number : Nat]
      /\ new.sym = at /\ new.name = Gensym /\ new.number = number
  BY DEF Strings
<1> HIDE DEF new
<1>6. Types'
  <2>1. gensyms' \in Nat
    BY <1>1 DEF IInv, Types, HistoryTypes
  <2> QED
    BY <1>1, <1>2, <1>4, <1>5, <2>1 DEF IInv, Types, HistoryTypes
<1>7. ASSUME NEW s \in symbols' \ symbols
      PROVE  s.sym = at /\ s.name = Gensym /\ s.number = number
  BY <1>4, <1>5
<1>8. at # NULL
  BY NullAssumption
<1>9. Length[Gensym] \in Nat \ {0} /\ gensyms \in Nat
  BY LengthAssumption DEF IInv, Types, HistoryTypes
<1>10. ASSUME NEW s \in symbols' \ symbols
       PROVE  Handed(s)'
  <2>1. s.sym = at /\ s.name = Gensym /\ s.number = number
    BY <1>7
  <2>2. Stored(s.sym, s.name)'
    <3>1. at + Length[Gensym] <= string_table_p'
      BY <1>2, <1>3, <1>9
    <3> QED
      BY <1>2, <1>3, <2>1, <3>1 DEF Stored
  <2>3. \A n \in DOMAIN interned : interned[n].at # at
    <3>1. ASSUME NEW n \in DOMAIN interned
          PROVE  interned[n].at # at
      <4>1. interned[n].at \in Nat /\ interned[n].name \in Names
        BY EntryTypes DEF IInv
      <4>2. interned[n].at + Length[interned[n].name] <= string_table_p
        BY DEF IInv, Kept, Stored
      <4>3. Length[interned[n].name] \in Nat \ {0}
        BY <4>1, LengthAssumption
      <4> QED
        BY <1>3, <4>1, <4>2, <4>3
    <3> QED
      BY <3>1
  <2>4. s.number > 0 /\ s.number <= gensyms'
    BY <1>1, <1>3, <1>9, <2>1
  <2> QED
    BY <1>2, <1>8, <2>1, <2>2, <2>3, <2>4 DEF Handed
<1>11. ASSUME NEW s \in symbols' \ symbols, NEW t \in symbols', s.number > 0, t.number > 0
       PROVE  s.sym = t.sym <=> s.number = t.number
  <2>1. s.sym = at /\ s.number = number
    BY <1>7
  <2>2. ASSUME t \in symbols
        PROVE  s.sym # t.sym /\ s.number # t.number
    <3>1. t \in [name : Strings, sym : Nat \cup {NULL}, number : Nat]
      BY <2>2 DEF IInv, Types, HistoryTypes
    <3>2. t.sym # NULL /\ t.name = Gensym /\ t.number <= gensyms
      BY <1>11, <2>2 DEF IInv, Named
    <3>3. t.sym \in Nat /\ t.number \in Nat
      BY <3>1, <3>2
    <3>4. t.sym + Length[Gensym] <= string_table_p
      BY <2>2, <3>2 DEF IInv, Kept, Stored
    <3> QED
      BY <1>3, <1>9, <2>1, <3>2, <3>3, <3>4
  <2>3. ASSUME t \notin symbols
        PROVE  t.sym = at /\ t.number = number
    BY <1>7, <2>3
  <2> QED
    BY <2>1, <2>2, <2>3
<1>12. gensyms <= gensyms'
  BY <1>1, <1>9
<1> QED
  BY <1>2, <1>4, <1>6, <1>10, <1>11, <1>12, Added

\* Every step keeps the invariant.
LEMMA StepInv == IInv /\ [SymbolNext]_symbolVars => IInv'
<1> SUFFICES ASSUME IInv, [SymbolNext]_symbolVars PROVE IInv'
  OBVIOUS
<1>1. ASSUME NEW name \in Names, InternOld(name) PROVE IInv'
  BY <1>1, InternOldInv
<1>2. ASSUME NEW name \in Names, InternNew(name) PROVE IInv'
  BY <1>2, InternNewInv
<1>3. ASSUME NEW name \in Names, InternFails(name) PROVE IInv'
  BY <1>3, InternFailsInv
<1>4. CASE gensym
  BY <1>4, GensymInv
<1>5. CASE FirstObject
  BY <1>5, FirstObjectInv
<1>6. CASE symbol_init
  BY <1>6, BootInv
<1>7. CASE UNCHANGED symbolVars
  <2>1. UNCHANGED <<mem, string_table_p, symbol_p, interned>>
    BY <1>7 DEF symbolVars
  <2>2. booted' = booted /\ symbols' = symbols /\ gensyms' = gensyms
    BY <1>7 DEF symbolVars
  <2>3. TableTypes' /\ Grows
    BY <2>1, SameTable DEF IInv
  <2>4. Types' /\ gensyms <= gensyms'
    BY <2>2, <2>3 DEF IInv, Types, HistoryTypes
  <2> QED
    BY <2>1, <2>2, <2>3, <2>4, Added
<1> QED
  BY <1>1, <1>2, <1>3, <1>4, <1>5, <1>6, <1>7 DEF SymbolNext

\* The invariant holds in every state the program reaches.
LEMMA Invariance == SymbolSpec => []IInv
BY InitInv, StepInv, PTL DEF SymbolSpec

\* No name is ever overwritten, and no pointer that lies inside the table:
\* intern_new_symbol (symbol.c:42-58) and gensym (symbol.c:84-102) check for room
\* before they write, and the check is strong enough for every word size.
THEOREM TableStaysIntact == SymbolSpec => []TableIntact
<1>1. IInv => TableIntact
  BY DEF IInv, Kept, Stored, Reaches, TableIntact
<1> QED
  BY <1>1, Invariance, PTL

\* Two symbols with the same number, or with none, are equal exactly when they have
\* the same address, which is what eq compares.
LEMMA SameAddress ==
  ASSUME IInv, NEW s \in symbols, NEW t \in symbols, s.sym # NULL, t.sym # NULL
  PROVE  s.sym = t.sym <=> s.name = t.name /\ s.number = t.number
<1>1. \A u \in {s, t} : u.number \in Nat /\ u.name \in Strings /\ u.sym \in Nat \cup {NULL}
  BY DEF IInv, Types, HistoryTypes
<1>2. ASSUME s.number = 0, t.number = 0
      PROVE  s.sym = t.sym <=> s.name = t.name
  <2>1. PICK n \in DOMAIN interned : First(n, s.name) /\ s.sym = interned[n].at
    BY <1>2 DEF IInv, Named
  <2>2. PICK m \in DOMAIN interned : First(m, t.name) /\ t.sym = interned[m].at
    BY <1>2 DEF IInv, Named
  <2>3. ASSUME s.name = t.name
        PROVE  s.sym = t.sym
    <3>1. n <= m /\ m <= n /\ n \in Nat /\ m \in Nat
      BY <2>1, <2>2, <2>3, EntryTypes DEF First, IInv
    <3> QED
      BY <2>1, <2>2, <3>1
  <2>4. ASSUME s.sym = t.sym
        PROVE  s.name = t.name
    <3>1. HoldsString(mem, s.sym, s.name) /\ HoldsString(mem, s.sym, t.name)
      BY <2>4 DEF IInv, Kept, Stored
    <3>2. s.sym \in Nat /\ s.name \in Strings /\ t.name \in Strings
      BY <1>1
    <3> QED
      BY <3>1, <3>2, OneString
  <2> QED
    BY <2>3, <2>4
<1>3. \A u, v \in {s, t} : u.number = 0 /\ v.number > 0 => u.sym # v.sym /\ u.number # v.number
  BY DEF IInv, Named
<1>4. s.number > 0 /\ t.number > 0 =>
        /\ s.sym = t.sym <=> s.number = t.number
        /\ s.name = Gensym /\ t.name = Gensym
  BY DEF IInv, Named
<1>5. \A u \in {s, t} : u.number = 0 \/ u.number > 0
  BY <1>1
<1> QED
  BY <1>2, <1>3, <1>4, <1>5

\* Interning a name twice gives one symbol, different names different ones, and a
\* gensym is no other symbol (symbol.c:73-102), for every table, every
\* set of names and every sequence of calls, unless the table was full.
THEOREM SymbolsStayNames == SymbolSpec => []SymbolsAreNames
<1>1. IInv => SymbolsAreNames
  BY SameAddress DEF SymbolsAreNames
<1> QED
  BY <1>1, Invariance, PTL

============================================================================
