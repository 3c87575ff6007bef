---------------------------- MODULE SymbolTable ----------------------------
(***************************************************************************)
(* The symbol table of libflisp/src/symbol.c, which is never collected:    *)
(* names are stored from the bottom of one block of memory, pointers to    *)
(* them from its top, until the two meet.  Memory is modelled byte by      *)
(* byte, so that a name or a pointer is really overwritten when the two    *)
(* overlap.                                                                *)
(***************************************************************************)
EXTENDS Integers, Sequences

CONSTANTS TableSize,  \* SYMTAB_SIZE: bytes in the table
          Word,       \* sizeof(char *)
          Names,      \* names the reader finds
          Gensym,     \* the name of every gensym
          Length,     \* strlen + 1 of each name
          Boot,       \* the names symbol_init interns
          NULL,
          MaxGensyms  \* bound

ASSUME LengthAssumption == Length \in [Names \cup {Gensym} -> Nat \ {0}]
ASSUME WordAssumption == Word \in Nat \ {0}
ASSUME TableAssumption == TableSize \in Nat \ {0}
ASSUME BootAssumption == Boot \in Seq(Names)
ASSUME NullAssumption == NULL \notin Int

VARIABLES
  mem,             \* the bytes of the table and those behind it
  string_table_p,  \* where the next name goes
  symbol_p,        \* where the next pointer goes
  interned,        \* history: the names in the table, with their addresses
  booted,          \* how many names symbol_init has interned
  symbols,         \* history: the symbols handed out
  gensyms          \* history: number of calls of gensym that succeeded

symbolVars == <<mem, string_table_p, symbol_p, interned, booted, symbols, gensyms>>

symbol_table == TableSize - 1

\* A pointer at symbol_table reaches Word - 1 bytes behind the table.
Bytes == 0 .. TableSize + Word - 2

-----------------------------------------------------------------------------
(* Memory *)

\* strcpy(at, name)
WithString(m, at, name) ==
  [b \in DOMAIN m |-> IF b \in at .. at + Length[name] - 1
                        THEN [name |-> name, i |-> b - at] ELSE m[b]]

\* *p = at
WithPointer(m, p, at) ==
  [b \in DOMAIN m |-> IF b \in p .. p + Word - 1
                        THEN [pointer |-> at, i |-> b - p] ELSE m[b]]

\* The heap that follows the table uses the bytes behind it.
Overwritten(m) ==
  [b \in DOMAIN m |-> IF b >= TableSize THEN [other |-> TRUE] ELSE m[b]]

\* strcmp(at, name) == 0
HoldsString(m, at, name) ==
  \A i \in 0 .. Length[name] - 1 : m[at + i] = [name |-> name, i |-> i]

HoldsPointer(m, p, at) ==
  \A i \in 0 .. Word - 1 : m[p + i] = [pointer |-> at, i |-> i]

-----------------------------------------------------------------------------
(* symbol.c; a table is the record of its memory, its two pointers and names *)

\* mutant: the length of the name is not added
HasRoomNow(t, name) == t.symbol_p > t.string_table_p

\* symbol_p > string_table_p + len
HasRoom(t, name) == t.symbol_p > t.string_table_p + Length[name]

\* The n-th pointer of the table.
Slot(n) == symbol_table - Word * (n - 1)

\* The n-th pointer is followed to the name; one that has been overwritten leads to none.
LeadsTo(t, n, name) ==
  /\ HoldsPointer(t.mem, Slot(n), t.interned[n].at)
  /\ HoldsString(t.mem, t.interned[n].at, name)

\* mutant: the search stops before the name added last
lookup_symbolShort(t, name) ==
  LET found == {n \in 1 .. Len(t.interned) - 1 : LeadsTo(t, n, name)}
  IN  IF found = {} THEN NULL
      ELSE t.interned[CHOOSE n \in found : \A m \in found : n <= m].at

\* From the top down to symbol_p.
lookup_symbol(t, name) ==
  LET found == {n \in DOMAIN t.interned : LeadsTo(t, n, name)}
  IN  IF found = {} THEN NULL
      ELSE t.interned[CHOOSE n \in found : \A m \in found : n <= m].at

\* The table after intern_new_symbol when there is room.
intern_new_symbol(t, name) ==
  [mem |-> WithString(WithPointer(t.mem, t.symbol_p, t.string_table_p),
                      t.string_table_p, name),
   string_table_p |-> t.string_table_p + Length[name],
   symbol_p |-> t.symbol_p - Word,
   interned |-> Append(t.interned, [name |-> name, at |-> t.string_table_p])]

Table == [mem |-> mem, string_table_p |-> string_table_p,
          symbol_p |-> symbol_p, interned |-> interned]

Becomes(t) ==
  /\ mem' = t.mem /\ string_table_p' = t.string_table_p
  /\ symbol_p' = t.symbol_p /\ interned' = t.interned

Symbol(name, at) == [name |-> name, sym |-> at, number |-> 0]

-----------------------------------------------------------------------------

SymbolInit ==
  /\ mem = [b \in Bytes |-> [other |-> FALSE]]
  /\ string_table_p = 0
  /\ symbol_p = symbol_table
  /\ interned = <<>>
  /\ booted = 0
  /\ symbols = {}
  /\ gensyms = 0

\* symbol_init interns its names one by one, if there is room.
symbol_init ==
  /\ booted < Len(Boot)
  /\ booted' = booted + 1
  /\ LET name == Boot[booted + 1]
     IN  \/ HasRoom(Table, name) /\ Becomes(intern_new_symbol(Table, name))
         \/ ~HasRoom(Table, name) /\ UNCHANGED <<mem, string_table_p, symbol_p, interned>>
  /\ UNCHANGED <<symbols, gensyms>>

\* Everything else comes after it.
Ready == booted = Len(Boot) /\ UNCHANGED booted

\* In the kernel the heap starts where the table ends (system.c:239-241), and
\* env_init puts its first object there before it interns anything.  (main.c has
\* its table from calloc, which leaves room behind it: then this never happens.)
FirstObject ==
  /\ Ready
  /\ symbols = {} /\ gensyms = 0
  /\ mem # Overwritten(mem)
  /\ mem' = Overwritten(mem)
  /\ UNCHANGED <<string_table_p, symbol_p, interned, symbols, gensyms>>

\* intern of a name that is found
InternOld(name) ==
  /\ Ready
  /\ lookup_symbol(Table, name) # NULL
  /\ symbols' = symbols \cup {Symbol(name, lookup_symbol(Table, name))}
  /\ UNCHANGED <<mem, string_table_p, symbol_p, interned, gensyms>>

\* ... that is added
InternNew(name) ==
  /\ Ready
  /\ lookup_symbol(Table, name) = NULL
  /\ HasRoom(Table, name)
  /\ Becomes(intern_new_symbol(Table, name))
  /\ symbols' = symbols \cup {Symbol(name, string_table_p)}
  /\ UNCHANGED gensyms

\* ... that is not found and for which there is no room: the symbol has no name.
InternFails(name) ==
  /\ Ready
  /\ lookup_symbol(Table, name) = NULL
  /\ ~HasRoom(Table, name)
  /\ symbols' = symbols \cup {Symbol(name, NULL)}
  /\ UNCHANGED <<mem, string_table_p, symbol_p, interned, gensyms>>

\* A name without a pointer: lookup_symbol does not find it.
gensym ==
  /\ Ready
  /\ gensyms < MaxGensyms
  /\ HasRoom(Table, Gensym)
  /\ mem' = WithString(mem, string_table_p, Gensym)
  /\ string_table_p' = string_table_p + Length[Gensym]
  /\ gensyms' = gensyms + 1
  /\ symbols' = symbols \cup {[name |-> Gensym, sym |-> string_table_p, number |-> gensyms']}
  /\ UNCHANGED <<symbol_p, interned>>

SymbolNext ==
  \/ \E name \in Names : InternOld(name) \/ InternNew(name) \/ InternFails(name)
  \/ gensym
  \/ FirstObject
  \/ symbol_init

SymbolSpec == SymbolInit /\ [][SymbolNext]_symbolVars

-----------------------------------------------------------------------------
(* Properties *)

Safe(n) == Slot(n) + Word <= TableSize

\* No name and no pointer is ever overwritten by a later one, up to the last byte
\* that is used: every symbol keeps its name, and every entry of the table leads
\* to it, but for the pointers that are not inside the table.
TableIntact ==
  /\ \A n \in DOMAIN interned :
       /\ HoldsString(mem, interned[n].at, interned[n].name)
       /\ Safe(n) => HoldsPointer(mem, Slot(n), interned[n].at)
  /\ \A s \in symbols : s.sym # NULL => HoldsString(mem, s.sym, s.name)

\* Symbols are compared by the address of their name (eq): equal names are equal
\* symbols, different names and every two gensyms are different ones, whatever
\* was interned between, unless the table was full.
SymbolsAreNames ==
  \A s, t \in symbols :
    s.sym # NULL /\ t.sym # NULL =>
      (s.sym = t.sym <=> s.name = t.name /\ s.number = t.number)

\* symbol.c:34 says that the first names are interned to get things going: each
\* of them is found where symbol_init put it.
BootNamesFound ==
  booted = Len(Boot) =>
    \A n \in DOMAIN Boot \cap DOMAIN interned :
      lookup_symbol(Table, Boot[n]) = interned[n].at

=============================================================================
