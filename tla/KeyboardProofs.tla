--------------------------- MODULE KeyboardProofs ---------------------------
(***************************************************************************)
(* Proofs about Keyboard: the line has the keys in the order in which they *)
(* were pressed, within its room; the shift status is right while one      *)
(* shift key is used at a time; the screen shows the last rows of what was *)
(* written, and the line as it is.  For every keyboard, length of line,    *)
(* size of screen and number of presses.                                   *)
(***************************************************************************)
EXTENDS Keyboard, TLAPS, FiniteSetTheorems

Presses == [char : KeyChars, n : Nat]

Types ==
  /\ kb_key \in Presses /\ ret \in Presses
  /\ buffer \in Seq(Presses)
  /\ presses \in Nat /\ unread \in Nat /\ printed \in Nat
  /\ pc \in {"compute", "read", "wait", "take", "clear", "edit"}

\* A key that waits in kb_key was pressed after the one that getch has returned last,
\* or is that key, between the copy and the reset.
KeyIsNewer ==
  /\ ret.n <= presses
  /\ kb_key.n <= presses
  /\ kb_key.n > ret.n \/ kb_key = NoKey \/ (pc = "clear" /\ kb_key.n = ret.n)
  /\ pc = "take" => kb_key.n > ret.n

\* The line has keys up to the one getch has returned last, which is not yet in it while
\* getch or gets has it.
LineIsOlder ==
  /\ Len(buffer) <= MaxLine - 1
  /\ \A i, j \in 1 .. Len(buffer) : i < j => buffer[i].n < buffer[j].n
  /\ \A i \in 1 .. Len(buffer) :
       /\ buffer[i].n <= ret.n
       /\ pc \in {"clear", "edit"} => buffer[i].n < ret.n

LInv == Types /\ KeyIsNewer /\ LineIsOlder

\* The hardware holds at most one shift key unless both have been down at once.
SInv ==
  /\ IsFiniteSet(down)
  /\ down \subseteq ShiftKeys
  /\ keystatus \in BOOLEAN /\ both \in BOOLEAN
  /\ ~both => \A a, b \in down : a = b
  /\ ShiftFollowsOneKey

-----------------------------------------------------------------------------
(* Lemmas about sets and sequences *)

\* A finite set of at most one element has no two.
LEMMA AtMostOne ==
  ASSUME NEW S, IsFiniteSet(S), ~(Cardinality(S) > 1), NEW a \in S, NEW b \in S
  PROVE  a = b
<1> SUFFICES ASSUME a # b PROVE FALSE
  OBVIOUS
<1>1. IsFiniteSet({a}) /\ Cardinality({a}) = 1
  BY FS_Singleton
<1>2. Cardinality({a} \cup {b}) = Cardinality({a}) + 1
  BY <1>1, FS_AddElement
<1>3. {a} \cup {b} \subseteq S
  OBVIOUS
<1>4. Cardinality({a} \cup {b}) <= Cardinality(S)
  BY <1>3, FS_Subset
<1>5. Cardinality(S) \in Nat
  BY FS_CardinalityType
<1> QED
  BY <1>1, <1>2, <1>4, <1>5

\* Front leaves out the last element.
LEMMA FrontOf ==
  ASSUME NEW S, NEW s \in Seq(S), s # <<>>
  PROVE  /\ Front(s) \in Seq(S)
         /\ Len(Front(s)) = Len(s) - 1
         /\ \A i \in 1 .. Len(s) - 1 : Front(s)[i] = s[i]
<1>1. Len(s) \in Nat /\ Len(s) > 0
  OBVIOUS
<1>2. Front(s) = SubSeq(s, 1, Len(s) - 1)
  BY DEF Front
<1>3. 1 \in 1 .. Len(s) + 1 /\ Len(s) - 1 \in 0 .. Len(s)
  BY <1>1
<1>4. SubSeq(s, 1, Len(s) - 1) = [i \in 1 .. Len(s) - 1 |-> s[i]]
  BY <1>1, <1>3
<1>5. \A i \in 1 .. Len(s) - 1 : s[i] \in S
  BY <1>1
<1>6. Len(s) - 1 \in Nat
  BY <1>1
<1>7. Front(s) = [i \in 1 .. Len(s) - 1 |-> s[i]]
  BY <1>2, <1>4
<1>8. Front(s) \in Seq(S) /\ Len(Front(s)) = Len(s) - 1
  BY <1>5, <1>6, <1>7
<1> QED
  BY <1>7, <1>8

-----------------------------------------------------------------------------
(* The order of the keys *)

\* At first there is no key and no line.
LEMMA InitLine == Init => LInv
<1> SUFFICES ASSUME Init PROVE LInv
  OBVIOUS
<1>1. NoKey \in Presses /\ NoKey.n = 0
  BY DEF NoKey, Presses, KeyChars
<1>2. Types
  BY <1>1 DEF Init, Types
<1>3. KeyIsNewer /\ LineIsOlder
  BY <1>1, LineAssumption DEF Init, KeyIsNewer, LineIsOlder
<1> QED
  BY <1>2, <1>3 DEF LInv

\* An interrupt puts the newest of all keys into kb_key.
LEMMA PressLine ==
  ASSUME LInv, NEW k \in Keys, keyboard_press(k)
  PROVE  LInv'
<1>1. kb_key' \in Presses /\ kb_key'.n = presses + 1 /\ presses' = presses + 1
  BY KeyAssumption DEF LInv, Types, keyboard_press, Presses
<1>2. Types'
  BY <1>1 DEF LInv, Types, keyboard_press
<1>3. KeyIsNewer'
  BY <1>1 DEF LInv, Types, Presses, KeyIsNewer, keyboard_press
<1>4. LineIsOlder'
  BY DEF LInv, LineIsOlder, keyboard_press
<1> QED
  BY <1>2, <1>3, <1>4 DEF LInv

\* The REPL prints and reads between two lines and leaves the keys alone.
LEMMA ReplLine ==
  ASSUME LInv, print_object \/ flisp_repl \/ next_expr
  PROVE  LInv'
<1>1. /\ UNCHANGED <<kb_key, ret, buffer, presses>>
      /\ pc \in {"compute", "read"} /\ pc' \in {"compute", "read"}
  BY DEF print_object, flisp_repl, next_expr
<1>2. unread' \in Nat /\ printed' \in Nat
  BY DEF LInv, Types, print_object, flisp_repl, next_expr
<1>3. Types'
  BY <1>1, <1>2 DEF LInv, Types
<1>4. KeyIsNewer' /\ LineIsOlder'
  BY <1>1 DEF LInv, KeyIsNewer, LineIsOlder
<1> QED
  BY <1>3, <1>4 DEF LInv

\* A new line is empty.
LEMMA RebufferLine ==
  ASSUME LInv, rebuffer
  PROVE  LInv'
<1>1. Types'
  BY DEF LInv, Types, rebuffer
<1>2. KeyIsNewer'
  BY DEF LInv, KeyIsNewer, rebuffer
<1>3. LineIsOlder'
  BY LineAssumption DEF LineIsOlder, rebuffer
<1> QED
  BY <1>1, <1>2, <1>3 DEF LInv

\* The three steps of getch: a key that is not NoKey is newer than the last one, and
\* so than the line; afterwards there is none.
LEMMA GetchLine ==
  ASSUME LInv, getch_wait \/ getch_take \/ getch_clear
  PROVE  LInv'
<1>1. CASE getch_wait
  <2>1. kb_key.n > ret.n
    BY <1>1 DEF LInv, KeyIsNewer, getch_wait, NoKey
  <2>2. Types' /\ KeyIsNewer'
    BY <1>1, <2>1 DEF LInv, Types, KeyIsNewer, getch_wait
  <2>3. LineIsOlder'
    BY <1>1 DEF LInv, LineIsOlder, getch_wait
  <2> QED
    BY <2>2, <2>3 DEF LInv
<1>2. CASE getch_take
  <2>1. kb_key.n > ret.n /\ ret' = kb_key /\ pc' = "clear"
    BY <1>2 DEF LInv, KeyIsNewer, getch_take
  <2>2. Types' /\ KeyIsNewer'
    BY <1>2, <2>1 DEF LInv, Types, Presses, KeyIsNewer, getch_take
  <2>3. ASSUME NEW i \in 1 .. Len(buffer) PROVE buffer[i].n < ret'.n
    <3>1. buffer[i].n <= ret.n
      BY DEF LInv, LineIsOlder
    <3>2. buffer[i] \in Presses /\ ret \in Presses /\ kb_key \in Presses
      BY DEF LInv, Types
    <3> QED
      BY <2>1, <3>1, <3>2 DEF Presses
  <2>4. \A i \in 1 .. Len(buffer) : buffer[i].n \in Nat /\ ret'.n \in Nat
    <3>1. ret' \in Presses /\ \A i \in 1 .. Len(buffer) : buffer[i] \in Presses
      BY <2>1 DEF LInv, Types
    <3> QED
      BY <3>1 DEF Presses
  <2>5. LineIsOlder'
    BY <1>2, <2>3, <2>4 DEF LInv, LineIsOlder, getch_take
  <2> QED
    BY <2>2, <2>5 DEF LInv
<1>3. CASE getch_clear
  <2>1. NoKey \in Presses /\ NoKey.n = 0
    BY DEF NoKey, Presses, KeyChars
  <2>2. Types' /\ KeyIsNewer'
    BY <1>3, <2>1 DEF LInv, Types, KeyIsNewer, getch_clear
  <2>3. LineIsOlder'
    BY <1>3 DEF LInv, LineIsOlder, getch_clear
  <2> QED
    BY <2>2, <2>3 DEF LInv
<1> QED
  BY <1>1, <1>2, <1>3

\* Backspace takes the last key from the line.
LEMMA BackspaceLine ==
  ASSUME LInv, gets_backspace
  PROVE  LInv'
<1>1. CASE buffer = <<>>
  <2>1. Types' /\ KeyIsNewer'
    BY <1>1 DEF LInv, Types, KeyIsNewer, gets_backspace
  <2>2. LineIsOlder'
    BY <1>1 DEF LInv, LineIsOlder, gets_backspace
  <2> QED
    BY <2>1, <2>2 DEF LInv
<1>2. CASE buffer # <<>>
  <2>1. /\ buffer' = Front(buffer) /\ pc' = "wait"
        /\ UNCHANGED <<kb_key, ret, presses, unread, printed>>
    BY <1>2 DEF gets_backspace
  <2>2. /\ buffer' \in Seq(Presses)
        /\ Len(buffer') = Len(buffer) - 1
        /\ \A i \in 1 .. Len(buffer) - 1 : buffer'[i] = buffer[i]
    BY <1>2, <2>1, FrontOf DEF LInv, Types
  <2>3. Types' /\ KeyIsNewer'
    BY <2>1, <2>2 DEF LInv, Types, KeyIsNewer, gets_backspace
  <2>4. Len(buffer) \in Nat
    BY DEF LInv, Types
  <2>5. \A i \in 1 .. Len(buffer) - 1 : i \in 1 .. Len(buffer)
    BY <2>4
  <2>6. Len(buffer') <= MaxLine - 1
    BY <2>2, <2>4, LineAssumption DEF LInv, LineIsOlder
  <2>7. LineIsOlder'
    BY <2>1, <2>2, <2>5, <2>6 DEF LInv, LineIsOlder
  <2> QED
    BY <2>3, <2>7 DEF LInv
<1> QED
  BY <1>1, <1>2

\* A key that is stored is newer than all in the line.
LEMMA StoreLine ==
  ASSUME LInv, gets_store
  PROVE  LInv'
<1>1. CASE ~Room
  <2>1. Types' /\ KeyIsNewer'
    BY <1>1 DEF LInv, Types, KeyIsNewer, gets_store
  <2>2. LineIsOlder'
    BY <1>1 DEF LInv, LineIsOlder, gets_store
  <2> QED
    BY <2>1, <2>2 DEF LInv
<1>2. CASE Room
  <2>1. /\ buffer' = Append(buffer, ret) /\ pc' = "wait"
        /\ UNCHANGED <<kb_key, ret, presses, unread, printed>> /\ pc = "edit"
    BY <1>2 DEF gets_store
  <2>2. Types' /\ KeyIsNewer'
    BY <2>1 DEF LInv, Types, KeyIsNewer
  <2>3. /\ Len(buffer) \in Nat
        /\ Len(buffer') = Len(buffer) + 1
        /\ buffer'[Len(buffer) + 1] = ret
        /\ \A i \in 1 .. Len(buffer) : buffer'[i] = buffer[i] /\ buffer[i].n < ret.n
    BY <2>1 DEF LInv, Types, LineIsOlder
  <2>4. Len(buffer') <= MaxLine - 1
    BY <1>2, <2>3, LineAssumption DEF Room
  <2>5. ASSUME NEW i \in 1 .. Len(buffer'), NEW j \in 1 .. Len(buffer'), i < j
        PROVE  buffer'[i].n < buffer'[j].n
    <3>1. i \in 1 .. Len(buffer)
      BY <2>3, <2>5
    <3>2. CASE j \in 1 .. Len(buffer)
      BY <2>3, <2>5, <3>1, <3>2 DEF LInv, LineIsOlder
    <3>3. CASE j = Len(buffer) + 1
      BY <2>3, <3>1, <3>3
    <3> QED
      BY <2>3, <3>2, <3>3
  <2>6. ASSUME NEW i \in 1 .. Len(buffer') PROVE buffer'[i].n <= ret'.n
    <3>1. CASE i \in 1 .. Len(buffer)
      BY <2>1, <2>3, <3>1 DEF LInv, LineIsOlder
    <3>2. CASE i = Len(buffer) + 1
      BY <2>1, <2>3, <3>2 DEF LInv, Types, Presses
    <3> QED
      BY <2>3, <3>1, <3>2
  <2>7. LineIsOlder'
    BY <2>1, <2>4, <2>5, <2>6 DEF LineIsOlder
  <2> QED
    BY <2>2, <2>7 DEF LInv
<1> QED
  BY <1>1, <1>2

\* Enter leaves the line as it is.
LEMMA NewlineLine ==
  ASSUME LInv, gets_newline
  PROVE  LInv'
<1>1. Types' /\ KeyIsNewer'
  BY DEF LInv, Types, KeyIsNewer, gets_newline
<1>2. LineIsOlder'
  BY DEF LInv, LineIsOlder, gets_newline
<1> QED
  BY <1>1, <1>2 DEF LInv

\* Every step preserves the invariant.
LEMMA LineStep == LInv /\ [Next]_vars => LInv'
<1> SUFFICES ASSUME LInv, [Next]_vars PROVE LInv'
  OBVIOUS
<1>1. CASE \E k \in Keys : keyboard_press(k)
  BY <1>1, PressLine
<1>2. CASE \E k \in Keys : keyboard_release(k)
  <2>1. UNCHANGED <<kb_key, ret, buffer, unread, presses, printed, pc>>
    BY <1>2 DEF keyboard_release
  <2> QED
    BY <2>1 DEF LInv, Types, KeyIsNewer, LineIsOlder
<1>3. CASE Repl
  BY <1>3, ReplLine, RebufferLine, GetchLine, BackspaceLine, StoreLine, NewlineLine DEF Repl
<1>4. CASE UNCHANGED vars
  BY <1>4 DEF LInv, Types, KeyIsNewer, LineIsOlder, vars
<1> QED
  BY <1>1, <1>2, <1>3, <1>4 DEF Next, Interrupt

\* The line fits its buffer and has the keys in the order of their presses, none twice,
\* wherever in getch the interrupts come.
THEOREM KeysStayInOrder == Spec => []LineInOrder
<1>1. LInv => LineInOrder
  <2> SUFFICES ASSUME LInv PROVE LineInOrder
    OBVIOUS
  <2>1. DOMAIN buffer = 1 .. Len(buffer) /\ Len(buffer) \in Nat
    BY DEF LInv, Types
  <2>2. buffer # <<>> => Last(buffer) = buffer[Len(buffer)] /\ Len(buffer) \in 1 .. Len(buffer)
    BY <2>1 DEF Last, LInv, Types
  <2> QED
    BY <2>1, <2>2 DEF LInv, LineIsOlder, LineInOrder
<1> QED
  BY InitLine, LineStep, <1>1, PTL DEF Spec

-----------------------------------------------------------------------------
(* The shift status *)

\* A shift key that goes down sets the status; another key leaves it.
LEMMA PressShift ==
  ASSUME SInv, NEW k \in Keys, keyboard_press(k)
  PROVE  SInv'
<1>1. {k} \cap ShiftKeys = {} \/ {k} \cap ShiftKeys = {k}
  OBVIOUS
<1>2. IsFiniteSet(down') /\ down' \subseteq ShiftKeys
  <2>1. IsFiniteSet({k} \cap ShiftKeys)
    BY <1>1, FS_Singleton, FS_EmptySet
  <2> QED
    BY <2>1, FS_Union DEF SInv, keyboard_press
<1>3. keystatus' \in BOOLEAN /\ both' \in BOOLEAN
  BY DEF keyboard_press
<1>4. ~both' => ~both /\ \A a, b \in down' : a = b
  BY <1>2, AtMostOne DEF keyboard_press
<1>5. ShiftFollowsOneKey'
  BY <1>4 DEF SInv, ShiftFollowsOneKey, keyboard_press
<1> QED
  BY <1>2, <1>3, <1>4, <1>5 DEF SInv

\* The only shift key that is down goes up and resets the status.
LEMMA ReleaseShift ==
  ASSUME SInv, NEW k \in Keys, keyboard_release(k)
  PROVE  SInv'
<1>1. k \in down /\ down' = down \ {k} /\ keystatus' = ~keystatus /\ both' = both
  BY DEF keyboard_release
<1>2. IsFiniteSet(down')
  BY <1>1, FS_RemoveElement DEF SInv
<1>3. ~both => down' = {} /\ keystatus = TRUE
  BY <1>1 DEF SInv, ShiftFollowsOneKey
<1> QED
  BY <1>1, <1>2, <1>3 DEF SInv, ShiftFollowsOneKey

\* The shift status follows the key as long as no two shift keys are used together.
THEOREM ShiftIsRight == Spec => []ShiftFollowsOneKey
<1>1. Init => SInv
  BY FS_EmptySet DEF Init, SInv, ShiftFollowsOneKey
<1>2. SInv /\ [Next]_vars => SInv'
  <2> SUFFICES ASSUME SInv, [Next]_vars PROVE SInv'
    OBVIOUS
  <2>1. CASE Interrupt
    BY <2>1, PressShift, ReleaseShift DEF Interrupt
  <2>2. CASE Repl
    <3>1. UNCHANGED <<down, keystatus, both>>
      BY <2>2 DEF Repl, print_object, flisp_repl, next_expr, rebuffer, getch_wait, getch_take, getch_clear, gets_backspace,
                  gets_store, gets_newline
    <3> QED
      BY <3>1 DEF SInv, ShiftFollowsOneKey
  <2>3. CASE UNCHANGED vars
    BY <2>3 DEF SInv, ShiftFollowsOneKey, vars
  <2> QED
    BY <2>1, <2>2, <2>3 DEF Next
<1>3. SInv => ShiftFollowsOneKey
  BY DEF SInv
<1> QED
  BY <1>1, <1>2, <1>3, PTL DEF Spec

-----------------------------------------------------------------------------
(* What putch does to one row                                                *)

\* A screen or a sheet of n rows with the cursor on it, blank below the cursor.
Clean(s, n) ==
  /\ s \in [x : Columns, y : 0 .. n - 1, cells : [0 .. n - 1 -> [Columns -> Printable]]]
  /\ \A r \in 0 .. n - 1 : r > s.y => s.cells[r] = BlankRow

\* The column behind c, before the right edge is looked at; the column behind c; how
\* many rows the cursor goes down; and the row of the cursor after it.
Beyond(x, c) ==
  IF c = "backspace" THEN (IF x # 0 THEN x - 1 ELSE x)
  ELSE IF c = "tab" THEN NextTab(x)
  ELSE IF c \in {"return", "newline"} THEN 0
  ELSE IF c \in Printable THEN x + 1
  ELSE x
Column(x, c)   == IF Beyond(x, c) >= Width THEN 0 ELSE Beyond(x, c)
Drops(x, c)    == IF c = "newline" \/ Beyond(x, c) >= Width THEN 1 ELSE 0
Inked(row, x, c) == IF c \in Printable THEN [row EXCEPT ![x] = c] ELSE row

\* The cursor is not left of the screen, and after the wrap not right of it.
LEMMA ColumnIs ==
  ASSUME NEW x \in Columns, NEW c
  PROVE  Beyond(x, c) \in Nat /\ Column(x, c) \in Columns /\ Drops(x, c) \in {0, 1}
<1>1. NextTab(x) \in Nat
  <2>1. PICK t \in Nat : t = TabStop /\ t > 0
    BY SizeAssumption
  <2>2. PICK q : q = (x + t) \div t
    OBVIOUS
  <2>3. q \in Nat
    BY <2>1, <2>2 DEF Columns
  <2>4. \A a, b \in Nat : a * b \in Nat
    OBVIOUS
  <2> QED
    BY <2>1, <2>2, <2>3, <2>4 DEF NextTab
<1>2. Beyond(x, c) \in Nat
  BY <1>1 DEF Beyond, Columns
<1> QED
  BY <1>2, SizeAssumption DEF Column, Columns, Drops

LEMMA InkedIs ==
  ASSUME NEW row \in [Columns -> Printable], NEW x, NEW c
  PROVE  Inked(row, x, c) \in [Columns -> Printable]
BY DEF Inked

\* Before scrolling, putch changes the row of the cursor and moves the cursor.
LEMMA TypedIs ==
  ASSUME NEW n, NEW s, Clean(s, n), NEW c
  PROVE  Typed(s, c) = [x |-> Column(s.x, c), y |-> s.y + Drops(s.x, c),
                        cells |-> [s.cells EXCEPT ![s.y] = Inked(s.cells[s.y], s.x, c)]]
<1>1. PICK x \in Columns : x = s.x
  BY DEF Clean
<1>2. PICK y \in Nat : y = s.y
  BY DEF Clean
<1>3. PICK cells : cells = s.cells
  OBVIOUS
<1>4. s = [x |-> x, y |-> y, cells |-> cells]
  BY <1>1, <1>2, <1>3 DEF Clean
<1>5. Width \in Nat /\ Width > 0 /\ x \in Nat /\ x < Width
  BY SizeAssumption DEF Columns
<1>6. [cells EXCEPT ![y] = cells[y]] = cells
  BY <1>2, <1>3 DEF Clean
<1>7. PICK b \in Nat : b = Beyond(x, c)
  BY ColumnIs
<1>8. PICK new : new = [cells EXCEPT ![y] = Inked(cells[y], x, c)]
  OBVIOUS
<1>9. Place(s, c) = [x |-> b, y |-> IF c = "newline" THEN y + 1 ELSE y, cells |-> new]
  <2>1. CASE c = "backspace"
    <3>1. c \notin Printable /\ c # "newline"
      BY <2>1, ControlAssumption DEF Controls
    <3>2. new = cells
      BY <1>6, <1>8, <3>1 DEF Inked
    <3>3. b = IF x # 0 THEN x - 1 ELSE x
      BY <1>7, <2>1 DEF Beyond
    <3>4. Place(s, c) = [s EXCEPT !.x = IF @ # 0 THEN @ - 1 ELSE @]
      BY <2>1, <3>1 DEF Place
    <3> QED
      BY <1>4, <3>1, <3>2, <3>3, <3>4
  <2>2. CASE c = "tab"
    <3>1. c \notin Printable /\ c # "newline"
      BY <2>2, ControlAssumption DEF Controls
    <3>2. new = cells
      BY <1>6, <1>8, <3>1 DEF Inked
    <3>3. b = NextTab(x)
      BY <1>7, <2>2 DEF Beyond
    <3>4. Place(s, c) = [s EXCEPT !.x = NextTab(@)]
      BY <2>2, <3>1 DEF Place
    <3> QED
      BY <1>4, <3>1, <3>2, <3>3, <3>4
  <2>3. CASE c = "return"
    <3>1. c \notin Printable /\ c # "newline"
      BY <2>3, ControlAssumption DEF Controls
    <3>2. new = cells
      BY <1>6, <1>8, <3>1 DEF Inked
    <3>3. b = 0
      BY <1>7, <2>3 DEF Beyond
    <3>4. Place(s, c) = [s EXCEPT !.x = 0]
      BY <2>3, <3>1 DEF Place
    <3> QED
      BY <1>4, <3>1, <3>2, <3>3, <3>4
  <2>4. CASE c = "newline"
    <3>1. c \notin Printable
      BY <2>4, ControlAssumption DEF Controls
    <3>2. new = cells
      BY <1>6, <1>8, <3>1 DEF Inked
    <3>3. b = 0
      BY <1>7, <2>4 DEF Beyond
    <3>4. Place(s, c) = [s EXCEPT !.x = 0, !.y = @ + 1]
      BY <2>4, <3>1 DEF Place
    <3> QED
      BY <1>4, <2>4, <3>2, <3>3, <3>4
  <2>5. CASE c \in Printable
    <3>1. c \notin {"backspace", "tab", "return", "newline"}
      BY <2>5, ControlAssumption DEF Controls
    <3>2. new = [cells EXCEPT ![y] = [cells[y] EXCEPT ![x] = c]]
      BY <1>8, <2>5 DEF Inked
    <3>3. b = x + 1
      BY <1>7, <2>5, <3>1 DEF Beyond
    <3>4. Place(s, c) = [s EXCEPT !.cells[s.y][s.x] = c, !.x = @ + 1]
      BY <2>5, <3>1 DEF Place
    <3>5. Place(s, c) = [s EXCEPT !.cells = [cells EXCEPT ![y] = [cells[y] EXCEPT ![x] = c]],
                                  !.x = x + 1]
      BY <1>1, <1>2, <1>3, <3>4
    <3> QED
      BY <1>4, <3>1, <3>2, <3>3, <3>5
  <2>6. CASE c \notin {"backspace", "tab", "return", "newline"} /\ c \notin Printable
    <3>1. new = cells
      BY <1>6, <1>8, <2>6 DEF Inked
    <3>2. b = x
      BY <1>7, <2>6 DEF Beyond
    <3>3. Place(s, c) = s
      BY <2>6 DEF Place
    <3> QED
      BY <1>4, <2>6, <3>1, <3>2, <3>3
  <2> QED
    BY <2>1, <2>2, <2>3, <2>4, <2>5, <2>6
<1>10. PICK p : p = Place(s, c)
  OBVIOUS
<1>11. p.x = b /\ p.y = (IF c = "newline" THEN y + 1 ELSE y)
  BY <1>9, <1>10
<1>12. c = "newline" => b = 0
  BY <1>7 DEF Beyond
<1>13. CASE b >= Width
  <2>1. Typed(s, c) = [p EXCEPT !.x = 0, !.y = @ + 1]
    BY <1>10, <1>11, <1>13 DEF Typed, Wrap
  <2>2. c # "newline" /\ p = [x |-> b, y |-> y, cells |-> new]
    BY <1>5, <1>9, <1>10, <1>12, <1>13
  <2>3. Column(x, c) = 0 /\ Drops(x, c) = 1
    BY <1>7, <1>13 DEF Column, Drops
  <2> QED
    BY <1>1, <1>2, <1>3, <1>8, <2>1, <2>2, <2>3
<1>14. CASE ~(b >= Width)
  <2>1. Typed(s, c) = p
    BY <1>10, <1>11, <1>14 DEF Typed, Wrap
  <2>2. Column(x, c) = b /\ Drops(x, c) = IF c = "newline" THEN 1 ELSE 0
    BY <1>7, <1>14 DEF Column, Drops
  <2>3. p = [x |-> b, y |-> y + Drops(x, c), cells |-> new]
    BY <1>9, <1>10, <2>2
  <2> QED
    BY <1>1, <1>2, <1>3, <1>8, <2>1, <2>2, <2>3
<1> QED
  BY <1>13, <1>14

\* What is typed goes to the row of the cursor; the rows below are still blank.
LEMMA TypedClean ==
  ASSUME NEW n \in Nat, NEW s, Clean(s, n), NEW c, s.y + Drops(s.x, c) < n
  PROVE  /\ Clean(Typed(s, c), n)
         /\ Typed(s, c).x = Column(s.x, c) /\ Typed(s, c).y = s.y + Drops(s.x, c)
         /\ Typed(s, c).cells[s.y] = Inked(s.cells[s.y], s.x, c)
         /\ \A r \in 0 .. n - 1 : r # s.y => Typed(s, c).cells[r] = s.cells[r]
<1>1. PICK t : t = Typed(s, c)
  OBVIOUS
<1>2. PICK row \in [Columns -> Printable] : row = Inked(s.cells[s.y], s.x, c)
  BY InkedIs DEF Clean
<1>3. s.x \in Columns /\ s.y \in 0 .. n - 1 /\ s.cells \in [0 .. n - 1 -> [Columns -> Printable]]
  BY DEF Clean
<1>4. t = [x |-> Column(s.x, c), y |-> s.y + Drops(s.x, c), cells |-> [s.cells EXCEPT ![s.y] = row]]
  BY <1>1, <1>2, TypedIs
<1>5. Column(s.x, c) \in Columns /\ Drops(s.x, c) \in {0, 1}
  BY <1>3, ColumnIs
<1>6. s.y + Drops(s.x, c) \in 0 .. n - 1 /\ s.y + Drops(s.x, c) >= s.y
  BY <1>3, <1>5
<1>7. [s.cells EXCEPT ![s.y] = row] \in [0 .. n - 1 -> [Columns -> Printable]]
  BY <1>3
<1>8. t.cells[s.y] = row /\ \A r \in 0 .. n - 1 : r # s.y => t.cells[r] = s.cells[r]
  BY <1>3, <1>4
<1>9. ASSUME NEW r \in 0 .. n - 1, r > t.y PROVE t.cells[r] = BlankRow
  <2>1. t.y >= s.y /\ t.y \in Nat /\ s.y \in Nat
    BY <1>3, <1>4, <1>6
  <2>2. r > s.y
    BY <1>9, <2>1
  <2> QED
    BY <1>8, <2>1, <2>2 DEF Clean
<1>10. Clean(t, n)
  BY <1>4, <1>5, <1>6, <1>7, <1>9 DEF Clean
<1> QED
  BY <1>1, <1>2, <1>4, <1>8, <1>10

\* putch on a screen: as on paper, unless the cursor would leave the screen, which
\* then moves up by one row.
LEMMA PutchIs ==
  ASSUME NEW s, Clean(s, Height), NEW c
  PROVE  /\ s.y + Drops(s.x, c) < Height => putch(s, c) = Typed(s, c)
         /\ s.y + Drops(s.x, c) >= Height =>
              /\ Drops(s.x, c) = 1 /\ s.y = Height - 1
              /\ putch(s, c) =
                   [x |-> Column(s.x, c), y |-> Height - 1,
                    cells |-> [r \in Rows |-> IF r < Height - 1 THEN Typed(s, c).cells[r + 1]
                                              ELSE BlankRow]]
<1>1. PICK t : t = Typed(s, c)
  OBVIOUS
<1>2. PICK h \in Nat : h = Height /\ h > 0
  BY SizeAssumption
<1>3. s.x \in Columns /\ s.y \in 0 .. h - 1
  BY <1>2 DEF Clean
<1>4. Drops(s.x, c) \in {0, 1}
  BY <1>3, ColumnIs
<1>5. t = [x |-> Column(s.x, c), y |-> s.y + Drops(s.x, c),
           cells |-> [s.cells EXCEPT ![s.y] = Inked(s.cells[s.y], s.x, c)]]
  BY <1>1, TypedIs
<1>6. putch(s, c) = scroll(t)
  BY <1>1 DEF putch, Typed
<1>7. CASE s.y + Drops(s.x, c) < h
  <2>1. putch(s, c) = t
    BY <1>2, <1>5, <1>6, <1>7 DEF scroll
  <2>2. ~(s.y + Drops(s.x, c) >= h)
    BY <1>2, <1>3, <1>4, <1>7
  <2> QED
    BY <1>1, <1>2, <2>1, <2>2
<1>8. CASE ~(s.y + Drops(s.x, c) < h)
  <2>1. Drops(s.x, c) = 1 /\ s.y = h - 1 /\ t.y = h
    BY <1>3, <1>4, <1>5, <1>8
  <2>2. t.y - Height + 1 = 1 /\ ~(t.y < Height)
    BY <1>2, <2>1
  <2>3. scroll(t) = [t EXCEPT !.cells = [r \in Rows |-> IF r < Height - 1 THEN t.cells[r + 1]
                                                     ELSE IF r = Height - 1 THEN BlankRow
                                                     ELSE t.cells[r]],
                              !.y = Height - 1]
    BY <2>2 DEF scroll
  <2>4. [r \in Rows |-> IF r < Height - 1 THEN t.cells[r + 1]
                        ELSE IF r = Height - 1 THEN BlankRow ELSE t.cells[r]]
        = [r \in Rows |-> IF r < Height - 1 THEN t.cells[r + 1] ELSE BlankRow]
    BY <1>2 DEF Rows
  <2>5. scroll(t) = [x |-> t.x, y |-> Height - 1,
                     cells |-> [r \in Rows |-> IF r < Height - 1 THEN t.cells[r + 1] ELSE BlankRow]]
    BY <1>5, <2>3, <2>4
  <2> QED
    BY <1>1, <1>2, <1>5, <1>6, <1>8, <2>1, <2>5
<1>9. s.y + Drops(s.x, c) >= h <=> ~(s.y + Drops(s.x, c) < h)
  BY <1>2, <1>3, <1>4
<1> QED
  BY <1>2, <1>7, <1>8, <1>9

\* The cursor stays on the screen, and no row below it is smeared.
LEMMA PutchClean ==
  ASSUME NEW s, Clean(s, Height), NEW c
  PROVE  Clean(putch(s, c), Height)
<1>1. PICK h \in Nat : h = Height /\ h > 0
  BY SizeAssumption
<1>2. s.x \in Columns /\ s.y \in 0 .. h - 1 /\ s.cells \in [0 .. h - 1 -> [Columns -> Printable]]
  BY <1>1 DEF Clean
<1>3. Drops(s.x, c) \in {0, 1} /\ Column(s.x, c) \in Columns
  BY <1>2, ColumnIs
<1>4. CASE s.y + Drops(s.x, c) < h
  BY <1>1, <1>4, PutchIs, TypedClean
<1>5. CASE ~(s.y + Drops(s.x, c) < h)
  <2>1. PICK new : new = [r \in Rows |-> IF r < h - 1 THEN Typed(s, c).cells[r + 1] ELSE BlankRow]
    OBVIOUS
  <2>2. putch(s, c) = [x |-> Column(s.x, c), y |-> h - 1, cells |-> new]
    BY <1>1, <1>2, <1>3, <1>5, <2>1, PutchIs
  <2>3. BlankRow \in [Columns -> Printable]
    BY BlankAssumption DEF BlankRow
  <2>4. Typed(s, c).cells \in [0 .. h - 1 -> [Columns -> Printable]]
    <3>1. Inked(s.cells[s.y], s.x, c) \in [Columns -> Printable]
      BY <1>2, InkedIs
    <3>2. Typed(s, c).cells = [s.cells EXCEPT ![s.y] = Inked(s.cells[s.y], s.x, c)]
      BY TypedIs
    <3> QED
      BY <1>2, <3>1, <3>2
  <2>5. new \in [0 .. h - 1 -> [Columns -> Printable]]
    BY <1>1, <2>1, <2>3, <2>4 DEF Rows
  <2>6. \A r \in 0 .. h - 1 : ~(r > h - 1)
    OBVIOUS
  <2> QED
    BY <1>1, <1>3, <2>2, <2>5, <2>6 DEF Clean
<1> QED
  BY <1>4, <1>5

\* The screen goes on showing the last rows of the paper.
LEMMA ShowsStep ==
  ASSUME NEW s, Clean(s, Height), NEW p, Clean(p, PaperRows), Shows(s, p), NEW c,
         p.y + Drops(p.x, c) < PaperRows
  PROVE  Shows(putch(s, c), Typed(p, c))
<1>1. PICK h \in Nat : h = Height /\ h > 0
  BY SizeAssumption
<1>2. PICK n \in Nat : n = PaperRows
  BY PaperAssumption
<1>3. /\ s.x \in Columns /\ s.y \in 0 .. h - 1 /\ s.cells \in [0 .. h - 1 -> [Columns -> Printable]]
      /\ p.x \in Columns /\ p.y \in 0 .. n - 1 /\ p.cells \in [0 .. n - 1 -> [Columns -> Printable]]
  BY <1>1, <1>2 DEF Clean
<1>4. PICK g \in Nat : g = Gone(p) /\ g = IF p.y < h THEN 0 ELSE p.y - h + 1
  BY <1>1, <1>3 DEF Gone
<1>5. PICK d \in {0, 1} : d = Drops(s.x, c) /\ s.x = p.x
  BY <1>3, ColumnIs DEF Shows
<1>6. s.y + g = p.y /\ \A r \in 0 .. h - 1 : r + g < n => s.cells[r] = p.cells[r + g]
  BY <1>1, <1>2, <1>4 DEF Shows, Rows
<1>7. s.cells[s.y] = p.cells[p.y]
  <2>1. s.y + g < n
    BY <1>3, <1>6
  <2>2. s.cells[s.y] = p.cells[s.y + g]
    BY <1>3, <1>6, <2>1
  <2> QED
    BY <1>6, <2>2
<1>8. PICK t : t = Typed(s, c)
  OBVIOUS
<1>9. PICK q : q = Typed(p, c)
  OBVIOUS
<1>10. /\ t = [x |-> Column(s.x, c), y |-> s.y + d,
               cells |-> [s.cells EXCEPT ![s.y] = Inked(s.cells[s.y], s.x, c)]]
       /\ q = [x |-> Column(s.x, c), y |-> p.y + d,
               cells |-> [p.cells EXCEPT ![p.y] = Inked(s.cells[s.y], s.x, c)]]
  BY <1>5, <1>7, <1>8, <1>9, TypedIs
<1>11. \A r \in 0 .. h - 1 : r + g < n => t.cells[r] = q.cells[r + g]
  <2> SUFFICES ASSUME NEW r \in 0 .. h - 1, r + g < n PROVE t.cells[r] = q.cells[r + g]
    OBVIOUS
  <2>1. r + g \in 0 .. n - 1 /\ (r = s.y <=> r + g = p.y)
    BY <1>3, <1>6
  <2>2. s.cells[r] = p.cells[r + g]
    BY <1>6
  <2> QED
    BY <1>3, <1>10, <2>1, <2>2
<1>12. Gone(q) = IF p.y + d < h THEN 0 ELSE (p.y + d) - h + 1
  <2>1. q.y = p.y + d
    BY <1>10
  <2>2. Gone(q) = IF q.y < Height THEN 0 ELSE q.y - Height + 1
    BY DEF Gone
  <2> QED
    BY <1>1, <2>1, <2>2
<1>13. CASE s.y + d < h
  <2>1. putch(s, c) = t
    BY <1>1, <1>5, <1>8, <1>13, PutchIs
  <2>2. Gone(q) = g
    <3>1. PICK y \in Nat : y = p.y
      BY <1>3
    <3>2. PICK z \in 0 .. h - 1 : z = s.y
      BY <1>3
    <3>3. z + g = y /\ z + d < h /\ g = IF y < h THEN 0 ELSE y - h + 1
      BY <1>4, <1>6, <1>13, <3>1, <3>2
    <3>4. (IF y + d < h THEN 0 ELSE (y + d) - h + 1) = g
      BY <1>1, <3>3
    <3> QED
      BY <1>12, <3>1, <3>4
  <2>3. t.y + g = q.y /\ t.x = q.x
    BY <1>3, <1>5, <1>6, <1>10
  <2> QED
    BY <1>1, <1>2, <1>9, <1>11, <2>1, <2>2, <2>3 DEF Shows, Rows
<1>14. CASE ~(s.y + d < h)
  <2>1. d = 1 /\ s.y = h - 1
    BY <1>3, <1>5, <1>14
  <2>2. PICK u : u = putch(s, c)
    OBVIOUS
  <2>3. u = [x |-> Column(s.x, c), y |-> h - 1,
             cells |-> [r \in Rows |-> IF r < h - 1 THEN t.cells[r + 1] ELSE BlankRow]]
    BY <1>1, <1>3, <1>5, <1>8, <1>14, <2>2, PutchIs
  <2>4. Gone(q) = g + 1
    BY <1>3, <1>4, <1>6, <1>12, <2>1
  <2>5. u.y + (g + 1) = q.y /\ u.x = q.x
    BY <1>3, <1>6, <1>10, <2>1, <2>3
  <2>6. ASSUME NEW r \in 0 .. h - 1, r + (g + 1) < n PROVE u.cells[r] = q.cells[r + (g + 1)]
    <3>1. CASE r < h - 1
      <4>1. r + 1 \in 0 .. h - 1 /\ (r + 1) + g = r + (g + 1)
        BY <3>1
      <4>2. u.cells[r] = t.cells[r + 1]
        BY <1>1, <2>3, <3>1 DEF Rows
      <4> QED
        BY <1>11, <2>6, <4>1, <4>2
    <3>2. CASE r = h - 1
      <4>1. u.cells[r] = BlankRow
        BY <1>1, <2>3, <3>2 DEF Rows
      <4>2. r + (g + 1) = p.y + 1 /\ p.y + 1 \in 0 .. n - 1 /\ p.y + 1 > p.y
        BY <1>3, <1>6, <2>1, <2>6, <3>2
      <4>3. p.cells[p.y + 1] = BlankRow
        BY <1>2, <4>2 DEF Clean
      <4>4. q.cells[p.y + 1] = p.cells[p.y + 1]
        BY <1>3, <1>10, <4>2
      <4> QED
        BY <4>1, <4>2, <4>3, <4>4
    <3> QED
      BY <3>1, <3>2
  <2> QED
    BY <1>1, <1>2, <1>9, <2>2, <2>4, <2>5, <2>6 DEF Shows, Rows
<1> QED
  BY <1>13, <1>14

-----------------------------------------------------------------------------
(* The echo of a line                                                        *)

\* The row of the cursor shows m characters of the prompt and the line, and nothing after.
LineShown(s, line, m) ==
  /\ s.x = m + Len(line)
  /\ \A i \in Columns :
       s.cells[s.y][i] = IF i < m THEN PromptText[i + 1]
                         ELSE IF i - m + 1 \in DOMAIN line THEN line[i - m + 1].char
                         ELSE Blank

\* Where the characters that the REPL writes itself leave the cursor.
LEMMA OwnChars ==
  ASSUME NEW x \in Columns
  PROVE  /\ Column(x, "newline") = 0 /\ Drops(x, "newline") = 1
         /\ \A row : Inked(row, x, "newline") = row
         /\ Column(x, "backspace") = (IF x # 0 THEN x - 1 ELSE x) /\ Drops(x, "backspace") = 0
         /\ \A row : Inked(row, x, "backspace") = row
         /\ \A c \in Printable :
              /\ Column(x, c) = (IF x + 1 < Width THEN x + 1 ELSE 0)
              /\ Drops(x, c) = (IF x + 1 < Width THEN 0 ELSE 1)
              /\ \A row : Inked(row, x, c) = [row EXCEPT ![x] = c]
<1>1. Width \in Nat /\ Width > 0 /\ x \in Nat /\ x < Width
  BY SizeAssumption DEF Columns
<1>2. "newline" \notin Printable /\ "backspace" \notin Printable
  BY ControlAssumption DEF Controls
<1>3. Beyond(x, "newline") = 0 /\ Beyond(x, "backspace") = IF x # 0 THEN x - 1 ELSE x
  BY DEF Beyond
<1>4. /\ Column(x, "newline") = 0 /\ Drops(x, "newline") = 1
      /\ Column(x, "backspace") = (IF x # 0 THEN x - 1 ELSE x) /\ Drops(x, "backspace") = 0
  BY <1>1, <1>3 DEF Column, Drops
<1>5. ASSUME NEW c \in Printable
      PROVE  /\ Column(x, c) = (IF x + 1 < Width THEN x + 1 ELSE 0)
             /\ Drops(x, c) = (IF x + 1 < Width THEN 0 ELSE 1)
             /\ \A row : Inked(row, x, c) = [row EXCEPT ![x] = c]
  <2>1. c \notin {"backspace", "tab", "return", "newline"}
    BY ControlAssumption DEF Controls
  <2>2. Beyond(x, c) = x + 1
    BY <2>1 DEF Beyond
  <2>3. (x + 1 >= Width) <=> ~(x + 1 < Width)
    BY <1>1
  <2> QED
    BY <2>1, <2>2, <2>3 DEF Column, Drops, Inked
<1> QED
  BY <1>2, <1>4, <1>5 DEF Inked

\* putch that stays on its row.
LEMMA SameRow ==
  ASSUME NEW s, Clean(s, Height), NEW c, Drops(s.x, c) = 0
  PROVE  /\ putch(s, c).x = Column(s.x, c) /\ putch(s, c).y = s.y
         /\ putch(s, c).cells[s.y] = Inked(s.cells[s.y], s.x, c)
         /\ Clean(putch(s, c), Height)
<1>1. PICK h \in Nat : h = Height
  BY SizeAssumption
<1>2. s.y \in 0 .. h - 1
  BY <1>1 DEF Clean
<1>3. s.y + Drops(s.x, c) = s.y /\ s.y < h
  BY <1>2
<1>4. putch(s, c) = Typed(s, c)
  BY <1>1, <1>3, PutchIs
<1> QED
  BY <1>1, <1>3, <1>4, TypedClean

\* A new line is a blank row, also when the screen has scrolled.
LEMMA NewRow ==
  ASSUME NEW s, Clean(s, Height)
  PROVE  /\ putch(s, "newline").x = 0
         /\ putch(s, "newline").cells[putch(s, "newline").y] = BlankRow
         /\ Clean(putch(s, "newline"), Height)
<1>1. PICK h \in Nat : h = Height /\ h > 0
  BY SizeAssumption
<1>2. s.x \in Columns /\ s.y \in 0 .. h - 1
  BY <1>1 DEF Clean
<1>3. Column(s.x, "newline") = 0 /\ Drops(s.x, "newline") = 1
  BY <1>2, OwnChars
<1>4. CASE s.y + 1 < h
  <2>1. putch(s, "newline") = Typed(s, "newline")
    BY <1>1, <1>3, <1>4, PutchIs
  <2>2. /\ Typed(s, "newline").x = 0 /\ Typed(s, "newline").y = s.y + 1
        /\ \A r \in 0 .. h - 1 : r # s.y => Typed(s, "newline").cells[r] = s.cells[r]
    BY <1>1, <1>3, <1>4, TypedClean
  <2>3. s.y + 1 \in 0 .. h - 1 /\ s.y + 1 # s.y /\ s.y + 1 > s.y
    BY <1>2, <1>4
  <2>4. s.cells[s.y + 1] = BlankRow
    BY <1>1, <2>3 DEF Clean
  <2> QED
    BY <2>1, <2>2, <2>3, <2>4, PutchClean
<1>5. CASE ~(s.y + 1 < h)
  <2>1. s.y + 1 >= h
    BY <1>2, <1>5
  <2>2. putch(s, "newline") =
          [x |-> 0, y |-> h - 1,
           cells |-> [r \in Rows |-> IF r < h - 1 THEN Typed(s, "newline").cells[r + 1]
                                     ELSE BlankRow]]
    BY <1>1, <1>3, <2>1, PutchIs
  <2>3. h - 1 \in Rows /\ ~(h - 1 < h - 1)
    BY <1>1 DEF Rows
  <2> QED
    BY <2>2, <2>3, PutchClean
<1> QED
  BY <1>4, <1>5

\* A line that is not the first begins on a row of its own.
LEMMA NewlineShows ==
  ASSUME NEW s, Clean(s, Height)
  PROVE  LineShown(putch(s, "newline"), <<>>, 0)
<1>1. putch(s, "newline").x = 0 /\ putch(s, "newline").cells[putch(s, "newline").y] = BlankRow
  BY NewRow
<1>2. \A i \in Columns : ~(i < 0) /\ BlankRow[i] = Blank
  BY SizeAssumption DEF Columns, BlankRow
<1> QED
  BY <1>1, <1>2 DEF LineShown

\* A line begins behind the prompt on a row of its own.
LEMMA PromptShows ==
  ASSUME NEW s, Clean(s, Height)
  PROVE  LineShown(putch(putch(putch(s, "newline"), ">"), Blank), <<>>, 2)
<1>1. PICK t : t = putch(s, "newline")
  OBVIOUS
<1>2. t.x = 0 /\ t.cells[t.y] = BlankRow /\ Clean(t, Height)
  BY <1>1, NewRow
<1>3. 0 \in Columns /\ 0 + 1 < Width /\ 1 \in Columns /\ 1 + 1 < Width
  BY PromptAssumption, SizeAssumption DEF Columns
<1>4. PICK row : row = [BlankRow EXCEPT ![0] = ">"]
  OBVIOUS
<1>5. PICK u : u = putch(t, ">")
  OBVIOUS
<1>6. u.x = 1 /\ u.cells[u.y] = row /\ Clean(u, Height)
  <2>1. Column(0, ">") = 1 /\ Drops(0, ">") = 0 /\ Inked(BlankRow, 0, ">") = row
    BY <1>3, <1>4, OwnChars, PromptAssumption
  <2> QED
    BY <1>2, <1>5, <2>1, SameRow
<1>7. PICK v : v = putch(u, Blank)
  OBVIOUS
<1>8. v.x = 2 /\ v.cells[v.y] = [row EXCEPT ![1] = Blank]
  <2>1. Column(1, Blank) = 2 /\ Drops(1, Blank) = 0 /\ Inked(row, 1, Blank) = [row EXCEPT ![1] = Blank]
    BY <1>3, OwnChars, BlankAssumption
  <2>2. /\ v.x = Column(u.x, Blank) /\ v.y = u.y
        /\ v.cells[u.y] = Inked(u.cells[u.y], u.x, Blank)
    BY <1>6, <1>7, <2>1, SameRow
  <2> QED
    BY <1>6, <2>1, <2>2
<1>9. ASSUME NEW i \in Columns
      PROVE  v.cells[v.y][i] = IF i < 2 THEN PromptText[i + 1] ELSE Blank
  <2>1. v.cells[v.y][i] = IF i = 1 THEN Blank ELSE IF i = 0 THEN ">" ELSE Blank
    BY <1>4, <1>8 DEF BlankRow
  <2>2. i \in Nat /\ (i < 2 => i = 0 \/ i = 1)
    BY SizeAssumption DEF Columns
  <2> QED
    BY <2>1, <2>2 DEF PromptText
<1>10. \A i \in Columns : ~(i - 2 + 1 \in DOMAIN <<>>)
  OBVIOUS
<1>11. v.x = 2 + Len(<<>>)
  BY <1>8
<1> QED
  BY <1>1, <1>5, <1>7, <1>9, <1>10, <1>11 DEF LineShown

\* A printable character that does not wrap is shown behind the others.
LEMMA StoreShows ==
  ASSUME NEW s, Clean(s, Height), NEW line \in Seq(Presses), NEW m \in Nat,
         LineShown(s, line, m),
         NEW e \in Presses, e.char \in Printable, putch(s, e.char).x # 0
  PROVE  LineShown(putch(s, e.char), Append(line, e), m)
<1>1. PICK c \in Printable : c = e.char
  OBVIOUS
<1>2. PICK n \in Nat : n = Len(line) /\ DOMAIN line = 1 .. n
  OBVIOUS
<1>3. s.x \in Columns /\ s.x = m + n /\ s.cells[s.y] \in [Columns -> Printable]
  BY <1>2 DEF Clean, LineShown
<1>4. PICK u : u = putch(s, c)
  OBVIOUS
<1>5. s.x + 1 < Width
  <2> SUFFICES ASSUME ~(s.x + 1 < Width) PROVE FALSE
    OBVIOUS
  <2>1. Column(s.x, c) = 0
    BY <1>3, OwnChars
  <2>2. u.x = Column(s.x, c)
    <3>1. CASE s.y + Drops(s.x, c) < Height
      <4>1. u = Typed(s, c)
        BY <1>4, <3>1, PutchIs
      <4> QED
        BY <4>1, TypedIs
    <3>2. CASE ~(s.y + Drops(s.x, c) < Height)
      <4>1. s.y + Drops(s.x, c) >= Height
        <5>1. Drops(s.x, c) \in {0, 1} /\ Height \in Nat
          BY <1>3, ColumnIs, SizeAssumption
        <5>2. s.y \in 0 .. Height - 1
          BY DEF Clean
        <5> QED
          BY <3>2, <5>1, <5>2
      <4> QED
        BY <1>4, <4>1, PutchIs
    <3> QED
      BY <3>1, <3>2
  <2> QED
    BY <1>1, <1>4, <2>1, <2>2
<1>6. Column(s.x, c) = s.x + 1 /\ Drops(s.x, c) = 0
      /\ Inked(s.cells[s.y], s.x, c) = [s.cells[s.y] EXCEPT ![s.x] = c]
  <2>1. s.x \in Columns
    BY <1>3
  <2> QED
    BY <1>5, <2>1, OwnChars
<1>7. u.x = (m + n) + 1 /\ u.cells[u.y] = [s.cells[s.y] EXCEPT ![m + n] = c]
  BY <1>3, <1>4, <1>6, SameRow
<1>8. /\ Len(Append(line, e)) = n + 1 /\ DOMAIN Append(line, e) = 1 .. n + 1
      /\ Append(line, e)[n + 1] = e /\ \A i \in 1 .. n : Append(line, e)[i] = line[i]
  BY <1>2
<1>9. ASSUME NEW i \in Columns
      PROVE  u.cells[u.y][i] = IF i < m THEN PromptText[i + 1]
                               ELSE IF i - m + 1 \in 1 .. n + 1 THEN Append(line, e)[i - m + 1].char
                               ELSE Blank
  <2>1. i \in Nat
    BY SizeAssumption DEF Columns
  <2>2. CASE i = m + n
    <3>1. ~(i < m) /\ i - m + 1 = n + 1 /\ i - m + 1 \in 1 .. n + 1
      BY <2>2
    <3> QED
      BY <1>1, <1>3, <1>7, <1>8, <2>2, <3>1
  <2>3. CASE i # m + n
    <3>1. i - m + 1 \in 1 .. n + 1 <=> i - m + 1 \in 1 .. n
      BY <2>1, <2>3
    <3>2. u.cells[u.y][i] = s.cells[s.y][i]
      BY <1>3, <1>7, <2>3
    <3> QED
      BY <1>2, <1>8, <3>1, <3>2 DEF LineShown
  <2> QED
    BY <2>2, <2>3
<1>10. (m + n) + 1 = m + (n + 1)
  OBVIOUS
<1> QED
  BY <1>1, <1>4, <1>7, <1>8, <1>9, <1>10 DEF LineShown

\* Backspace, blank, backspace takes the last one from the row.
LEMMA EraseShows ==
  ASSUME NEW s, Clean(s, Height), NEW line \in Seq(Presses), NEW m \in Nat,
         line # <<>>, LineShown(s, line, m)
  PROVE  LineShown(putch(putch(putch(s, "backspace"), Blank), "backspace"), Front(line), m)
<1>1. PICK n \in Nat : n = Len(line) /\ DOMAIN line = 1 .. n /\ n > 0
  OBVIOUS
<1>2. s.x \in Columns /\ s.x = m + n /\ s.cells[s.y] \in [Columns -> Printable]
  BY <1>1 DEF Clean, LineShown
<1>3. PICK k \in Nat : m + n = k + 1 /\ k = m + (n - 1)
  BY <1>1
<1>14. k \in Columns /\ k + 1 \in Columns /\ k + 1 < Width
  BY <1>2, <1>3, SizeAssumption DEF Columns
<1>4. PICK t : t = putch(s, "backspace")
  OBVIOUS
<1>5. t.x = k /\ t.y = s.y /\ t.cells[s.y] = s.cells[s.y] /\ Clean(t, Height)
  <2>1. Column(k + 1, "backspace") = k /\ Drops(k + 1, "backspace") = 0
        /\ Inked(s.cells[s.y], k + 1, "backspace") = s.cells[s.y]
    BY <1>14, OwnChars
  <2> QED
    BY <1>2, <1>3, <1>4, <2>1, SameRow
<1>6. PICK u : u = putch(t, Blank)
  OBVIOUS
<1>7. u.x = k + 1 /\ u.y = s.y /\ u.cells[s.y] = [s.cells[s.y] EXCEPT ![k] = Blank]
      /\ Clean(u, Height)
  <2>1. Column(k, Blank) = k + 1 /\ Drops(k, Blank) = 0
        /\ Inked(s.cells[s.y], k, Blank) = [s.cells[s.y] EXCEPT ![k] = Blank]
    BY <1>14, OwnChars, BlankAssumption
  <2> QED
    BY <1>5, <1>6, <2>1, SameRow
<1>8. PICK v : v = putch(u, "backspace")
  OBVIOUS
<1>9. v.x = k /\ v.cells[v.y] = [s.cells[s.y] EXCEPT ![k] = Blank]
  <2>1. Column(k + 1, "backspace") = k /\ Drops(k + 1, "backspace") = 0
        /\ Inked(u.cells[s.y], k + 1, "backspace") = u.cells[s.y]
    BY <1>14, OwnChars
  <2> QED
    BY <1>7, <1>8, <2>1, SameRow
<1>10. /\ Front(line) \in Seq(Presses) /\ Len(Front(line)) = n - 1
       /\ \A i \in 1 .. n - 1 : Front(line)[i] = line[i]
  BY <1>1, FrontOf
<1>11. DOMAIN Front(line) = 1 .. n - 1
  BY <1>10
<1>12. ASSUME NEW i \in Columns
       PROVE  v.cells[v.y][i] = IF i < m THEN PromptText[i + 1]
                                ELSE IF i - m + 1 \in 1 .. n - 1 THEN Front(line)[i - m + 1].char
                                ELSE Blank
  <2>1. i \in Nat
    BY SizeAssumption DEF Columns
  <2>2. CASE i = k
    <3>1. i - m + 1 \notin 1 .. n - 1 /\ ~(i < m)
      BY <1>1, <1>3, <2>2
    <3> QED
      BY <1>2, <1>9, <2>2, <3>1
  <2>3. CASE i # k
    <3>1. i - m + 1 \in 1 .. n <=> i - m + 1 \in 1 .. n - 1
      BY <1>1, <1>3, <2>1, <2>3
    <3>2. v.cells[v.y][i] = s.cells[s.y][i]
      BY <1>2, <1>9, <2>1, <2>3
    <3> QED
      BY <1>1, <1>10, <3>1, <3>2 DEF LineShown
  <2> QED
    BY <2>2, <2>3
<1>13. k = m + (n - 1)
  BY <1>3
<1> QED
  BY <1>4, <1>6, <1>8, <1>9, <1>10, <1>11, <1>12, <1>13 DEF LineShown

-----------------------------------------------------------------------------
(* The screen and the paper                                                  *)

Fits(s, p) == Clean(s, Height) /\ Clean(p, PaperRows) /\ Shows(s, p)

\* Rows that the REPL has still to write: a prompt now, and one for every expression that
\* the line has room for.
Owed == IF pc = "compute" THEN unread + 1 ELSE IF pc = "read" THEN unread ELSE Len(buffer)

\* Rows that the keys getch has returned and the characters printed account for.
Budget == 2 * ret.n + printed

\* Every key getch has returned moves the paper on by at most two rows, one when it is
\* echoed and one when an expression that it is a part of has been read; the one that gets
\* has not looked at yet has not moved it.
Written ==
  /\ presses <= MaxPresses /\ printed <= MaxPrinted
  /\ paper.y + Owed <= IF pc \in {"clear", "edit"} THEN Budget - 1 ELSE Budget + 1

\* Before a line is asked for the row of the cursor is the prompt, or blank.
RowIsFree == pc = "read" => LineShown(screen, <<>>, Lead)

ScreenInv == Fits(screen, paper) /\ Written /\ RowIsFree /\ EchoShowsLine

\* EchoShowsLine is that the row of the cursor shows the line.
LEMMA EchoIs == EchoShowsLine <=> (Editing /\ visible => LineShown(screen, buffer, Lead))
BY DEF EchoShowsLine, LineShown

LEMMA LeadIs == Lead \in Nat /\ (first => Lead = 2) /\ (~first => Lead = 0)
<1>1. Len(PromptText) = 2
  BY DEF PromptText
<1> QED
  BY <1>1 DEF Lead

\* One character on both.
LEMMA EchoFits ==
  ASSUME NEW s, NEW p, Fits(s, p), NEW c, p.y + Drops(p.x, c) < PaperRows
  PROVE  /\ Fits(putch(s, c), Typed(p, c))
         /\ Typed(p, c).x = Column(p.x, c) /\ Typed(p, c).y = p.y + Drops(p.x, c)
<1>1. PaperRows \in Nat
  BY PaperAssumption
<1>2. Clean(putch(s, c), Height)
  BY PutchClean DEF Fits
<1>3. /\ Clean(Typed(p, c), PaperRows)
      /\ Typed(p, c).x = Column(p.x, c) /\ Typed(p, c).y = p.y + Drops(p.x, c)
  BY <1>1, TypedClean DEF Fits
<1>4. Shows(putch(s, c), Typed(p, c))
  BY ShowsStep DEF Fits
<1> QED
  BY <1>2, <1>3, <1>4 DEF Fits

LEMMA InitScreen == Init => ScreenInv
<1> SUFFICES ASSUME Init PROVE ScreenInv
  OBVIOUS
<1>1. 0 \in Columns /\ 0 \in 0 .. Height - 1 /\ 0 \in 0 .. PaperRows - 1 /\ 0 < Height
  BY SizeAssumption, PaperAssumption DEF Columns
<1>2. BlankRow \in [Columns -> Printable]
  BY BlankAssumption DEF BlankRow
<1>3. screen = [x |-> 0, y |-> 0, cells |-> [r \in 0 .. Height - 1 |-> BlankRow]]
  BY DEF Init, Cleared, Rows
<1>4. paper = [x |-> 0, y |-> 0, cells |-> [r \in 0 .. PaperRows - 1 |-> BlankRow]]
  BY DEF Init, Cleared, BlankPaper
<1>5. Clean(screen, Height) /\ Clean(paper, PaperRows)
  BY <1>1, <1>2, <1>3, <1>4 DEF Clean
<1>6. Shows(screen, paper)
  <2>1. Gone(paper) = 0
    BY <1>1, <1>4 DEF Gone
  <2>2. \A r \in Rows : r + 0 = r /\ (r < PaperRows => r \in 0 .. PaperRows - 1)
    BY SizeAssumption, PaperAssumption DEF Rows
  <2>3. \A r \in Rows : screen.cells[r] = BlankRow
    BY <1>3 DEF Rows
  <2>4. \A r \in 0 .. PaperRows - 1 : paper.cells[r] = BlankRow
    BY <1>4
  <2>5. \A r \in Rows :
          r + Gone(paper) < PaperRows => screen.cells[r] = paper.cells[r + Gone(paper)]
    BY <2>1, <2>2, <2>3, <2>4
  <2>6. screen.x = paper.x /\ screen.y + Gone(paper) = paper.y
    BY <1>3, <1>4, <2>1
  <2> QED
    BY <2>5, <2>6 DEF Shows
<1>7. Written
  BY <1>4, PaperAssumption DEF Init, Written, Owed, Budget, NoKey
<1>8. EchoShowsLine /\ RowIsFree
  BY DEF Init, EchoShowsLine, Editing, RowIsFree
<1> QED
  BY <1>5, <1>6, <1>7, <1>8 DEF ScreenInv, Fits

\* What the rows are counted with.
LEMMA Counts ==
  ASSUME LInv, ScreenInv
  PROVE  /\ ret.n \in Nat /\ presses \in Nat /\ ret.n <= presses /\ presses <= MaxPresses
         /\ MaxPresses \in Nat /\ PaperRows \in Nat /\ MaxPrinted \in Nat
         /\ Budget \in Nat /\ PaperRows > Budget + 1
         /\ printed \in Nat /\ printed <= MaxPrinted /\ unread \in Nat
         /\ Len(buffer) \in Nat /\ Owed \in Nat
         /\ paper.y \in Nat /\ paper.x \in Columns /\ screen.x \in Columns
<1>1. ret.n \in Nat /\ presses \in Nat /\ ret.n <= presses
  BY DEF LInv, Types, Presses, KeyIsNewer
<1>2. paper.y \in Nat /\ paper.x \in Columns /\ screen.x \in Columns
  BY PaperAssumption DEF ScreenInv, Fits, Clean
<1>3. printed \in Nat /\ unread \in Nat /\ Len(buffer) \in Nat
  BY DEF LInv, Types
<1>4. Owed \in Nat
  BY <1>3 DEF Owed
<1>5. presses <= MaxPresses /\ printed <= MaxPrinted
  BY DEF ScreenInv, Written
<1>6. \A k, l, p, q, n \in Nat :
        k <= l /\ p <= q /\ n > 2 * l + q + 1 => 2 * k + p \in Nat /\ n > (2 * k + p) + 1
  OBVIOUS
<1>7. ret.n <= MaxPresses
  BY <1>1, <1>5, PaperAssumption
<1>8. Budget \in Nat /\ PaperRows > Budget + 1
  BY <1>1, <1>3, <1>5, <1>6, <1>7, PaperAssumption DEF Budget
<1> QED
  BY <1>1, <1>2, <1>3, <1>4, <1>5, <1>8, PaperAssumption

\* There is paper for one more row while something is owed for it.
LEMMA RoomLeft ==
  ASSUME LInv, ScreenInv, NEW y \in Nat, NEW o \in Nat,
         y + (o + 1) <= Budget + 1 \/ y + o <= Budget - 1
  PROVE  /\ y + 1 < PaperRows /\ y < PaperRows
         /\ \A d \in {0, 1} : y + d < PaperRows
<1>1. Budget \in Nat /\ PaperRows \in Nat /\ PaperRows > Budget + 1
  BY Counts
<1>2. \A b, n \in Nat :
        (y + (o + 1) <= b + 1 \/ y + o <= b - 1) /\ n > b + 1 => y + 1 < n /\ y < n
  OBVIOUS
<1>3. y + 1 < PaperRows /\ y < PaperRows
  BY <1>1, <1>2
<1>4. y + 0 = y
  OBVIOUS
<1> QED
  BY <1>3, <1>4

LEMMA LengthIs ==
  ASSUME LInv
  PROVE  Len(buffer) \in Nat /\ unread \in Nat
BY DEF LInv, Types

\* What a program prints takes at most one row a character.
LEMMA PrintScreen ==
  ASSUME LInv, ScreenInv, print_object
  PROVE  ScreenInv'
<1>1. PICK y \in Nat : y = paper.y /\ y + (unread + 1) <= Budget + 1
  BY Counts DEF ScreenInv, Written, Owed, print_object
<1>2. PICK c : screen' = putch(screen, c) /\ paper' = Typed(paper, c)
  BY DEF print_object, Echo
<1>3. /\ pc' = "compute" /\ printed' = printed + 1 /\ printed' <= MaxPrinted
      /\ UNCHANGED <<ret, unread, presses>>
  BY Counts DEF print_object
<1>4. PICK d \in {0, 1} : d = Drops(paper.x, c)
  BY Counts, ColumnIs
<1>5. y + d < PaperRows
  BY <1>1, LengthIs, RoomLeft
<1>6. Fits(screen', paper') /\ paper'.y = y + d
  BY <1>1, <1>2, <1>4, <1>5, EchoFits DEF ScreenInv
<1>9. Budget' = Budget + 1
  <2>1. \A k, p \in Nat : 2 * k + (p + 1) = (2 * k + p) + 1
    OBVIOUS
  <2> QED
    BY <1>3, <2>1, Counts DEF Budget
<1>10. paper'.y + (unread + 1) <= Budget' + 1
  <2>1. \A u, b \in Nat : y + (u + 1) <= b + 1 => (y + d) + (u + 1) <= (b + 1) + 1
    OBVIOUS
  <2> QED
    BY <1>1, <1>6, <1>9, <2>1, Counts
<1>7. Written'
  BY <1>3, <1>10 DEF ScreenInv, Written, Owed
<1>8. EchoShowsLine' /\ RowIsFree'
  BY <1>3 DEF EchoShowsLine, Editing, RowIsFree
<1> QED
  BY <1>6, <1>7, <1>8 DEF ScreenInv

\* The prompt takes one row, for which the expression before it has left room.
LEMMA PromptScreen ==
  ASSUME LInv, ScreenInv, flisp_repl
  PROVE  ScreenInv'
<1>1. PICK y \in Nat : y = paper.y /\ y + (unread + 1) <= Budget + 1
  BY Counts DEF ScreenInv, Written, Owed, flisp_repl
<1>2. y + 1 < PaperRows
  BY <1>1, LengthIs, RoomLeft
<1>3. PICK s : s = putch(screen, "newline")
  OBVIOUS
<1>4. PICK p : p = Typed(paper, "newline")
  OBVIOUS
<1>5. Fits(s, p) /\ p.x = 0 /\ p.y = y + 1
  <2>1. Column(paper.x, "newline") = 0 /\ Drops(paper.x, "newline") = 1
    BY Counts, OwnChars
  <2> QED
    BY <1>1, <1>2, <1>3, <1>4, <2>1, EchoFits DEF ScreenInv
<1>6. 0 \in Columns /\ 0 + 1 < Width /\ 1 \in Columns /\ 1 + 1 < Width
  BY PromptAssumption, SizeAssumption DEF Columns
<1>7. PICK t : t = putch(s, ">")
  OBVIOUS
<1>8. PICK q : q = Typed(p, ">")
  OBVIOUS
<1>9. Fits(t, q) /\ q.x = 1 /\ q.y = y + 1
  <2>1. Column(0, ">") = 1 /\ Drops(0, ">") = 0
    BY <1>6, OwnChars, PromptAssumption
  <2>2. p.y + Drops(p.x, ">") = y + 1
    BY <1>1, <1>5, <2>1
  <2> QED
    BY <1>2, <1>5, <1>7, <1>8, <2>1, <2>2, EchoFits
<1>10. Fits(putch(t, Blank), Typed(q, Blank)) /\ Typed(q, Blank).y = y + 1
  <2>1. Drops(1, Blank) = 0
    BY <1>6, OwnChars, BlankAssumption
  <2>2. q.y + Drops(q.x, Blank) = y + 1
    BY <1>1, <1>9, <2>1
  <2> QED
    BY <1>2, <1>9, <2>2, EchoFits
<1>11. screen' = putch(t, Blank) /\ paper' = Typed(q, Blank)
  BY <1>3, <1>4, <1>7, <1>8 DEF flisp_repl, Prompt
<1>12. /\ pc' = "read" /\ first' = TRUE /\ UNCHANGED <<ret, unread, presses, printed>>
      /\ Budget' = Budget
  BY DEF flisp_repl, Budget
<1>13. Written'
  <2>1. paper'.y = y + 1 /\ (y + 1) + unread <= Budget + 1
    <3>1. \A u, b \in Nat : y + (u + 1) <= b + 1 => (y + 1) + u <= b + 1
      OBVIOUS
    <3> QED
      BY <1>1, <1>10, <1>11, <3>1, Counts
  <2> QED
    BY <1>12, <2>1 DEF ScreenInv, Written, Owed
<1>14. RowIsFree'
  <2>1. LineShown(screen', <<>>, 2)
    BY <1>3, <1>7, <1>11, PromptShows DEF ScreenInv, Fits
  <2>2. Lead' = 2
    BY <1>12 DEF Lead, PromptText
  <2> QED
    BY <2>1, <2>2 DEF RowIsFree, LineShown
<1>15. EchoShowsLine'
  BY <1>12 DEF EchoShowsLine, Editing
<1> QED
  BY <1>11, <1>13, <1>14, <1>15, <1>10 DEF ScreenInv

\* An expression uses up a part of the line, and so does a line that is begun.
LEMMA ReadScreen ==
  ASSUME LInv, ScreenInv, next_expr \/ rebuffer
  PROVE  ScreenInv'
<1>1. pc = "read" /\ UNCHANGED <<ret, screen, paper, presses, printed, first>>
      /\ Budget' = Budget
  BY DEF next_expr, rebuffer, Budget
<1>2. PICK y \in Nat : y = paper.y /\ y + unread <= Budget + 1
  BY <1>1, Counts DEF ScreenInv, Written, Owed
<1>3. CASE next_expr
  <2>1. pc' = "compute" /\ unread' \in Nat /\ unread' < unread
    BY <1>3 DEF next_expr
  <2>2. Written'
    BY <1>1, <1>2, <2>1, Counts DEF ScreenInv, Written, Owed
  <2>3. EchoShowsLine' /\ RowIsFree'
    BY <2>1 DEF EchoShowsLine, Editing, RowIsFree
  <2> QED
    BY <1>1, <2>2, <2>3 DEF ScreenInv
<1>4. CASE rebuffer
  <2>1. pc' = "wait" /\ buffer' = <<>>
    BY <1>4 DEF rebuffer
  <2>2. Written'
    BY <1>1, <1>2, <2>1, Counts DEF ScreenInv, Written, Owed
  <2>3. RowIsFree'
    BY <2>1 DEF RowIsFree
  <2>4. LineShown(screen, <<>>, Lead) /\ Lead' = Lead
    BY <1>1 DEF ScreenInv, RowIsFree, Lead
  <2>5. EchoShowsLine'
    BY <1>1, <2>1, <2>4 DEF EchoShowsLine, LineShown
  <2> QED
    BY <1>1, <2>2, <2>3, <2>5 DEF ScreenInv
<1> QED
  BY <1>3, <1>4

\* A key that gets stores or drops.
LEMMA StoreScreen ==
  ASSUME LInv, ScreenInv, gets_store
  PROVE  ScreenInv'
<1>1. PICK y \in Nat : y = paper.y /\ y + Len(buffer) <= Budget - 1
  BY Counts DEF ScreenInv, Written, Owed, gets_store
<1>2. pc = "edit" /\ pc' = "wait" /\ ret' = ret /\ presses' = presses
      /\ printed' = printed /\ Lead' = Lead /\ Budget' = Budget
  BY DEF gets_store, Lead, Budget
<1>3. CASE ~Room
  <2>1. UNCHANGED <<screen, paper, buffer, visible>>
    BY <1>3 DEF gets_store
  <2>2. Written'
    BY <1>1, <1>2, <2>1, Counts DEF ScreenInv, Written, Owed
  <2>3. EchoShowsLine' /\ RowIsFree'
    BY <1>2, <2>1 DEF ScreenInv, EchoShowsLine, Editing, RowIsFree
  <2> QED
    BY <2>1, <2>2, <2>3 DEF ScreenInv
<1>4. CASE Room
  <2>1. /\ screen' = putch(screen, ret.char) /\ paper' = Typed(paper, ret.char)
        /\ buffer' = Append(buffer, ret)
    BY <1>4 DEF gets_store, Echo
  <2>2. PICK d \in {0, 1} : d = Drops(paper.x, ret.char)
    BY Counts, ColumnIs
  <2>3. y + d < PaperRows
    BY <1>1, LengthIs, RoomLeft
  <2>4. Fits(screen', paper') /\ paper'.y = y + d
    BY <1>1, <2>1, <2>2, <2>3, EchoFits DEF ScreenInv
  <2>5. Len(buffer') = Len(buffer) + 1
    BY <2>1 DEF LInv, Types
  <2>9. paper'.y + Len(buffer') <= Budget + 1
    <3>1. \A l, b \in Nat : y + l <= b - 1 => (y + d) + (l + 1) <= b + 1
      OBVIOUS
    <3> QED
      BY <1>1, <2>4, <2>5, <3>1, Counts
  <2>8. Written'
    BY <1>2, <2>9 DEF ScreenInv, Written, Owed
  <2>6. ASSUME visible' PROVE LineShown(screen', buffer', Lead)
    <3>1. visible /\ ret.char \in Printable /\ screen'.x # 0
      BY <1>4, <2>6 DEF gets_store
    <3>2. LineShown(screen, buffer, Lead)
      BY <1>2, <3>1, EchoIs DEF ScreenInv, Editing
    <3>3. ret \in Presses /\ buffer \in Seq(Presses) /\ Clean(screen, Height)
      BY DEF LInv, Types, ScreenInv, Fits
    <3>4. LineShown(putch(screen, ret.char), Append(buffer, ret), Lead)
      BY <2>1, <3>1, <3>2, <3>3, LeadIs, StoreShows
    <3> QED
      BY <2>1, <3>4
  <2>7. EchoShowsLine' /\ RowIsFree'
    BY <1>2, <2>6 DEF EchoShowsLine, LineShown, RowIsFree
  <2> QED
    BY <2>4, <2>7, <2>8 DEF ScreenInv
<1> QED
  BY <1>3, <1>4

\* A key that is erased; the blank may have been written on the last column.
LEMMA BackspaceScreen ==
  ASSUME LInv, ScreenInv, gets_backspace
  PROVE  ScreenInv'
<1>1. PICK y \in Nat : y = paper.y /\ y + Len(buffer) <= Budget - 1
  BY Counts DEF ScreenInv, Written, Owed, gets_backspace
<1>2. pc = "edit" /\ pc' = "wait" /\ ret' = ret /\ presses' = presses /\ visible' = visible
      /\ printed' = printed /\ Lead' = Lead /\ Budget' = Budget
  BY DEF gets_backspace, Lead, Budget
<1>3. CASE buffer = <<>>
  <2>1. UNCHANGED <<screen, paper, buffer>>
    BY <1>3 DEF gets_backspace
  <2>2. Written'
    BY <1>1, <1>2, <2>1, Counts DEF ScreenInv, Written, Owed
  <2>3. EchoShowsLine' /\ RowIsFree'
    BY <1>2, <2>1 DEF ScreenInv, EchoShowsLine, Editing, RowIsFree
  <2> QED
    BY <2>1, <2>2, <2>3 DEF ScreenInv
<1>4. CASE buffer # <<>>
  <2>1. PICK s : s = putch(screen, "backspace")
    OBVIOUS
  <2>2. PICK p : p = Typed(paper, "backspace")
    OBVIOUS
  <2>3. PICK t : t = putch(s, Blank)
    OBVIOUS
  <2>4. PICK q : q = Typed(p, Blank)
    OBVIOUS
  <2>5. screen' = putch(t, "backspace") /\ paper' = Typed(q, "backspace") /\ buffer' = Front(buffer)
    BY <1>4, <2>1, <2>2, <2>3, <2>4 DEF gets_backspace, Erase
  <2>6. y + 1 < PaperRows /\ y < PaperRows
    BY <1>1, LengthIs, RoomLeft
  <2>7. Fits(s, p) /\ p.y = y /\ p.x \in Columns
    <3>1. Drops(paper.x, "backspace") = 0 /\ y + 0 = y
      BY Counts, OwnChars
    <3>2. Fits(s, p) /\ p.y = y
      BY <1>1, <2>1, <2>2, <2>6, <3>1, EchoFits DEF ScreenInv
    <3> QED
      BY <3>2 DEF Fits, Clean
  <2>8. PICK d \in {0, 1} : d = Drops(p.x, Blank)
    BY <2>7, ColumnIs
  <2>9. Fits(t, q) /\ q.y = y + d /\ q.x \in Columns
    <3>1. p.y + Drops(p.x, Blank) < PaperRows
      BY <1>1, <2>6, <2>7, <2>8, PaperAssumption
    <3>2. Fits(t, q) /\ q.y = y + d
      BY <2>3, <2>4, <2>7, <2>8, <3>1, EchoFits
    <3> QED
      BY <3>2 DEF Fits, Clean
  <2>10. Fits(screen', paper') /\ paper'.y = y + d
    <3>1. Drops(q.x, "backspace") = 0 /\ q.y + 0 = y + d
      BY <1>1, <2>9, OwnChars
    <3>2. q.y + Drops(q.x, "backspace") < PaperRows
      BY <1>1, <2>6, <2>8, <3>1, PaperAssumption
    <3> QED
      BY <2>5, <2>9, <3>1, <3>2, EchoFits
  <2>14. Len(buffer') = Len(buffer) - 1
    BY <1>4, <2>5, FrontOf DEF LInv, Types
  <2>15. paper'.y + Len(buffer') <= Budget + 1
    <3>1. \A l, b \in Nat : y + l <= b - 1 => (y + d) + (l - 1) <= b + 1
      OBVIOUS
    <3> QED
      BY <1>1, <2>10, <2>14, <3>1, Counts
  <2>11. Written'
    BY <1>2, <2>15 DEF ScreenInv, Written, Owed
  <2>12. ASSUME visible' PROVE LineShown(screen', buffer', Lead)
    <3>1. LineShown(screen, buffer, Lead)
      BY <1>2, <2>12, EchoIs DEF ScreenInv, Editing
    <3>2. buffer \in Seq(Presses) /\ Clean(screen, Height)
      BY DEF LInv, Types, ScreenInv, Fits
    <3> QED
      BY <1>4, <2>1, <2>3, <2>5, <3>1, <3>2, LeadIs, EraseShows
  <2>13. EchoShowsLine' /\ RowIsFree'
    BY <1>2, <2>12 DEF EchoShowsLine, LineShown, RowIsFree
  <2> QED
    BY <2>10, <2>11, <2>13 DEF ScreenInv
<1> QED
  BY <1>3, <1>4

\* Enter takes one row, and the next one is blank.
LEMMA NewlineScreen ==
  ASSUME LInv, ScreenInv, gets_newline
  PROVE  ScreenInv'
<1>1. PICK y \in Nat : y = paper.y /\ y + Len(buffer) <= Budget - 1
  BY Counts DEF ScreenInv, Written, Owed, gets_newline
<1>2. y + 1 < PaperRows
  BY <1>1, LengthIs, RoomLeft
<1>3. /\ screen' = putch(screen, "newline") /\ paper' = Typed(paper, "newline")
      /\ pc' = "read" /\ unread' = Len(buffer) + 1 /\ first' = FALSE
      /\ UNCHANGED <<ret, presses, printed>> /\ Budget' = Budget
  BY DEF gets_newline, Echo, Budget
<1>4. Drops(paper.x, "newline") = 1
  BY Counts, OwnChars
<1>5. Fits(screen', paper') /\ paper'.y = y + 1
  BY <1>1, <1>2, <1>3, <1>4, EchoFits DEF ScreenInv
<1>6. Written'
  <2>1. (y + 1) + (Len(buffer) + 1) <= Budget + 1
    <3>1. \A l, b \in Nat : y + l <= b - 1 => (y + 1) + (l + 1) <= b + 1
      OBVIOUS
    <3> QED
      BY <1>1, <3>1, Counts
  <2> QED
    BY <1>3, <1>5, <2>1 DEF ScreenInv, Written, Owed
<1>7. RowIsFree'
  <2>1. LineShown(screen', <<>>, 0)
    BY <1>3, NewlineShows DEF ScreenInv, Fits
  <2>2. Lead' = 0
    BY <1>3 DEF Lead
  <2> QED
    BY <2>1, <2>2 DEF RowIsFree, LineShown
<1>8. EchoShowsLine'
  BY <1>3 DEF EchoShowsLine, Editing
<1> QED
  BY <1>5, <1>6, <1>7, <1>8 DEF ScreenInv

\* getch and the interrupt write nothing; getch returns a newer key than before.
LEMMA QuietScreen ==
  ASSUME LInv, ScreenInv, Interrupt \/ getch_wait \/ getch_take \/ getch_clear \/ UNCHANGED vars
  PROVE  ScreenInv'
<1>1. UNCHANGED <<screen, paper, buffer, unread, printed, first, visible>>
  BY DEF Interrupt, keyboard_press, keyboard_release, getch_wait, getch_take, getch_clear, vars
<1>2. (pc' = "read" <=> pc = "read") /\ (Editing' <=> Editing) /\ Lead' = Lead
  BY DEF Interrupt, keyboard_press, keyboard_release, getch_wait, getch_take, getch_clear, vars,
         Editing, Lead
<1>3. EchoShowsLine' /\ RowIsFree'
  BY <1>1, <1>2 DEF ScreenInv, EchoShowsLine, RowIsFree, LineShown
<1>4. Written'
  <2>1. CASE getch_take
    <3>1. ret' = kb_key /\ pc' = "clear" /\ presses' = presses /\ kb_key.n > ret.n
      BY <2>1 DEF getch_take, LInv, KeyIsNewer
    <3>2. kb_key.n \in Nat /\ paper.y + Len(buffer) <= Budget + 1
      BY <2>1 DEF getch_take, LInv, Types, Presses, ScreenInv, Written, Owed
    <3>3. Budget' >= Budget + 2 /\ Budget' \in Nat
      <4>1. \A k, l, p \in Nat : l > k => 2 * l + p >= (2 * k + p) + 2 /\ 2 * l + p \in Nat
        OBVIOUS
      <4> QED
        BY <1>1, <3>1, <3>2, <4>1, Counts DEF Budget
    <3> QED
      BY <1>1, <3>1, <3>2, <3>3, Counts DEF ScreenInv, Written, Owed
  <2>2. CASE getch_wait \/ getch_clear
    BY <1>1, <2>2, Counts DEF getch_wait, getch_clear, ScreenInv, Written, Owed, Budget
  <2>3. CASE Interrupt \/ UNCHANGED vars
    <3>1. pc' = pc /\ ret' = ret /\ presses' <= MaxPresses
      BY <2>3, Counts DEF Interrupt, keyboard_press, keyboard_release, vars
    <3> QED
      BY <1>1, <3>1 DEF ScreenInv, Written, Owed, Budget
  <2> QED
    BY <2>1, <2>2, <2>3
<1> QED
  BY <1>1, <1>3, <1>4 DEF ScreenInv

\* LInv and ScreenInv hold in every state.
THEOREM ScreenInvariance == Spec => [](LInv /\ ScreenInv)
<1>1. Init => LInv /\ ScreenInv
  BY InitLine, InitScreen
<1>2. (LInv /\ ScreenInv) /\ [Next]_vars => (LInv /\ ScreenInv)'
  <2> SUFFICES ASSUME LInv, ScreenInv, [Next]_vars PROVE LInv' /\ ScreenInv'
    OBVIOUS
  <2>1. LInv'
    BY LineStep
  <2>2. ScreenInv'
    BY PrintScreen, PromptScreen, ReadScreen, StoreScreen, BackspaceScreen, NewlineScreen,
       QuietScreen
    DEF Next, Repl
  <2> QED
    BY <2>1, <2>2
<1> QED
  BY <1>1, <1>2, PTL DEF Spec

\* The screen shows the last rows of all that was written, however often it wraps and
\* scrolls, and the cursor stays on it (Keyboard.ShowsLastRows).
THEOREM LastRowsAreShown == Spec => []ShowsLastRows
<1>1. ScreenInv => ShowsLastRows
  BY PaperAssumption, SizeAssumption DEF ScreenInv, Fits, Clean, ShowsLastRows, Rows
<1> QED
  BY <1>1, ScreenInvariance, PTL

\* As long as every character of the line is echoed on one row, that row shows the line,
\* behind the prompt if it is the first line since the prompt (Keyboard.EchoShowsLine).
THEOREM LineIsShown == Spec => []EchoShowsLine
<1>1. ScreenInv => EchoShowsLine
  BY DEF ScreenInv
<1> QED
  BY <1>1, ScreenInvariance, PTL

=============================================================================
