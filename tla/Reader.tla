------------------------------- MODULE Reader -------------------------------
(***************************************************************************)
(* The reader (reader.c) and the three loops that feed on it: load_core,   *)
(* load_file and flisp_repl.  The reader takes words from one line buffer, *)
(* which it refills through refresh_buffer_f whenever it is empty; whether *)
(* its source is exhausted is known to the refill function, and the loops  *)
(* look at that in between two expressions.                                *)
(*                                                                         *)
(* Words are the parentheses, the dot, "'" (for the four read macros,      *)
(* which differ in the symbol they insert), "comment" (a semicolon with    *)
(* the rest of its line) and atoms: numbers, symbols and strings that end  *)
(* on their line.  Atoms of a text are different, so that their order      *)
(* shows.  A value is the sequence of words it is printed with, a list     *)
(* whose car is QUOTE being printed with "'"; NULL is printed as the empty *)
(* list.                                                                   *)
(*                                                                         *)
(* Not modelled: lines of MAX_LINE characters and more, words that touch,  *)
(* unterminated strings, and a heap that is full.                          *)
(***************************************************************************)
EXTENDS Integers, SequencesExt

CONSTANTS
  Texts,      \* sources: their lines, the last of which no newline ends
  MaxNils,    \* bound on the refills after the end of a text
  MaxErrors,  \* bound on the errors of one evaluation
  Drivers     \* loops to look at: "core", "file", "repl"

Marks == {"(", ")", ".", "'", "comment"}
Null == <<"(", ")">>
Words(lines) == FlattenSeq(lines)

\* A comment is the last word of its line.
ASSUME TextAssumption ==
  \A t \in Texts :
    /\ t # <<>> /\ t \in Seq(Seq(STRING))
    /\ \A i \in DOMAIN t : \A j \in 1 .. Len(t[i]) - 1 : t[i][j] # "comment"
ASSUME BoundAssumption == MaxNils \in Nat /\ MaxErrors \in Nat
ASSUME DriverAssumption == Drivers \subseteq {"core", "file", "repl"}

VARIABLES
  driver,     \* the loop that calls next_expr
  text,       \* the source
  taken,      \* how many of its lines the refill function has taken
  ended,      \* rebuffer_corep = NULL, or feof(readfile)
  line,       \* what fgets stored last: it stays there when fgets fails
  buffer,     \* words from reader_bufferp on
  stack,      \* calls of read_list and next_expr, the last one is active
  pc,         \* "read" a word, "return" val, "eval" it, "print" it, or "done"
  val,        \* the value returned
  nils,       \* refills after the end
  evaluated,  \* the values given to eval
  signalled,  \* how many errors the last evaluation signalled
  errors,     \* error_p: who signalled, the newest first
  reported    \* what print_errors has printed since that evaluation began

source == <<text, taken, ended, line, nils>>
loop == <<driver, evaluated, signalled, reported>>
vars == <<driver, text, taken, ended, line, buffer, stack, pc, val, nils,
          evaluated, signalled, errors, reported>>

\* load_file is given a file that is not empty.
Init ==
  /\ driver \in Drivers
  /\ text \in Texts /\ (driver = "file" => text # <<<<>>>>)
  /\ taken = 0 /\ ended = FALSE /\ line = <<>> /\ nils = 0
  /\ buffer = <<>> /\ stack = <<>>
  /\ pc = "read" /\ val = Null
  /\ evaluated = <<>> /\ signalled = 0 /\ errors = <<>> /\ reported = <<>>

-----------------------------------------------------------------------------
(* Refilling the buffer *)

NextLine == text[taken + 1]
IsLast == taken + 1 = Len(text)

\* The pointer becomes NULL as soon as the last line is in the buffer.
rebuffer_core ==
  /\ driver = "core" /\ ~ended
  /\ taken' = taken + 1
  /\ ended' = IsLast
  /\ buffer' = NextLine
  /\ UNCHANGED <<line, nils>>

\* fgets meets the end of the file on a line without newline. When there is
\* nothing left to read it leaves the old line where it is.
rebuffer_file ==
  /\ driver = "file" /\ ~ended
  /\ taken' = taken + 1
  /\ ended' = IsLast
  /\ line' = IF IsLast /\ NextLine = <<>> THEN line ELSE NextLine
  /\ buffer' = line'
  /\ UNCHANGED nils

\* A line from the keyboard, if one is typed.
rebuffer_repl ==
  /\ driver = "repl" /\ taken < Len(text)
  /\ taken' = taken + 1
  /\ buffer' = NextLine
  /\ UNCHANGED <<ended, line, nils>>

\* Behind the end of their source the other two supply "NIL", for ever.
PastEnd ==
  /\ ended /\ nils < MaxNils
  /\ nils' = nils + 1
  /\ buffer' = <<"NIL">>
  /\ UNCHANGED <<taken, ended, line>>

Refresh ==
  /\ pc = "read" /\ buffer = <<>>
  /\ rebuffer_core \/ rebuffer_file \/ rebuffer_repl \/ PastEnd
  /\ UNCHANGED <<text, loop, stack, pc, val, errors>>

-----------------------------------------------------------------------------
(* Words: read_list, and next_expr for one expression of it *)

Frame(kind, items) == [kind |-> kind, items |-> items]

\* Where the next word is read: in the loop of read_list, behind a dotted tail,
\* or in next_expr, called for a quoted expression, a dotted tail or by a loop.
Mode == IF stack = <<>> THEN "top" ELSE Last(stack).kind
Word == Head(buffer)
InExpr == Mode \in {"top", "quote", "dot"}
Items == Last(stack).items

NextWord ==
  /\ pc = "read" /\ buffer # <<>>
  /\ buffer' = Tail(buffer)
  /\ UNCHANGED <<source, loop>>

Calls(kind) ==
  /\ stack' = Append(stack, Frame(kind, <<>>))
  /\ UNCHANGED <<pc, val, errors>>

Returns(v) == pc' = "return" /\ val' = v

error == errors' = <<"reader">> \o errors

Open == NextWord /\ Word = "(" /\ Mode # "close" /\ Calls("list")

ReadMacro == NextWord /\ Word = "'" /\ Mode # "close" /\ Calls("quote")

\* The rest of the line is dropped with it.
Comment ==
  /\ NextWord /\ Word = "comment"
  /\ Mode # "close"
  /\ UNCHANGED <<stack, pc, val, errors>>

Atom ==
  /\ NextWord /\ Word \notin Marks
  /\ Mode # "close"
  /\ Returns(<<Word>>)
  /\ UNCHANGED <<stack, errors>>

CloseList ==
  /\ NextWord /\ Word = ")"
  /\ Mode = "list"
  /\ Returns(<<"(">> \o Items \o <<")">>)
  /\ stack' = Front(stack)
  /\ UNCHANGED errors

\* A word that cannot begin an expression.
Unmatched ==
  /\ NextWord /\ Word \in {")", "."}
  /\ InExpr
  /\ error
  /\ Returns(Null)
  /\ UNCHANGED stack

\* A dot before the first item gives up the list, what follows is read anew.
DotTooEarly ==
  /\ NextWord /\ Word = "."
  /\ Mode = "list" /\ Items = <<>>
  /\ error
  /\ Returns(Null)
  /\ stack' = Front(stack)

Dot ==
  /\ NextWord /\ Word = "."
  /\ Mode = "list" /\ Items # <<>>
  /\ stack' = Append(Front(stack), Frame("dot", Items))
  /\ UNCHANGED <<pc, val, errors>>

\* A list as the tail continues the list before the dot.
Dotted(items, tail) ==
  CASE tail[1] = "(" -> <<"(">> \o items \o Tail(tail)
    [] tail[1] = "'" -> <<"(">> \o items \o <<"quote">> \o Tail(tail) \o <<")">>
    [] OTHER -> <<"(">> \o items \o <<".">> \o tail \o <<")">>

\* mutant: the closing parenthesis is looked at but stays in the buffer.
AfterTailPeeks ==
  /\ pc = "read" /\ buffer # <<>>
  /\ Mode = "close"
  /\ \/ Word = ")" /\ Returns(Items) /\ UNCHANGED errors
     \/ Word # ")" /\ Returns(Null) /\ error
  /\ stack' = Front(stack)
  /\ UNCHANGED <<buffer, source, loop>>

\* Behind a dotted tail there must be a parenthesis, and not even a comment.
AfterTail ==
  /\ NextWord
  /\ Mode = "close"
  /\ \/ Word = ")" /\ Returns(Items) /\ UNCHANGED errors
     \/ Word # ")" /\ Returns(Null) /\ error
  /\ stack' = Front(stack)

\* The callers of next_expr and read_list take their value.
Return ==
  /\ pc = "return"
  /\ \/ /\ Mode = "top"
        /\ pc' = "eval"
        /\ UNCHANGED <<stack, val>>
     \/ /\ Mode = "quote"
        /\ val' = <<"'">> \o val
        /\ stack' = Front(stack)
        /\ UNCHANGED pc
     \/ /\ Mode = "list"
        /\ stack' = Append(Front(stack), Frame("list", Items \o val))
        /\ pc' = "read" /\ UNCHANGED val
     \/ /\ Mode = "dot"
        /\ stack' = Append(Front(stack), Frame("close", Dotted(Items, val)))
        /\ pc' = "read" /\ UNCHANGED val
  /\ UNCHANGED <<source, buffer, loop, errors>>

Read ==
  \/ Refresh
  \/ Open \/ ReadMacro \/ Comment \/ Atom \/ CloseList \/ Unmatched
  \/ DotTooEarly \/ Dot \/ AfterTail
  \/ Return

-----------------------------------------------------------------------------
(* The loops *)

\* mutant: the loop looks for the end before it evaluates what it has read
load_coreLooksFirst ==
  /\ driver = "core" /\ pc = "eval"
  /\ evaluated' = IF ended THEN evaluated ELSE Append(evaluated, val)
  /\ pc' = IF ended THEN "done" ELSE "read"
  /\ UNCHANGED <<driver, source, buffer, stack, val, signalled, errors, reported>>

\* mutant: the loop waits for an expression that reads as NULL
load_coreUntilNull ==
  /\ driver = "core" /\ pc = "eval"
  /\ evaluated' = Append(evaluated, val)
  /\ pc' = IF val = Null THEN "done" ELSE "read"
  /\ UNCHANGED <<driver, source, buffer, stack, val, signalled, errors, reported>>

\* load_core evaluates and then looks whether there is more.
load_core ==
  /\ driver = "core" /\ pc = "eval"
  /\ evaluated' = Append(evaluated, val)
  /\ pc' = IF ended THEN "done" ELSE "read"
  /\ UNCHANGED <<driver, source, buffer, stack, val, signalled, errors, reported>>

\* load_file stops also when it has read NULL.
load_file ==
  /\ driver = "file" /\ pc = "eval"
  /\ evaluated' = Append(evaluated, val)
  /\ pc' = IF ended \/ val = Null THEN "done" ELSE "read"
  /\ UNCHANGED <<driver, source, buffer, stack, val, signalled, errors, reported>>

error_clear == <<>>

\* (quit) leaves flisp_repl before it is evaluated.
ReplQuits ==
  /\ driver = "repl" /\ pc = "eval"
  /\ val[1] = "(" /\ val[2] = "QUIT"
  /\ pc' = "done"
  /\ UNCHANGED <<loop, source, buffer, stack, val, errors>>

\* error_clear, eval, print_errors: n errors are signalled.
ReplEval(n) ==
  /\ driver = "repl" /\ pc = "eval"
  /\ ~(val[1] = "(" /\ val[2] = "QUIT")
  /\ evaluated' = Append(evaluated, val)
  /\ signalled' = n
  /\ errors' = [i \in 1 .. n |-> "eval"] \o error_clear
  /\ reported' = errors'
  /\ pc' = "print"
  /\ UNCHANGED <<driver, source, buffer, stack, val>>

\* mutant: the list is not cleared a second time
ReplPrintKeepsErrors ==
  /\ driver = "repl" /\ pc = "print"
  /\ reported' = reported \o errors
  /\ pc' = "read"
  /\ UNCHANGED <<driver, source, buffer, stack, val, evaluated, signalled, errors>>

\* error_clear, print_object, print_errors.
ReplPrint ==
  /\ driver = "repl" /\ pc = "print"
  /\ errors' = error_clear
  /\ reported' = reported \o errors'
  /\ pc' = "read"
  /\ UNCHANGED <<driver, source, buffer, stack, val, evaluated, signalled>>

Loop ==
  \/ load_core \/ load_file
  \/ ReplQuits \/ (\E n \in 0 .. MaxErrors : ReplEval(n)) \/ ReplPrint

Next == Read \/ Loop

\* Loading is straight-line code; at the keyboard nobody has to type.
Spec == Init /\ [][Next]_vars /\ WF_vars(driver # "repl" /\ Next)

-----------------------------------------------------------------------------
(* What a text means, said without a stack and without lines *)

\* Parentheses open behind the word i.
Depth(w, i) ==
  Cardinality({j \in 1 .. i : w[j] = "("}) - Cardinality({j \in 1 .. i : w[j] = ")"})

\* The first of the words from i on that is not in S; Len(w) + 1 if there is none.
Skip(w, i, S) ==
  CHOOSE k \in i .. Len(w) + 1 :
    /\ k <= Len(w) => w[k] \notin S
    /\ \A j \in i .. k - 1 : w[j] \in S

\* The last word of the expression that begins at i.
ExprEnd(w, i) ==
  LET k == Skip(w, i, {"'", "comment"})
  IN  IF k > Len(w) \/ w[k] # "(" THEN k
      ELSE CHOOSE j \in k + 1 .. Len(w) :
             /\ w[j] = ")" /\ Depth(w, j) = Depth(w, k - 1)
             /\ \A h \in k + 1 .. j - 1 : Depth(w, h) > Depth(w, k - 1)

BeginsExpr(w, i) ==
  LET k == Skip(w, i, {"'", "comment"}) IN k <= Len(w) /\ w[k] \notin {")", "."}

\* The words i are a dot behind an item, before the last expression of its list.
DotInPlace(w, i) ==
  /\ Depth(w, i) > 0
  /\ \E j \in 1 .. i - 1 :
       w[j] \notin {"(", ".", "'", "comment"} /\ \A h \in j + 1 .. i - 1 : w[h] = "comment"
  /\ BeginsExpr(w, i + 1)
  /\ ExprEnd(w, i + 1) < Len(w) /\ w[ExprEnd(w, i + 1) + 1] = ")"

\* The words are a sequence of expressions.
WellFormed(w) ==
  /\ \A i \in DOMAIN w : Depth(w, i) >= 0
  /\ Depth(w, Len(w)) = 0
  /\ \A i \in DOMAIN w :
       /\ w[i] = "'" => BeginsExpr(w, i + 1)
       /\ w[i] = "." => DotInPlace(w, i)

\* The words as the values they stand for are printed: without comments, and
\* without the dot and the parentheses of a list that is a dotted tail.
Printed(w) ==
  LET dots == {i \in DOMAIN w : w[i] = "."}
      tail(i) == Skip(w, i + 1, {"comment"})
      lists == {i \in dots : w[tail(i)] = "("}
      quotes == {i \in dots : w[tail(i)] = "'"}
      dropped == {i \in DOMAIN w : w[i] = "comment"} \union lists \union quotes
                   \union {tail(i) : i \in lists}
                   \union {ExprEnd(w, i + 1) : i \in lists}
      word(i) == IF \E d \in quotes : i = tail(d) THEN "quote" ELSE w[i]
  IN  FlattenSeq([i \in DOMAIN w |-> IF i \in dropped THEN <<>> ELSE <<word(i)>>])

\* The words that have been read, until the end of the text is reached.
Consumed ==
  LET w == Words(SubSeq(text, 1, taken)) IN SubSeq(w, 1, Len(w) - Len(buffer))

-----------------------------------------------------------------------------
(* Properties *)

\* What has been evaluated between two expressions is what the source says so far,
\* each expression once and in order, however it is laid out on lines and
\* commented, for all three loops (read_list, next_expr, the refill functions).
AsWritten ==
  pc = "read" /\ stack = <<>> /\ ~ended /\ WellFormed(Consumed) =>
    FlattenSeq(evaluated) = Printed(Consumed)

\* A text whose last line ends with a newline, as that of load_core does, is
\* evaluated completely, although the loops look for its end only between
\* expressions; then one expression is evaluated that is not in the text.
LoadComplete ==
  pc = "done" /\ ended /\ Last(text) = <<>> /\ WellFormed(Words(text)) =>
    /\ evaluated # <<>>
    /\ FlattenSeq(Front(evaluated)) = Printed(Words(text))
    /\ driver = "core" => Last(evaluated) = <<"NIL">>

\* Loading a text that is well formed ends, although its source then supplies NIL
\* for ever and the reader cannot tell that from the text (rebuffer_core, rebuffer).
LoadEnds == (ended /\ WellFormed(Words(text))) ~> pc = "done"

\* When the REPL reads again, every error of the last evaluation has been reported
\* exactly once and none of an earlier one is reported with them, although print_errors
\* comes twice in a turn, before and after the value is printed (flisp_repl).
ErrorsReportedOnce ==
  driver = "repl" /\ pc # "print" =>
    Cardinality({i \in DOMAIN reported : reported[i] = "eval"}) = signalled

\* README.md:112 says that flisp keeps a list of error messages and reports them at the
\* REPL: what leaves the list has been reported.
ListedIsReported ==
  [][driver = "repl" => IsSuffix(errors, errors') \/ IsSuffix(errors, reported)]_vars

\* main.c:219 says that load_file evaluates the contents of a file. (It may also
\* evaluate NIL at the end of it, which does no harm.)
FileEvaluatedOnce ==
  driver = "file" /\ pc = "done" /\ ended /\ WellFormed(Words(text)) =>
    SelectSeq(FlattenSeq(evaluated), LAMBDA w : w # "NIL") = Printed(Words(text))

=============================================================================
