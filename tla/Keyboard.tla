------------------------------ MODULE Keyboard ------------------------------
(***************************************************************************)
(* Line input of the kernel: the keyboard interrupt of kernel/kb.c, which  *)
(* leaves the last key pressed in kb_key; getch, which waits for it; gets, *)
(* which edits a line and echoes it with putch (Screen); rebuffer of       *)
(* flisp_compat.c, with which the reader asks for a line; and flisp_repl,  *)
(* which prints a prompt, reads an expression and prints its value.        *)
(*                                                                         *)
(* An expression takes a part of a line or several lines, so a prompt may  *)
(* be followed by no line or by more than one.                             *)
(*                                                                         *)
(* The interrupt gate clears the interrupt flag, so the handler is one     *)
(* step; it comes between any two steps of getch.                          *)
(***************************************************************************)
EXTENDS Sequences, SequencesExt, Screen

CONSTANTS Keys, ShiftKeys,     \* scancodes
          kbdus, kbdus_shift,  \* what a key gives without and with shift
          Zero,                \* '\0': no key, or a key that has no character
          MaxLine,             \* MAX_LINE
          Output,              \* what programs print, character by character
          MaxPresses,          \* bound: keys pressed
          MaxPrinted           \* bound: characters printed by programs

KeyChars == Printable \cup {"backspace", "tab", "newline", "other", Zero}

ASSUME KeyAssumption ==
  /\ ShiftKeys \subseteq Keys
  /\ kbdus \in [Keys -> KeyChars] /\ kbdus_shift \in [Keys -> KeyChars]
  /\ \A k \in ShiftKeys : kbdus_shift[k] = Zero
ASSUME LineAssumption == MaxLine \in Nat /\ MaxLine >= 2
ASSUME PromptAssumption == ">" \in Printable /\ Width > 2
\* There is paper for two rows a key, one a character printed, and the first.
ASSUME PaperAssumption ==
  /\ MaxPresses \in Nat /\ MaxPrinted \in Nat /\ PaperRows \in Nat
  /\ PaperRows > 2 * MaxPresses + MaxPrinted + 1

VARIABLES
  down,      \* the shift keys held down (hardware)
  keystatus, \* the bit KEYSTAT_SHIFT of keystatus
  kb_key,    \* the last key pressed, with its number (history)
  pc,        \* where the REPL is: evaluating and printing, in next_expr, or in gets
  ret,       \* the local of getch
  buffer,    \* reader_buffer from its start to p: the line so far
  unread,    \* how much of the line, with its '\0', lies behind reader_bufferp
  screen,
  paper,     \* history: the same text on a sheet that does not scroll
  presses,   \* history: number of keys pressed
  printed,   \* history: number of characters printed by programs
  first,     \* history: the prompt has been printed and no line been got since
  both,      \* history: both shift keys have been down at once
  visible    \* history: every character of the line is echoed on one row

vars == <<down, keystatus, kb_key, pc, ret, buffer, unread, screen, paper, presses, printed,
          first, both, visible>>

NoKey == [char |-> Zero, n |-> 0]

\* putch of one character
Echo(c) ==
  /\ screen' = putch(screen, c)
  /\ paper' = Typed(paper, c)

\* The REPL prints its prompt, "\n> ".
Prompt ==
  /\ screen' = putch(putch(putch(screen, "newline"), ">"), Blank)
  /\ paper' = Typed(Typed(Typed(paper, "newline"), ">"), Blank)

\* putch('\b'), putch(' '), putch('\b')
Erase ==
  /\ screen' = putch(putch(putch(screen, "backspace"), Blank), "backspace")
  /\ paper' = Typed(Typed(Typed(paper, "backspace"), Blank), "backspace")

-----------------------------------------------------------------------------

Init ==
  /\ down = {} /\ keystatus = FALSE
  /\ kb_key = NoKey
  /\ pc = "compute"
  /\ ret = NoKey
  /\ buffer = <<>> /\ unread = 0
  /\ screen = Cleared /\ paper = BlankPaper
  /\ presses = 0 /\ printed = 0
  /\ first = FALSE /\ both = FALSE /\ visible = TRUE

(* The interrupt *)

\* keyboard_handler for a key that goes down (or repeats): the status is set
\* before the table is chosen.
keyboard_press(k) ==
  /\ presses < MaxPresses
  /\ presses' = presses + 1
  /\ down' = down \cup ({k} \cap ShiftKeys)
  /\ keystatus' = (keystatus \/ k \in ShiftKeys)
  /\ kb_key' = [char |-> IF keystatus' THEN kbdus_shift[k] ELSE kbdus[k], n |-> presses']
  /\ both' = (both \/ Cardinality(down') > 1)
  /\ UNCHANGED <<pc, ret, buffer, unread, screen, paper, printed, first, visible>>

\* mutant: the release of a shift key is not noticed
keyboard_releaseIgnored(k) ==
  /\ k \in down
  /\ down' = down \ {k}
  /\ UNCHANGED <<keystatus, kb_key, pc, ret, buffer, unread, screen, paper, presses,
                 printed, first, both, visible>>

\* keyboard_handler for a key that is released: only the status changes.
keyboard_release(k) ==
  /\ k \in down
  /\ down' = down \ {k}
  /\ keystatus' = ~keystatus
  /\ UNCHANGED <<kb_key, pc, ret, buffer, unread, screen, paper, presses, printed, first,
                 both, visible>>

-----------------------------------------------------------------------------
(* The REPL *)

\* Errors and the value of an expression are printed, and what its evaluation prints.
print_object ==
  /\ pc = "compute"
  /\ printed < MaxPrinted
  /\ printed' = printed + 1
  /\ \E c \in Output : Echo(c)
  /\ UNCHANGED <<down, keystatus, kb_key, pc, ret, buffer, unread, presses, first, both, visible>>

\* The turn of flisp_repl ends; the next one begins with the prompt.
flisp_repl ==
  /\ pc = "compute"
  /\ pc' = "read"
  /\ Prompt
  /\ first' = TRUE
  /\ UNCHANGED <<down, keystatus, kb_key, ret, buffer, unread, presses, printed, both, visible>>

\* next_expr has read an expression, the last of it from this line.  (A string without
\* end takes the '\0' as well.)
next_expr ==
  /\ pc = "read"
  /\ \E n \in 0 .. MaxLine : n < unread /\ unread' = n
  /\ pc' = "compute"
  /\ UNCHANGED <<down, keystatus, kb_key, ret, buffer, screen, paper, presses, printed, first,
                 both, visible>>

\* mutant: what was typed ahead is thrown away
rebufferFlushes ==
  /\ pc = "read"
  /\ pc' = "wait"
  /\ buffer' = <<>> /\ unread' = 0
  /\ kb_key' = NoKey
  /\ visible' = TRUE
  /\ UNCHANGED <<down, keystatus, ret, screen, paper, presses, printed, first, both>>

\* The reader is at the end of the line, in the middle of an expression or before it, or
\* at a comment: rebuffer, gets.
rebuffer ==
  /\ pc = "read"
  /\ pc' = "wait"
  /\ buffer' = <<>> /\ unread' = 0
  /\ visible' = TRUE
  /\ UNCHANGED <<down, keystatus, kb_key, ret, screen, paper, presses, printed, first, both>>

\* while (kb_key == 0);
getch_wait ==
  /\ pc = "wait"
  /\ kb_key.char # Zero
  /\ pc' = "take"
  /\ UNCHANGED <<down, keystatus, kb_key, ret, buffer, unread, screen, paper, presses,
                 printed, first, both, visible>>

\* ret = kb_key;
getch_take ==
  /\ pc = "take"
  /\ ret' = kb_key
  /\ pc' = "clear"
  /\ UNCHANGED <<down, keystatus, kb_key, buffer, unread, screen, paper, presses, printed,
                 first, both, visible>>

\* mutant: the key is left in kb_key
getch_clearForgotten ==
  /\ pc = "clear"
  /\ pc' = "edit"
  /\ UNCHANGED <<down, keystatus, kb_key, ret, buffer, unread, screen, paper, presses,
                 printed, first, both, visible>>

\* kb_key = 0; return ret;
getch_clear ==
  /\ pc = "clear"
  /\ kb_key' = NoKey
  /\ pc' = "edit"
  /\ UNCHANGED <<down, keystatus, ret, buffer, unread, screen, paper, presses, printed,
                 first, both, visible>>

\* counter < (n - 1)
Room == Len(buffer) < MaxLine - 1

\* mutant: the character is not erased from the screen
gets_backspaceKeepsEcho ==
  /\ pc = "edit" /\ ret.char = "backspace"
  /\ pc' = "wait"
  /\ IF buffer = <<>> THEN UNCHANGED <<buffer, screen, paper>>
     ELSE buffer' = Front(buffer) /\ Echo("backspace")
  /\ UNCHANGED <<down, keystatus, kb_key, ret, unread, presses, printed, first, both,
                 visible>>

gets_backspace ==
  /\ pc = "edit" /\ ret.char = "backspace"
  /\ pc' = "wait"
  /\ IF buffer = <<>> THEN UNCHANGED <<buffer, screen, paper>>
     ELSE buffer' = Front(buffer) /\ Erase
  /\ UNCHANGED <<down, keystatus, kb_key, ret, unread, presses, printed, first, both,
                 visible>>

\* Any other character, also '\0', is echoed and stored when there is room and
\* dropped when there is not.
gets_store ==
  /\ pc = "edit" /\ ret.char \notin {"backspace", "newline"}
  /\ pc' = "wait"
  /\ IF Room
       THEN /\ buffer' = Append(buffer, ret)
            /\ Echo(ret.char)
            /\ visible' = (visible /\ ret.char \in Printable /\ screen'.x # 0)
       ELSE UNCHANGED <<buffer, screen, paper, visible>>
  /\ UNCHANGED <<down, keystatus, kb_key, ret, unread, presses, printed, first, both>>

\* The line is terminated and the reader has it.
gets_newline ==
  /\ pc = "edit" /\ ret.char = "newline"
  /\ pc' = "read"
  /\ Echo("newline")
  /\ unread' = Len(buffer) + 1
  /\ first' = FALSE
  /\ UNCHANGED <<down, keystatus, kb_key, ret, buffer, presses, printed, both, visible>>

Interrupt == \E k \in Keys : keyboard_press(k) \/ keyboard_release(k)

Repl ==
  \/ print_object \/ flisp_repl \/ next_expr \/ rebuffer
  \/ getch_wait \/ getch_take \/ getch_clear
  \/ gets_backspace \/ gets_store \/ gets_newline

Next == Interrupt \/ Repl

\* The processor runs the REPL whenever it can go on; nobody has to type.
Spec == Init /\ [][Next]_vars /\ WF_vars(Repl)

-----------------------------------------------------------------------------
(* Properties *)

\* The line fits its buffer with the terminating '\0', however many keys are pressed
\* and erased, and holds distinct presses in the order in which they were made: keys
\* may be lost between an interrupt and getch, but none is read twice and none
\* overtakes another, wherever in getch the interrupt comes.
LineInOrder ==
  /\ Len(buffer) <= MaxLine - 1
  /\ \A i, j \in DOMAIN buffer : i < j => buffer[i].n < buffer[j].n
  /\ pc = "edit" /\ buffer # <<>> => Last(buffer).n < ret.n

\* gets has the line.
Editing == pc \in {"wait", "take", "clear", "edit"}

PromptText == <<">", Blank>>
\* the column at which the line begins
Lead == IF first THEN Len(PromptText) ELSE 0

\* What the user sees is what the reader gets: while every character of the line
\* is echoed and the line has not wrapped, the row of the cursor shows it and nothing
\* after it, and before it the prompt if it is the first line since the prompt, but
\* nothing if it continues an expression or follows a blank line; whatever programs
\* have printed before.
EchoShowsLine ==
  Editing /\ visible =>
    /\ screen.x = Lead + Len(buffer)
    /\ \A i \in Columns :
         screen.cells[screen.y][i] =
           IF i < Lead THEN PromptText[i + 1]
           ELSE IF i - Lead + 1 \in DOMAIN buffer THEN buffer[i - Lead + 1].char
           ELSE Blank

\* The screen shows the last rows of everything written, and the cursor is on it:
\* wrapping and scrolling in one call never loses, repeats or smears a row, and putch
\* never writes outside video memory.
ShowsLastRows ==
  /\ paper.y < PaperRows
  /\ screen.x \in Columns /\ screen.y \in Rows
  /\ Shows(screen, paper)

\* As long as no two shift keys are used together the shift status is right.
ShiftFollowsOneKey == ~both => (keystatus <=> down # {})

\* Enter ends the line also when it was pressed while the REPL was computing or
\* an earlier key was being edited: unless another key follows, or it comes just
\* before kb_key is cleared, gets returns with it.
EnterEndsLine ==
  \A n \in 1 .. MaxPresses :
    (kb_key = [char |-> "newline", n |-> n] /\ pc # "clear")
      ~> (presses > n \/ (pc = "read" /\ ret.n = n))

=============================================================================
