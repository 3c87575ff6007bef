----------------------------- MODULE MCKeyboard -----------------------------
(***************************************************************************)
(* Keyboard with one letter, two shift keys, backspace, tab, Enter and    *)
(* Control, which the table without shift maps to the code 4.              *)
(***************************************************************************)
EXTENDS Keyboard

MCkbdus ==
  [a |-> "a", lshift |-> "other", rshift |-> "other", control |-> "other",
   back |-> "backspace", tab |-> "tab", enter |-> "newline"]
MCkbdus_shift ==
  [a |-> "A", lshift |-> Zero, rshift |-> Zero, control |-> Zero,
   back |-> "backspace", tab |-> "tab", enter |-> "newline"]

=============================================================================
