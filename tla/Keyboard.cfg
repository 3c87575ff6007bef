\* A line of three characters, the second of which wraps behind the prompt, and four presses; the REPL may wait for ever for a key.
CONSTANTS
  Keys = {"a", "lshift", "rshift", "control", "back", "tab", "enter"}
  ShiftKeys = {"lshift", "rshift"}
  kbdus <- MCkbdus
  kbdus_shift <- MCkbdus_shift
  Zero = "zero"
  MaxLine = 4
  Width = 4
  Height = 2
  TabStop = 2
  Printable = {"a", "A", " ", ">"}
  Blank = " "
  PaperRows = 11
  Output = {"a"}
  MaxPresses = 4
  MaxPrinted = 1
SPECIFICATION Spec
INVARIANTS
  LineInOrder
  EchoShowsLine
  ShowsLastRows
  ShiftFollowsOneKey
PROPERTIES
  EnterEndsLine
CHECK_DEADLOCK FALSE
