\* symbol.c:34 against the pointer that symbol_init writes across the end.
CONSTANTS
  TableSize = 20
  Word = 2
  Names = {"NIL", "T", "X", "Y", "LONG"}
  Gensym = "GENSYM"
  Length <- MCLength
  Boot <- MCBoot
  NULL = NULL
  MaxGensyms = 3
SPECIFICATION SymbolSpec
INVARIANTS
  BootNamesFound
