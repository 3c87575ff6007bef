\* Names: twenty bytes, the two names of symbol_init and three or four more.
\* Globals: five sizes, 2 to 9, and four keys: two or more resizes, collisions before
\* and after them, and a handle on a table that a resize has replaced.
\* Frames: two variables; a LET, DO, call or macro in another, and a SET! in both.
\* Once MaxFrames frames have been pushed no body is entered any more, so the checker
\* stops there: that is the bound's doing, not the program's.
CONSTANTS
  TableSize = 20
  Word = 2
  Names = {"NIL", "T", "X", "Y", "LONG"}
  Gensym = "GENSYM"
  Length <- MCLength
  Boot <- MCBoot
  NULL = NULL
  MaxGensyms = 3
  k1 = k1
  k2 = k2
  k3 = k3
  k4 = k4
  Keys = {k1, k2, k3, k4}
  Values = {1, 2}
  sxhash <- MCsxhash
  InitSize = 2
  Absent = Absent
  Vars = {"x", "y"}
  NIL = NIL
  Vals = {NIL, 1}
  Unbound = Unbound
  ParamLists <- MCParamLists
  MaxArgs = 2
  MaxDepth = 2
  MaxFrames = 2
  MaxClosures = 1
SPECIFICATION MCSpec
INVARIANTS
  TableIntact
  SymbolsAreNames
  LoadFactor
  AtMostOneMisplaced
  OthersReadBack
  FramesBalanced
  BoundVariablesAreLexical
PROPERTIES
  SetChangesOneVariable
CHECK_DEADLOCK FALSE
