SPECIFICATION Spec
CONSTANTS
  Bits = 5
  Starts <- MCAllStarts
  SlotLists <- MCSlotLists
  Atoms <- MCAtoms
  Doubles <- MCDoubles
  MaxCalls = 2
INVARIANTS
  ListsAreNew
  LengthTellsCycles
  SlotsReadBack
  EqualIsSameTree
  PrintedReadsBack
  TemplateFilled
PROPERTIES
  OnlySettersWrite
CHECK_DEADLOCK FALSE
