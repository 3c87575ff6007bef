\* Six words per space, of which five are used: the table of globals and a cell, a
\* closure or another table, with leaves, sharing and pointing at each other in
\* every way; every step is compared with ObjectGraph.
CONSTANTS
  HeapWords = 6
  Kinds  <- MCKinds
  Header <- MCHeader
  Block  <- MCBlock
  Slots  <- MCSlots
  Keeps  <- MCKeeps
  RawBlocks = {1}
  Temps  = {t1}
  Ids    = {1, 2, 3, 4, 5}
  NULL   = NULL
SPECIFICATION Spec
INVARIANTS
  NoDangling
  CopyFits
  CopiesMirrorOriginals
  OnlyReachableKept
PROPERTIES
  CollectionEnds
  RefinesObjectGraph
\* the program may end in a fault (NewFaults)
CHECK_DEADLOCK FALSE
