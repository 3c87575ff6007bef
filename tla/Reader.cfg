\* Three lines; after two NILs the reader waits, as the REPL does at the end of a text.
CONSTANTS
  Texts <- MCTexts
  MaxNils = 2
  MaxErrors = 2
  Drivers = {"core", "file", "repl"}
SPECIFICATION Spec
INVARIANTS
  AsWritten
  LoadComplete
  ErrorsReportedOnce
PROPERTIES
  LoadEnds
CHECK_DEADLOCK FALSE
