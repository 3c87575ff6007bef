\* flisp_repl on the texts of Reader.cfg.
CONSTANTS
  Texts <- MCTexts
  MaxNils = 0
  MaxErrors = 1
  Drivers = {"repl"}
SPECIFICATION Spec
PROPERTIES
  ListedIsReported
CHECK_DEADLOCK FALSE
