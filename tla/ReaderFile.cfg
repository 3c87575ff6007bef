\* load_file on the texts of Reader.cfg whose last line ends with a newline.
CONSTANTS
  Texts <- MCFileTexts
  MaxNils = 2
  MaxErrors = 0
  Drivers = {"file"}
SPECIFICATION Spec
INVARIANTS
  FileEvaluatedOnce
CHECK_DEADLOCK FALSE
