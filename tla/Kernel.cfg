SPECIFICATION Spec
CONSTANTS
  Lines <- MCLines
  Faults <- MCFaults
  Maps <- MCMaps
  Word = 64
  KERNEL_SIZE = 2
  SYMTAB_SIZE = 2
  HEAP_SIZE = 2
  MaxRequests = 3
INVARIANTS
  NoStrayVector
  NeverResets
  Acknowledged
  KeyboardListens
  LayoutFits
PROPERTIES
  RequestsServed
CHECK_DEADLOCK FALSE
