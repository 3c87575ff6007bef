\* The library as the Makefile compiles it, without __LITTLE_ENDIAN: doubles of 18
\* bits, all of them.
CONSTANTS
  WordBits = 9
  ExpBits = 5
  Huge = 120284
  LittleEndian = FALSE
  Misread <- MCMisread
  Far = 64
  Functions = {"FLOOR", "CEILING", "ABS", "SQRT"}
  Shifts <- MCShifts
  Divisors <- MCDivisors
SPECIFICATION Spec
INVARIANTS
  RoundsToIntegers
  SqrtCorrectlyRounded
  ScalesExactly
  RemaindersExact
