\* A pool of three slots in an 8-bit word whose int has 5 bits: bits 3 and 4 (the sign of
\* the int) lie past the table, 5 and 6 are out of ctz's sight, 7 is the sign of the word,
\* as 16..30, 31, 32..62 and 63 are in the program.
SPECIFICATION PoolSpec
CONSTANTS
  Size = 3
  IntBits = 5
  WordBits = 8
  Sock = {3, 4}
INVARIANTS
  BitsMatchSlots
  CtzDefined
PROPERTIES
  LeakIsPermanent
  ImplementsAllocator
