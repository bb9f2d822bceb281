\* Blocks of 6 bytes, bytes of 3 bits (a varint carries 2 in each), integers
\* of 5 bits: 5 = 2*2 + 1 as 32 = 4*7 + 4.
CONSTANTS
  BaseSize = 6
  Group = 2
  Bits = 5
  Items <- MCItems
  MaxItems = 3
  MaxBytes = 12
  MaxSeeks = 1
  MaxFails = 1
SPECIFICATION WireSpec
\* The user stops when it has read everything, the sender when it returns.
CHECK_DEADLOCK FALSE
INVARIANTS ArraySound ValuesKept LinePrefix
