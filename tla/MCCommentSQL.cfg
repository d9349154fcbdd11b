SPECIFICATION Spec
CONSTANTS
  Bytes <- SQLBytes
  MaxLen = 4
INVARIANTS
  OnlySQLComments
