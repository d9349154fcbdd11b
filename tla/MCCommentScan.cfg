SPECIFICATION FairSpec
CONSTANTS
  Bytes <- MCBytes
  MaxLen = 5
INVARIANTS
  TypeOK
  SlicesValid
  FindsComments
PROPERTY
  Terminates
