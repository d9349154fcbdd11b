SPECIFICATION Spec
CONSTANTS
  NULL     = NULL
  Half     <- MCHalf
  Schemas  <- MCSchemas
  Words    <- MCWords
  Programs <- MCPrograms
  MaxRows  = 2
INVARIANTS
  TypeOK
  AccessorsFit
  StopsForCause
  DeclaredOnce
  ReadBack
  ReadsForCause
PROPERTY
  OwnRowOnly
\* Code that was not made, or does not compile, is not run.
CHECK_DEADLOCK FALSE
