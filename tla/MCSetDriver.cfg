SPECIFICATION Spec
CONSTANTS
  NULL     = NULL
  Half     <- MCHalf
  Schemas  <- SetOnly
  Words    <- MCWords
  Programs <- NoProgram
  MaxRows  = 1
INVARIANT
  MentionsImported
\* Code that does not compile is not run.
CHECK_DEADLOCK FALSE
