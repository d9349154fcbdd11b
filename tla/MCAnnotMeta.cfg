SPECIFICATION Spec
CONSTANTS
  Statements <- MCStatements
  Idents <- MCIdents
  MaxStmts = 3
INVARIANTS TypeOK TextAccounted OnePrefix Gathered NoNamesDistinct RefusedForCause
CHECK_DEADLOCK FALSE
