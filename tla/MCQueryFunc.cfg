SPECIFICATION QuerySpec
CONSTANTS
  DBName     = "justsql"
  Froms      <- MCFroms
  FieldLists <- StructFieldLists
  NotIdent   <- MCNotIdent
  MaxResultFields = 16
  Hyphened   <- MCHyphened
  Words      <- MCWords
  Pascal     <- MCPascal
  ExprName   <- MCExprName
  NULL       = NULL
  Half       <- MCHalf
  ColumnType <- MCColumnType
  ExprType   <- MCExprType
  MaxQueryRows = 2
INVARIANTS
  TypeOK
  ResultFieldsIdentified
  SingleSource
  ExpandedEquivalent
  RejectedForCause
  MembersUnique
  EntriesFaithful
  QueryFailsForCause
PROPERTY
  ImplementsFieldList
