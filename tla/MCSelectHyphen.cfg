SPECIFICATION Spec
CONSTANTS
  DBName     = "justsql"
  Froms      <- HyphenFroms
  FieldLists <- HyphenFieldLists
  NotIdent   <- MCNotIdent
  MaxResultFields = 16
  Hyphened   <- MCHyphened
INVARIANTS
  ExpandedEquivalent
