SPECIFICATION Spec
CONSTANTS
  PkgPaths   <- MCPaths
  ScopeNames = {"user.tb.go", "dml.sql.go"}
  Stems      <- MCStems
  LeadIdent  <- MCLeadIdent
  Anonymous  <- MCAnonymous
  Exact      <- MCExact
INVARIANTS
  TypeOK
  NamesUnique
  ImportsResolve
  NoUnusedImport
