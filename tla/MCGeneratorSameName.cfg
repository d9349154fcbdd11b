SPECIFICATION Spec
CONSTANTS
  Invocations <- SameNameInvocation
  Types     <- MCTypes
  Tables    <- MCTables
  TablePkgs <- MCTablePkgs
  BasePkgs  <- MCBasePkgs
  MaxRuns   = 1
INVARIANTS
  OneForEachDML
\* After the last run there is nothing left to do.
CHECK_DEADLOCK FALSE
