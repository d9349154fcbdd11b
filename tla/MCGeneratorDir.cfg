SPECIFICATION FairSpec
CONSTANTS
  Invocations <- OneDirInvocation
  Types     <- MCTypes
  Tables    <- MCTables
  TablePkgs <- MCTablePkgs
  BasePkgs  <- MCBasePkgs
  MaxRuns   = 1
PROPERTY
  DirectoriesSkipped
\* After the last run there is nothing left to do.
CHECK_DEADLOCK FALSE
