SPECIFICATION FairSpec
CONSTANTS
  Invocations <- MCInvocations
  Types     <- MCTypes
  Tables    <- MCTables
  TablePkgs <- MCTablePkgs
  BasePkgs  <- MCBasePkgs
  MaxRuns   = 2
INVARIANTS
  TypeOK
  EverySourceWritten
  AtMostOneCut
  ReadersAfterTables
  CommandLineFirst
PROPERTY
  EveryRunEnds
\* After the last run there is nothing left to do.
CHECK_DEADLOCK FALSE
