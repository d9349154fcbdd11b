SPECIFICATION Spec
CONSTANTS
  RefNames <- MCRefNames
  Lengths <- MCLengths
  Offsets <- MCOffsets
  Nums    <- MCNums
INVARIANTS
  TypeOK
  MapMatchesRanges
  ColumnOffsetsRun
PROPERTY
  OnlyAdds
