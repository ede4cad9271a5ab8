SPECIFICATION Spec
CONSTANTS
  MaxLength <- MCMaxLength
  ContentLengths <- MCContentLengths
  Chunks <- MCChunks
  IntMax <- MCIntMax
INVARIANTS TypeOK InBounds BoundedGrowth NoIntOverflow
PROPERTY AppendOnly
