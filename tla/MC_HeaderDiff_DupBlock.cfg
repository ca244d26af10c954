CONSTANTS
  NoneValue = NoneValue
  NoHeaderValue = NoHeaderValue
  None <- NoneValue
  NoHeader <- NoHeaderValue
  Blocks <- MCBlocks
  MaxBlocks = 2
SPECIFICATION Spec
INVARIANTS
  HeaderOkMeansSameBlocks
