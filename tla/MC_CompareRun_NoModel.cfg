CONSTANTS
  NoneValue = NoneValue
  MsNsValue = MsNsValue
  AbsentValue = AbsentValue
  NoHeaderValue = NoHeaderValue
  BinaryValue = BinaryValue
  None <- NoneValue
  MsNs <- MsNsValue
  Absent <- AbsentValue
  NoHeader <- NoHeaderValue
  Binary <- BinaryValue
  Nodes <- MCNodes
  Blocks <- MCBlocks
  MaxBlocks = 1
  Types = {"SqlTable"}
  Names = {"t"}
  PropNames = {"P"}
  Values = {"v1", "v2"}
  RelNames = {}
  Targets = {}
  Exts = {}
  Fingerprints = {}
  AnnTypes = {}
  Elements <- MCElements
  MaxLen = 1
  Unknown <- MCUnknown
  Contents <- MCContentsNoModel
SPECIFICATION Spec
INVARIANT
  Reflexivity
