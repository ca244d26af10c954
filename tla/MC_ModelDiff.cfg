CONSTANTS
  NoneValue = NoneValue
  None <- NoneValue
  Types <- MCTypes
  Names <- MCNames
  PropNames <- MCPropNames
  Values <- MCValues
  RelNames <- MCRelNames
  Targets <- MCTargets
  Exts <- MCExts
  Fingerprints <- MCFingerprints
  AnnTypes <- MCAnnTypes
  Elements <- MCElements
  MaxLen = 2
SPECIFICATION Spec
INVARIANTS
  TypeOK
  IndexIsLastWrite
  DuplicatesWarned
  ReportSound
  ChangesReported
PROPERTY
  Refinement
