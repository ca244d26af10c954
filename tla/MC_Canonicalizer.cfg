CONSTANTS
  NoneValue = NoneValue
  MsNsValue = MsNsValue
  AbsentValue = AbsentValue
  None <- NoneValue
  MsNs <- MsNsValue
  Absent <- AbsentValue
  Nodes <- MCNodes
  Files <- MCFiles
SPECIFICATION Spec
INVARIANTS
  SimpleXmlVerdict
