CONSTANTS
  NoneValue = NoneValue
  None <- NoneValue
  Inlines <- MCInlines
SPECIFICATION Spec
INVARIANTS
  FingerprintExact
