SPECIFICATION Spec
CONSTANTS
  Garbled = Garbled
  OqsBackend = TRUE
  EngineUp = TRUE
  d1 = d1
  d2 = d2
  Slot = {s1, s2}
  Root = {r1, r2}
  Epoch = {0, 1}
  DeviceId16 = {d1, d2}
  Context <- MCContext
  SigCtx = {"", "other"}
  Absent = Absent
  CtxHash = CtxHash
  Enrolled <- MCEnrolled
  MayRestore = TRUE
  MaxDepth = 2
  MaxCalls = 6
SYMMETRY Symmetry
INVARIANTS
  TypeOK
  AuthorizedExactly
  ValidatorsExact
PROPERTIES
  NeverAgain
CHECK_DEADLOCK FALSE
