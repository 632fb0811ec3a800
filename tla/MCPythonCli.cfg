SPECIFICATION Spec
CONSTANTS
  Garbled = Garbled
  Absent = Absent
  OqsBackend = TRUE
  EngineUp = TRUE
  file = file
  Process = {p1, p2}
  Path = {file}
  Given <- MCGiven
  Engine = {"python", "rust", "other"}
  MayFail = TRUE
  MayCrash = TRUE
  MaxStarts = 4
SYMMETRY Symmetry
INVARIANTS
  TypeOK
  HonestLog
  VerdictsAgree
PROPERTIES
  BundleIsWhole
  ReplayBlamesEngine
CHECK_DEADLOCK FALSE
