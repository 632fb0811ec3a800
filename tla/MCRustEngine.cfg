SPECIFICATION Spec
CONSTANTS
  Garbled = Garbled
  Absent = Absent
  OqsBackend = TRUE
  EngineUp = TRUE
  file = file
  Process = {p1}
  Path = {file}
  Given <- MCGiven
  Engine = {"python", "rust"}
  MayFail = FALSE
  MayCrash = FALSE
  MaxStarts = 2
INVARIANTS
  RustEngineVerifies
CHECK_DEADLOCK FALSE
