SPECIFICATION Spec
CONSTANTS
  Garbled = Garbled
  Absent = Absent
  OqsBackend = TRUE
  EngineUp = TRUE
  p1 = p1
  p2 = p2
  profileA = profileA
  profileB = profileB
  doc = doc
  evidence = evidence
  sealA = sealA
  sealB = sealB
  regA = regA
  regB = regB
  Process = {p1, p2}
  Key = {k1, k2}
  DeviceId16 = {d1, d2}
  Epoch = {1, 2}
  Data = {x, y}
  Mime = Mime
  Profiles = {profileA, profileB}
  Docs = {doc}
  Evidences = {evidence}
  Seals = {sealA, sealB}
  Registries = {regA, regB}
  Job <- RaceJobs
  MayFail = FALSE
  MayCrash = TRUE
  MayAlter = FALSE
  MaxStarts = 4
  MaxEdits = 1
SYMMETRY Symm
INVARIANTS TypeOK AttestedWasDecided
PROPERTY KeepsPromise
CHECK_DEADLOCK FALSE
