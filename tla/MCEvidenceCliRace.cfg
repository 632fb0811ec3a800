SPECIFICATION Spec
CONSTANTS
  f1 = f1
  f2 = f2
  sample = sample
  tampered = tampered
  Path = {sample, tampered}
  BadFile = BadFile
  Absent = Absent
  Frame <- MCFrame
  Time <- MCTime
  Verdict <- MCVerdict
  Generated <- MCGenerated
  Flip <- MCFlip
  Placed <- TwoFrames
  Job <- LogJobs
  CryptoReal = TRUE
  Process = {p1, p2}
  MayFail = TRUE
  MayCrash = TRUE
  MaxStarts = 3
  MaxFaults = 2
SYMMETRY Symmetry
INVARIANTS
  ValidAuditTellsHistory
CHECK_DEADLOCK FALSE
