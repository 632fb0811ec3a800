SPECIFICATION Spec
CONSTANTS
  f1 = f1
  f2 = f2
  sample = sample
  tampered = tampered
  Path = {sample, tampered}
  BadFile = BadFile
  Absent = Absent
  Frame <- MCFrame
  Time <- MCTime
  Verdict <- MCVerdict
  Generated <- MCGenerated
  Flip <- MCFlip
  Placed <- NoFrames
  Job <- DemoJobs
  CryptoReal = TRUE
  Process = {p1}
  MayFail = TRUE
  MayCrash = TRUE
  MaxStarts = 6
  MaxFaults = 2
INVARIANTS
  TypeOK
  LogsAgree
  BundleOfOneMoment
  NoFalseAlarm
PROPERTIES
  SavedBeforeAnswer
  ReplayKnowsVerdicts
  ChainGoesOn
CHECK_DEADLOCK FALSE
