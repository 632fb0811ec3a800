SPECIFICATION FairSpec
CONSTANTS
  f1 = f1
  f2 = f2
  Thread = {t1, t2}
  NoThread = NoThread
  Frame <- MCFrame1
  Time <- MCTime
  Verdict <- MCVerdict1
  CryptoReal = TRUE
  HmacLane = FALSE
  OqsBackend = TRUE
  CryptoOps <- MCAllOps
  MayPanic = TRUE
  MaxCalls = 2
  MaxRestarts = 0
PROPERTIES
  CallsReturn
CHECK_DEADLOCK FALSE
