SPECIFICATION Spec
CONSTANTS
  f1 = f1
  f2 = f2
  Thread = {t1, t2}
  NoThread = NoThread
  Frame <- MCFrame
  Time <- MCTime
  Verdict <- MCVerdict
  CryptoReal = TRUE
  HmacLane = TRUE
  OqsBackend = TRUE
  CryptoOps <- MCNoOps
  MayPanic = TRUE
  MaxCalls = 2
  MaxRestarts = 1
SYMMETRY Symmetry
INVARIANTS
  TypeOK
  OneInitOwner
  NoCryptoBeforeTests
  InitOkOpensGate
  LogStaysValid
  VerdictsLoggedOnce
  FileFollowsLog
  NobodyStuck
PROPERTIES
  SettledForGood
  FailsClosed
  ImplementsLedger
CHECK_DEADLOCK FALSE
