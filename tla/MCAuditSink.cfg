SPECIFICATION Spec
CONSTANTS
  Frame = {"f1", "f2"}
  Time <- MCTime
  CryptoReal = TRUE
  Input <- MCInput
  MaxRecords = 3
  MaxRuns = 2
  MaxAlters = 1
INVARIANTS
  TypeOK
  LogAndFileStayValid
  ValidatesOnlyOwn
  TamperEvident
  AnchorTellsLog
CHECK_DEADLOCK FALSE
