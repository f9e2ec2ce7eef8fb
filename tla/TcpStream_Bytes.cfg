SPECIFICATION FairSpec
CONSTANTS
  CheapPrepend = 1
  InitialSize = 2
  ExtraBuf = 3
  MaxBytes = 9
  MaxLen = 4
INVARIANTS
  IndInv
  RestIsBuffered
  NothingHeldBack
PROPERTIES
  InputIsStream
  OutputIsStream
  AllIsWritten
CHECK_DEADLOCK FALSE
