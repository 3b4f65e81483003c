SPECIFICATION MCSpec
CONSTANTS
  Procs = {p1, p2}
  Bytes <- MCBytes
  Contents <- MCContents
  SizeOf <- Mixed
  MaxSize = 2
  BuffSize = 3
  MaxBackups = 1
  MaxAge = 2
  Compress = TRUE
  MaxTime = 3
  MaxCrashes = 1
  Linux = FALSE
  MaxLines = 4
  maxFileSize = 1
  maxBackups = 1
  maxAge = 1
  LastTick = 2
  Mishaps = 2
  Zones = {"east", "west"}
  Parts = {"locked", "log", "copy"}
INVARIANTS Atomicity ReadsLatest  MillIsTold 
PROPERTIES  NewestKept
CHECK_DEADLOCK FALSE
